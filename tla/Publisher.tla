----------------------------- MODULE Publisher -----------------------------
(***************************************************************************)
(* output/publisher.c: the one AMQP connection that the publish thread and *)
(* the metrics thread share under amqp_mutex, its reconnection with        *)
(* backoff, and init_queue and close_queue, which main calls before the    *)
(* threads exist and after they have ended.                                *)
(*                                                                         *)
(* Time is counted in ticks and relative: wait is g_next_retry_ms less the *)
(* clock, never below zero.  CONNECT_TIMEOUT_SEC bounds the opening of the *)
(* socket and nothing else: the login, the channel and the queues are      *)
(* calls that wait for their answer as long as it takes, with the mutex    *)
(* held and no heartbeat, and so is a write that the peer does not take.   *)
(*                                                                         *)
(* A batch is its number.  amqp_basic_publish only writes to the socket:   *)
(* AMQP_STATUS_OK on a link that is already dead, or that dies before the  *)
(* broker has read the batch, is a batch lost.  An error means that the    *)
(* batch was not written whole.  Its message can leave events out for want *)
(* of memory; which ones is in module Pipeline.                            *)
(***************************************************************************)
EXTENDS Naturals, Sequences, FiniteSets, Functions

CONSTANTS MinBackoff, MaxBackoff,  \* RECONNECT_MIN_MS, RECONNECT_MAX_MS
          ConnectTimeout,          \* CONNECT_TIMEOUT_SEC
          MaxBatches,              \* bound: batches to send
          MaxFaults                \* bound: links broken, allocations failed

ASSUME BackoffAssumption ==
  /\ MinBackoff \in Nat \ {0} /\ MaxBackoff \in Nat /\ MinBackoff <= MaxBackoff
  /\ ConnectTimeout \in Nat
ASSUME BoundsAssumption == MaxBatches \in Nat /\ MaxFaults \in Nat

Threads == {"main", "publish", "metrics"}

VARIABLES
  mutex,            \* amqp_mutex: the thread that holds it, or "none"
  conn,             \* the socket: "null" (not open), "live", or the peer is gone and nobody
                    \* has noticed yet: "dead" (the next call fails) or "silent" (the next
                    \* call may wait for ever, also when it is the broker that hangs)
  connected,        \* g_connected
  wait, backoff,    \* g_next_retry_ms relative to the clock, g_backoff_ms
  elapsed,          \* ticks since the attempt under way read the clock
  pc,               \* where each thread is
  mpc,              \* main: "init", "run", "closed"
  batch,            \* the batch publish_thread holds
  short,            \* its message, as built last, leaves an event out
  broker, faults,
  wire,             \* batches written to the live link, not yet read by the broker
  received, lost,   \* what became of the batches that were reported as sent
  cut               \* those of them whose message was short

link  == <<conn, connected, wait, backoff, elapsed>>
fate  == <<wire, received, lost, cut>>
world == <<broker, faults>>
vars  == <<mutex, link, pc, mpc, batch, short, world, fate>>

Less(a, b) == IF a > b THEN a - b ELSE 0
LinkLost == lost' = lost \cup Range(wire) /\ wire' = <<>>

(***************************************************************************)
(* Bugs that mutation runs plant in the definitions below.                 *)
(***************************************************************************)
MutDoubled(b) == b * 2

MutDropKeepsFlag == conn' = "null" /\ UNCHANGED connected

MutPublishErrorKeepsConn(t) ==
  /\ pc[t] = "publishing" /\ conn \in {"dead", "silent"}
  /\ mutex' = "none"
  /\ pc' = [pc EXCEPT ![t] = "idle"]
  /\ UNCHANGED <<link, mpc, batch, short, world, fate>>

MutPublishOkNotReported(t) ==
  /\ pc[t] = "publishing"
  /\ IF t = "publish"
       THEN IF conn = "live" THEN wire' = Append(wire, batch) /\ UNCHANGED lost
                             ELSE lost' = lost \cup {batch} /\ UNCHANGED wire
       ELSE UNCHANGED <<wire, lost>>
  /\ mutex' = "none"
  /\ pc' = [pc EXCEPT ![t] = "idle"]
  /\ UNCHANGED <<link, mpc, batch, short, world, received, cut>>

Init ==
  /\ mutex = "none" /\ conn = "null" /\ connected = FALSE
  /\ wait = 0 /\ backoff = MinBackoff /\ elapsed = 0
  /\ pc = [t \in Threads |-> IF t = "main" THEN "probe" ELSE "none"]
  /\ mpc = "init" /\ batch = 1 /\ short = FALSE
  /\ broker \in {"up", "down"} /\ faults = 0
  /\ wire = <<>> /\ received = <<>> /\ lost = {} /\ cut = {}

(***************************************************************************)
(* ensure_connected_locked.  A thread at "probe" (init_queue, the first    *)
(* half of publisher_send_batch) or "publish" (publish_to) takes the mutex *)
(* and finds the connection up, the retry window closed, or neither.       *)
(***************************************************************************)
After(t) == CASE pc[t] \in {"publish", "publishLogin"} -> "publishing"
              [] t = "main" -> "idle"
              [] OTHER -> "build"

\* The mutex is kept to publish; a probe gives it back.
Ensured(t) ==
  /\ mutex' = IF After(t) = "publishing" THEN t ELSE "none"
  /\ pc' = [pc EXCEPT ![t] = After(t)]

EnsureUp(t) ==
  /\ pc[t] \in {"probe", "publish"} /\ mutex = "none"
  /\ connected
  /\ Ensured(t)
  /\ UNCHANGED <<link, mpc, batch, short, world, fate>>

EnsureTooSoon(t) ==
  /\ pc[t] \in {"probe", "publish"} /\ mutex = "none"
  /\ ~connected /\ wait > 0
  /\ pc' = [pc EXCEPT ![t] = "idle"]
  /\ UNCHANGED <<mutex, link, mpc, batch, short, world, fate>>

EnsureAttempt(t) ==                 \* mono_ms is read here, before connect_locked
  /\ pc[t] \in {"probe", "publish"} /\ mutex = "none"
  /\ ~connected /\ wait = 0
  /\ mutex' = t /\ elapsed' = 0
  /\ pc' = [pc EXCEPT ![t] = IF pc[t] = "probe" THEN "probeConnect" ELSE "publishConnect"]
  /\ UNCHANGED <<conn, connected, wait, backoff, mpc, batch, short, world, fate>>

Connecting(t) == pc[t] \in {"probeConnect", "publishConnect"}  \* amqp_socket_open_noblock
LoggingIn(t)  == pc[t] \in {"probeLogin", "publishLogin"}      \* login, channel, both queues

SocketOpens(t) ==
  /\ Connecting(t) /\ broker = "up"
  /\ conn' = "live"
  /\ pc' = [pc EXCEPT ![t] = IF pc[t] = "probeConnect" THEN "probeLogin" ELSE "publishLogin"]
  /\ UNCHANGED <<mutex, connected, wait, backoff, elapsed, mpc, batch, short, world, fate>>

ConnectSucceeds(t) ==               \* the broker has answered every call
  /\ LoggingIn(t) /\ conn = "live"
  /\ connected' = TRUE /\ backoff' = MinBackoff
  /\ Ensured(t)
  /\ UNCHANGED <<conn, wait, elapsed, mpc, batch, short, world, fate>>

Doubled(b) == IF b * 2 > MaxBackoff THEN MaxBackoff ELSE b * 2

ConnectFails(t) ==                  \* g_next_retry_ms counts from the start of the attempt
  /\ Connecting(t) \/ LoggingIn(t)
  /\ \/ Connecting(t) /\ broker = "down" /\ UNCHANGED faults           \* refused, or timed out
     \/ LoggingIn(t) /\ conn \in {"dead", "silent"} /\ UNCHANGED faults
     \/ faults < MaxFaults /\ faults' = faults + 1   \* socket, login, channel or queue refused
  /\ conn' = "null" /\ connected' = FALSE
  /\ wait' = Less(backoff, elapsed) /\ backoff' = Doubled(backoff)
  /\ mutex' = "none"
  /\ pc' = [pc EXCEPT ![t] = "idle"]
  /\ UNCHANGED <<elapsed, mpc, batch, short, broker, fate>>

(***************************************************************************)
(* publisher_send_batch and publisher_send_metrics                         *)
(***************************************************************************)
SendBatch ==
  /\ pc["publish"] = "idle" /\ batch <= MaxBatches
  /\ pc' = [pc EXCEPT !["publish"] = "probe"]
  /\ UNCHANGED <<mutex, link, mpc, batch, short, world, fate>>

BuildBatch ==                       \* the JSON array, with the mutex free
  /\ pc["publish"] = "build"
  /\ \/ short' = FALSE /\ UNCHANGED faults
     \/ short' = TRUE /\ faults < MaxFaults /\ faults' = faults + 1   \* no memory for an event
  /\ pc' = [pc EXCEPT !["publish"] = "publish"]
  /\ UNCHANGED <<mutex, link, mpc, batch, broker, fate>>

BuildFails ==                       \* no memory for the array, or for its text
  /\ pc["publish"] = "build" /\ faults < MaxFaults
  /\ faults' = faults + 1
  /\ pc' = [pc EXCEPT !["publish"] = "idle"]
  /\ UNCHANGED <<mutex, link, mpc, batch, short, broker, fate>>

SendMetrics ==
  /\ pc["metrics"] = "idle"
  /\ pc' = [pc EXCEPT !["metrics"] = "publish"]
  /\ UNCHANGED <<mutex, link, mpc, batch, short, world, fate>>

PublishOk(t) ==                     \* publish_to returns 0: the batch counts as sent
  /\ pc[t] = "publishing"
  /\ IF t = "publish"
       THEN /\ batch' = batch + 1
            /\ IF conn = "live" THEN wire' = Append(wire, batch) /\ UNCHANGED lost
                                ELSE lost' = lost \cup {batch} /\ UNCHANGED wire
            /\ cut' = IF short THEN cut \cup {batch} ELSE cut
       ELSE UNCHANGED <<batch, wire, lost, cut>>
  /\ mutex' = "none"
  /\ pc' = [pc EXCEPT ![t] = "idle"]
  /\ UNCHANGED <<link, mpc, short, world, received>>

drop_connection_locked == conn' = "null" /\ connected' = FALSE

PublishError(t) ==                  \* publish_to returns -1; the batch is kept
  /\ pc[t] = "publishing" /\ conn \in {"dead", "silent"}
  /\ drop_connection_locked
  /\ mutex' = "none"
  /\ pc' = [pc EXCEPT ![t] = "idle"]
  /\ UNCHANGED <<wait, backoff, elapsed, mpc, batch, short, world, fate>>

(***************************************************************************)
(* main, and the ends of the threads                                       *)
(***************************************************************************)
StartThreads ==                     \* init_queue has returned, whatever it found
  /\ mpc = "init" /\ pc["main"] = "idle"
  /\ mpc' = "run"
  /\ pc' = [pc EXCEPT !["publish"] = "idle", !["metrics"] = "idle"]
  /\ UNCHANGED <<mutex, link, batch, short, world, fate>>

PublishEnd ==                       \* all is sent, or the shutdown gives a batch up
  /\ pc["publish"] = "idle"
  /\ pc' = [pc EXCEPT !["publish"] = "end"]
  /\ UNCHANGED <<mutex, link, mpc, batch, short, world, fate>>

MetricsEnd ==
  /\ pc["metrics"] = "idle"
  /\ pc' = [pc EXCEPT !["metrics"] = "end"]
  /\ UNCHANGED <<mutex, link, mpc, batch, short, world, fate>>

close_queue ==                      \* both threads joined; closing waits for the broker
  /\ mpc = "run" /\ pc["publish"] = "end" /\ pc["metrics"] = "end" /\ mutex = "none"
  /\ drop_connection_locked
  /\ received' = received \o wire /\ wire' = <<>>
  /\ mpc' = "closed"
  /\ UNCHANGED <<mutex, wait, backoff, elapsed, pc, batch, short, world, lost, cut>>

(***************************************************************************)
(* Surroundings.                                                           *)
(***************************************************************************)
Under == \E t \in Threads : Connecting(t) \/ LoggingIn(t)   \* an attempt is under way

\* elapsed stops where it makes no difference any more to when the next attempt may come.
Tick ==
  /\ wait > 0 \/ Under
  /\ (\E t \in Threads : Connecting(t)) => elapsed < ConnectTimeout
  /\ wait' = Less(wait, 1)
  /\ elapsed' = IF Under /\ elapsed < ConnectTimeout + MaxBackoff THEN elapsed + 1 ELSE elapsed
  /\ UNCHANGED <<mutex, conn, connected, backoff, pc, mpc, batch, short, world, fate>>

BrokerReads ==
  /\ wire # <<>>
  /\ received' = Append(received, Head(wire)) /\ wire' = Tail(wire)
  /\ UNCHANGED <<mutex, link, pc, mpc, batch, short, world, lost, cut>>

LinkBreaks ==                       \* the broker goes down, or only the network does
  /\ faults < MaxFaults
  /\ faults' = faults + 1
  /\ broker' \in {"up", "down"}
  /\ conn' \in IF conn = "live" THEN {"dead", "silent"} ELSE {conn}
  /\ LinkLost
  /\ UNCHANGED <<mutex, connected, wait, backoff, elapsed, pc, mpc, batch, short, received, cut>>

BrokerUp ==
  /\ broker = "down"
  /\ broker' = "up"
  /\ UNCHANGED <<mutex, link, pc, mpc, batch, short, faults, fate>>

Closed == mpc = "closed" /\ UNCHANGED vars

Locks(t) == EnsureUp(t) \/ EnsureTooSoon(t) \/ EnsureAttempt(t)
Holds(t) == SocketOpens(t) \/ ConnectSucceeds(t) \/ ConnectFails(t) \/ PublishOk(t) \/ PublishError(t)

Next ==
  \/ \E t \in Threads : Locks(t) \/ Holds(t)
  \/ SendBatch \/ BuildBatch \/ BuildFails \/ SendMetrics
  \/ StartThreads \/ PublishEnd \/ MetricsEnd \/ close_queue
  \/ Tick \/ BrokerReads \/ LinkBreaks \/ BrokerUp \/ Closed

Spec == Init /\ [][Next]_vars

\* A call that waits for a peer which has gone silent: nothing makes it return.
Waits(t) == conn = "silent" /\ (LoggingIn(t) \/ pc[t] = "publishing")

\* Threads run and clocks advance; a call returns on a live link, where the broker
\* answers, on a dead one, where it fails, and from opening the socket.  The mutex is
\* not fair, but metrics_thread sleeps for seconds between two reports, so
\* publish_thread does get it.
Fairness ==
  /\ \A t \in Threads : WF_vars(~Waits(t) /\ Holds(t)) /\ SF_vars(Locks(t))
  /\ WF_vars(SendBatch) /\ WF_vars(BuildBatch) /\ WF_vars(StartThreads) /\ WF_vars(Tick)

FairSpec == Spec /\ Fairness

(***************************************************************************)
(* Properties.                                                             *)
(***************************************************************************)
\* Values every variable keeps to; the backoff stays between 1 s and 30 s.
TypeOK ==
  /\ mutex \in Threads \cup {"none"}
  /\ conn \in {"null", "live", "dead", "silent"} /\ connected \in BOOLEAN
  /\ backoff \in MinBackoff .. MaxBackoff /\ wait \in 0 .. MaxBackoff
  /\ elapsed \in 0 .. ConnectTimeout + MaxBackoff
  /\ \A t \in Threads : Connecting(t) => elapsed <= ConnectTimeout
  /\ pc \in [Threads -> {"none", "idle", "probe", "probeConnect", "probeLogin", "build", "publish",
                         "publishConnect", "publishLogin", "publishing", "end"}]
  /\ mpc \in {"init", "run", "closed"} /\ batch \in 1 .. MaxBatches + 1
  /\ short \in BOOLEAN /\ broker \in {"up", "down"} /\ faults \in 0 .. MaxFaults
  /\ wire \in Seq(Nat) /\ received \in Seq(Nat) /\ lost \subseteq Nat
  /\ cut \subseteq Nat

\* Whoever takes amqp_mutex finds g_connected and conn in agreement, whatever
\* failed in the other thread's turn; and the thread that publishes still has
\* the connection it made sure of.
FlagTellsConnection ==
  /\ mutex = "none" => (connected <=> conn # "null")
  /\ \A t \in Threads : pc[t] = "publishing" => mutex = t /\ conn # "null"

\* Every batch that publish_thread counted as sent has one fate, and the broker
\* gets batches in order and none twice, although a failed send is repeated on
\* another connection.  A message that left events out counts only when it was
\* sent: a batch that is still held is built anew.
SentOnce ==
  LET line == received \o wire
  IN  /\ 1 .. batch - 1 = Range(line) \cup lost
      /\ Range(line) \cap lost = {}
      /\ \A i, j \in 1 .. Len(line) : i < j => line[i] < line[j]
      /\ cut \subseteq 1 .. batch - 1

\* The broker gets a part of the batches that publisher_send_batch reported as
\* sent, in order, although links break and a failed send is repeated.
Lossy == INSTANCE LossyLine WITH offered <- batch - 1, delivered <- received

ImplementsLossyLine == Lossy!LSpec

\* The agent recovers by itself: once the broker is up for good a batch that is
\* held gets sent, unless the agent is shut down first, or a thread waits for ever,
\* with the mutex, for a peer that went silent while it logged in or published.
BatchGetsThrough ==
  <>[](broker = "up") /\ []<>(\A t \in Threads : ~Waits(t)) =>
    \A b \in 1 .. MaxBatches :
      (mpc = "run" /\ batch = b) ~> (batch > b \/ pc["publish"] = "end")
=============================================================================

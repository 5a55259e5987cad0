------------------------------ MODULE Consumer ------------------------------
(***************************************************************************)
(* The life of a message in nta-server: the threads that consume the three *)
(* queues of the broker (worker_main, metrics_worker_main and              *)
(* narrator_worker_main over nta_consumer.c), their handlers, and the      *)
(* connection gauge that /health answers from.  Module WorkerPool shows    *)
(* how the threads come and go; here a traffic worker is told to stop and  *)
(* started again at any time.                                              *)
(*                                                                         *)
(* A message is <<m, 0>>, the m-th of the agents, or <<m, i>>, the i-th    *)
(* event of message m republished for the narrator.  Consuming with        *)
(* auto_ack, the broker forgets a message when it writes it to the socket, *)
(* and no prefetch limit applies: inbox is what it has written and the     *)
(* worker has not read.  Writing to InfluxDB and calling the language      *)
(* model succeed or fail.  An attempt to connect that fails changes        *)
(* nothing, and its backoff is left out.                                   *)
(*                                                                         *)
(* A connection that breaks may be seen to be broken at its next use.  But *)
(* it has neither a heartbeat nor a timeout: when the peer just goes       *)
(* silent, the loop takes the silence for an empty queue, and every call   *)
(* that needs an answer waits for it.                                      *)
(***************************************************************************)
EXTENDS Naturals, Sequences, FiniteSets, Functions

CONSTANTS Consumers, Role,        \* threads; each "traffic", "metrics" or "narrator"
          KcTrigger, AbuseTrigger,   \* narrator_min_score > 0; abuse_min > 0 and a key
          Events,                 \* events in a message
          MaxMessages, MaxFaults  \* bounds: messages of the agents; breaks and crashes

Queues == {"traffic", "metrics", "narrator"}

ASSUME RoleAssumption == IsFiniteSet(Consumers) /\ Role \in [Consumers -> Queues]
ASSUME TriggerAssumption == KcTrigger \in BOOLEAN /\ AbuseTrigger \in BOOLEAN
ASSUME BoundsAssumption == Events \in Nat /\ MaxMessages \in Nat /\ MaxFaults \in Nat

VARIABLES
  queue, declared,            \* the broker's queues and which of them exist
  conn,                       \* of each thread: "none", "live", or broken and unnoticed: "dead"
                              \* (its next use fails), "cut" (what is sent may not arrive; the
                              \* broker still sends), "gone" (the broker has forgotten it)
  gauge,                      \* g_nta_amqp_connected
  pc, rc, canNarrate,         \* where each thread is, and two locals of it
  inbox, hand, at,            \* delivered messages, the one being handled, its next event
  stop, wstop,                \* g_nta_stop, Worker.stop
  broker, faults, sent,
  done, discarded, lost, unroutable   \* what became of messages

link   == <<conn, gauge>>
locals == <<rc, canNarrate>>
work   == <<inbox, hand, at>>
stops  == <<stop, wstop>>
world  == <<broker, faults, sent>>
fate   == <<done, discarded, lost, unroutable>>
vars   == <<queue, declared, link, pc, locals, work, stops, world, fate>>

NoMessage == <<0, 0>>

Init ==
  /\ queue = [q \in Queues |-> <<>>] /\ declared = {}
  /\ conn = [c \in Consumers |-> "none"] /\ gauge = 0
  /\ pc = [c \in Consumers |-> "start"] /\ rc = [c \in Consumers |-> 0]
  /\ canNarrate = [c \in Consumers |-> TRUE]
  /\ inbox = [c \in Consumers |-> <<>>] /\ hand = [c \in Consumers |-> NoMessage]
  /\ at = [c \in Consumers |-> 0]
  /\ stop = FALSE /\ wstop = [c \in Consumers |-> FALSE]
  /\ broker = "up" /\ faults = 0 /\ sent = 0
  /\ done = {} /\ discarded = {} /\ lost = {} /\ unroutable = {}

stop_requested(c) == stop \/ wstop[c]
Silent(c) == conn[c] \in {"cut", "gone"}

Goes(c, place) == pc' = [pc EXCEPT ![c] = place]

(***************************************************************************)
(* Bugs that mutation runs plant in the definitions below.                 *)
(***************************************************************************)
MutTrafficFailsRequeues(c) ==
  /\ pc[c] = "handle" /\ Role[c] = "traffic"
  /\ queue' = [queue EXCEPT !["traffic"] = Append(@, hand[c])]
  /\ discarded' = discarded \cup {hand[c]}
  /\ hand' = [hand EXCEPT ![c] = NoMessage]
  /\ Goes(c, "loop")
  /\ UNCHANGED <<declared, link, locals, inbox, at, stops, world, done, lost, unroutable>>

MutLoopErrorTimesOut(c) ==
  /\ pc[c] = "loop" /\ ~stop_requested(c) /\ conn[c] = "dead"
  /\ Goes(c, "loop")
  /\ UNCHANGED <<queue, declared, link, locals, work, stops, world, fate>>

MutNextEventOneMore(c) ==
  IF at[c] <= Events
    THEN at' = [at EXCEPT ![c] = @ + 1] /\ UNCHANGED <<pc, hand>>
    ELSE at' = [at EXCEPT ![c] = 0] /\ hand' = [hand EXCEPT ![c] = NoMessage] /\ Goes(c, "loop")

MutOpenRetryIgnoresStop(c) ==
  /\ pc[c] = "open" /\ stop
  /\ Goes(c, "ended")
  /\ UNCHANGED <<queue, declared, link, locals, work, stops, world, fate>>

(***************************************************************************)
(* The thread of a consumer.                                               *)
(***************************************************************************)
OpenInflux(c) ==              \* nta_influx_open (and nta_narrator_open), or the thread returns
  /\ pc[c] = "start"
  /\ \E place \in {"open", "ended"} : Goes(c, place)
  /\ UNCHANGED <<queue, declared, link, locals, work, stops, world, fate>>

\* Where a thread goes from an open connection: a traffic worker declares
\* narrator_queue first, if kc_score may trigger a narration.
AfterOpen(c) == IF Role[c] = "traffic" /\ KcTrigger THEN "declare" ELSE "consume"

nta_amqp_open(c) ==           \* connection, channel, the consumer's own queue
  /\ pc[c] = "open" /\ ~stop_requested(c) /\ broker = "up"
  /\ conn' = [conn EXCEPT ![c] = "live"] /\ gauge' = gauge + 1
  /\ declared' = declared \cup {Role[c]}
  /\ canNarrate' = [canNarrate EXCEPT ![c] = TRUE]
  /\ Goes(c, AfterOpen(c))
  /\ UNCHANGED <<queue, rc, work, stops, world, fate>>

OpenHangs(c) ==               \* the peer accepts and goes silent: login, channel_open or
  /\ pc[c] = "open" /\ ~stop_requested(c)                        \* queue_declare waits
  /\ broker = "up" /\ faults < MaxFaults
  /\ faults' = faults + 1
  /\ declared' \in {declared, declared \cup {Role[c]}}
  /\ Goes(c, "login")
  /\ UNCHANGED <<queue, link, locals, work, stops, broker, sent, fate>>

OpenFails(c) ==               \* TCP has given that connection up
  /\ pc[c] = "login"
  /\ Goes(c, "open")
  /\ UNCHANGED <<queue, declared, link, locals, work, stops, world, fate>>

OpenStops(c) ==               \* nta_amqp_open_retry gives up
  /\ pc[c] = "open" /\ stop_requested(c)
  /\ Goes(c, "ended")
  /\ UNCHANGED <<queue, declared, link, locals, work, stops, world, fate>>

DeclareNarrator(c) ==
  /\ pc[c] = "declare" /\ ~Silent(c)
  /\ declared' = IF conn[c] = "live" THEN declared \cup {"narrator"} ELSE declared
  /\ canNarrate' = [canNarrate EXCEPT ![c] = (conn[c] = "live")]
  /\ Goes(c, "consume")
  /\ UNCHANGED <<queue, link, rc, work, stops, world, fate>>

Subscribe(c) ==               \* basic_consume with auto_ack
  /\ pc[c] = "consume" /\ ~Silent(c)
  /\ Goes(c, IF conn[c] = "live" THEN "loop" ELSE "close")
  /\ rc' = [rc EXCEPT ![c] = IF conn[c] = "live" THEN 0 ELSE 1]
  /\ UNCHANGED <<queue, declared, link, canNarrate, work, stops, world, fate>>

LoopStops(c) ==
  /\ pc[c] = "loop" /\ stop_requested(c)
  /\ rc' = [rc EXCEPT ![c] = 0]
  /\ Goes(c, "close")
  /\ UNCHANGED <<queue, declared, link, canNarrate, work, stops, world, fate>>

LoopError(c) ==               \* amqp_consume_message fails; silence is only a TIMEOUT
  /\ pc[c] = "loop" /\ ~stop_requested(c) /\ conn[c] = "dead"
  /\ rc' = [rc EXCEPT ![c] = 1]
  /\ Goes(c, "close")
  /\ UNCHANGED <<queue, declared, link, canNarrate, work, stops, world, fate>>

LoopTakes(c) ==               \* amqp_consume_message returns a message
  /\ pc[c] = "loop" /\ ~stop_requested(c) /\ inbox[c] # <<>>
  /\ hand' = [hand EXCEPT ![c] = Head(inbox[c])]
  /\ inbox' = [inbox EXCEPT ![c] = Tail(@)]
  /\ Goes(c, "handle")
  /\ UNCHANGED <<queue, declared, link, locals, at, stops, world, fate>>

\* The handler returns with no more to do for the message.
HandlerEnds(c) == Goes(c, "loop") /\ hand' = [hand EXCEPT ![c] = NoMessage]

\* A handler keeps the message (it is written to InfluxDB) or drops it.
Written(c) == done' = done \cup {hand[c]} /\ UNCHANGED discarded
Dropped(c) == discarded' = discarded \cup {hand[c]} /\ UNCHANGED done

Handling(c, q) ==
  /\ pc[c] = "handle" /\ Role[c] = q
  /\ UNCHANGED <<queue, declared, link, locals, inbox, stops, world, lost, unroutable>>

TrafficFails(c) ==            \* traffic_handler: the write fails, and it returns
  Handling(c, "traffic") /\ Dropped(c) /\ HandlerEnds(c) /\ UNCHANGED at

MayTrigger(c) == canNarrate[c] /\ (KcTrigger \/ AbuseTrigger) /\ Events > 0

TrafficWritten(c) ==          \* traffic_handler goes on to the events of the message
  /\ Handling(c, "traffic") /\ Written(c)
  /\ IF MayTrigger(c)
       THEN Goes(c, "republish") /\ at' = [at EXCEPT ![c] = 1] /\ UNCHANGED hand
       ELSE HandlerEnds(c) /\ UNCHANGED at

NarratorSilent(c) ==          \* nta_narrator_call returns no narrative
  Handling(c, "narrator") /\ Dropped(c) /\ HandlerEnds(c) /\ UNCHANGED at

ReportHandled(c) ==           \* metrics or a narrative: a failed write changes nothing else
  /\ \E q \in {"metrics", "narrator"} : Handling(c, q)
  /\ Written(c) \/ Dropped(c)
  /\ HandlerEnds(c) /\ UNCHANGED at

\* The next event of the message, or the end of the handler.
NextEvent(c) ==
  IF at[c] < Events
    THEN at' = [at EXCEPT ![c] = @ + 1] /\ UNCHANGED <<pc, hand>>
    ELSE at' = [at EXCEPT ![c] = 0] /\ HandlerEnds(c)

SkipEvent(c) ==               \* neither score is high enough
  /\ pc[c] = "republish"
  /\ NextEvent(c)
  /\ UNCHANGED <<queue, declared, link, locals, inbox, stops, world, fate>>

\* Whether what is written to the connection gets to the broker.
Arrival(c) == IF conn[c] = "cut" THEN BOOLEAN ELSE {conn[c] = "live"}

\* republish_if_high: the default exchange drops what is addressed to a queue
\* that does not exist; on a broken connection the event is gone too.
RepublishEvent(c) ==
  LET event  == <<hand[c][1], at[c]>>
      exists == "narrator" \in declared
  IN  /\ pc[c] = "republish"
      /\ \E arrives \in Arrival(c) :
           /\ queue' = IF arrives /\ exists THEN [queue EXCEPT !["narrator"] = Append(@, event)]
                                            ELSE queue
           /\ unroutable' = IF arrives /\ ~exists THEN unroutable \cup {event} ELSE unroutable
           /\ lost' = IF arrives THEN lost ELSE lost \cup {event}
      /\ NextEvent(c)
      /\ UNCHANGED <<declared, link, locals, inbox, stops, world, done, discarded>>

\* What was delivered and not read goes with the connection.  channel_close and
\* connection_close wait for the broker's answers.
nta_amqp_close(c) ==
  /\ pc[c] = "close" /\ ~Silent(c)
  /\ conn' = [conn EXCEPT ![c] = "none"] /\ gauge' = gauge - 1
  /\ lost' = lost \cup Range(inbox[c]) /\ inbox' = [inbox EXCEPT ![c] = <<>>]
  /\ Goes(c, IF rc[c] = 0 THEN "ended" ELSE "open")
  /\ UNCHANGED <<queue, declared, locals, hand, at, stops, world, done, discarded, unroutable>>

(***************************************************************************)
(* The scaler and the signal handler.                                      *)
(***************************************************************************)
ScaleDown(c) ==
  /\ Role[c] = "traffic" /\ ~stop /\ ~wstop[c]
  /\ wstop' = [wstop EXCEPT ![c] = TRUE]
  /\ UNCHANGED <<queue, declared, link, pc, locals, work, stop, world, fate>>

ScaleUp(c) ==                 \* in a slot that a scale-down has freed
  /\ Role[c] = "traffic" /\ ~stop /\ wstop[c] /\ pc[c] = "ended"
  /\ wstop' = [wstop EXCEPT ![c] = FALSE]
  /\ Goes(c, "start")
  /\ UNCHANGED <<queue, declared, link, locals, work, stop, world, fate>>

Signal ==
  /\ ~stop
  /\ stop' = TRUE
  /\ UNCHANGED <<queue, declared, link, pc, locals, work, wstop, world, fate>>

(***************************************************************************)
(* Surroundings: agents, broker, network, and a crash of the server, which *)
(* its supervisor starts again.                                            *)
(***************************************************************************)
AgentSends(q) ==              \* the agent's connection declares both of its queues
  /\ broker = "up" /\ sent < MaxMessages
  /\ sent' = sent + 1
  /\ queue' = [queue EXCEPT ![q] = Append(@, <<sent + 1, 0>>)]
  /\ declared' = declared \cup {"traffic", "metrics"}
  /\ UNCHANGED <<link, pc, locals, work, stops, broker, faults, fate>>

Deliver(c) ==                 \* to a subscribed consumer, as long as it has not closed
  /\ conn[c] \in {"live", "cut"} /\ pc[c] \in {"consume", "loop", "handle", "republish", "close"}
  /\ queue[Role[c]] # <<>>
  /\ inbox' = [inbox EXCEPT ![c] = Append(@, Head(queue[Role[c]]))]
  /\ queue' = [queue EXCEPT ![Role[c]] = Tail(@)]
  /\ UNCHANGED <<declared, link, pc, locals, hand, at, stops, world, fate>>

LinkBreaks(c) ==
  /\ conn[c] = "live" /\ faults < MaxFaults
  /\ faults' = faults + 1
  /\ \E k \in {"dead", "cut"} : conn' = [conn EXCEPT ![c] = k]
  /\ UNCHANGED <<queue, declared, gauge, pc, locals, work, stops, broker, sent, fate>>

LinkShows(c) ==               \* TCP gives it up, or the network is back
  /\ Silent(c)
  /\ \E k \in {"dead", "live"} : conn' = [conn EXCEPT ![c] = k] /\ (k = "live" => conn[c] = "cut")
  /\ UNCHANGED <<queue, declared, gauge, pc, locals, work, stops, world, fate>>

Conns == {"none", "live", "dead", "cut", "gone"}

\* What a connection may be when the broker has stopped, with or without a word.
Outage(k) == CASE k = "live" -> {"dead", "gone"} [] k = "cut" -> {"gone"} [] OTHER -> {k}

BrokerDown ==                 \* queues are durable and messages persistent
  /\ broker = "up" /\ faults < MaxFaults
  /\ faults' = faults + 1 /\ broker' = "down"
  /\ conn' \in {f \in [Consumers -> Conns] : \A c \in Consumers : f[c] \in Outage(conn[c])}
  /\ UNCHANGED <<queue, declared, gauge, pc, locals, work, stops, sent, fate>>

BrokerUp ==
  /\ broker = "down"
  /\ broker' = "up"
  /\ UNCHANGED <<queue, declared, link, pc, locals, work, stops, faults, sent, fate>>

InHandlers == {hand[c] : c \in {d \in Consumers : pc[d] = "handle"}}
InInboxes == UNION {Range(inbox[c]) : c \in Consumers}

Exited == stop /\ \A c \in Consumers : pc[c] = "ended"

Crash ==
  /\ faults < MaxFaults /\ ~Exited
  /\ faults' = faults + 1
  /\ lost' = lost \cup InInboxes \cup InHandlers
  /\ conn' = [c \in Consumers |-> "none"] /\ gauge' = 0
  /\ pc' = [c \in Consumers |-> "start"] /\ rc' = [c \in Consumers |-> 0]
  /\ canNarrate' = [c \in Consumers |-> TRUE]
  /\ inbox' = [c \in Consumers |-> <<>>] /\ hand' = [c \in Consumers |-> NoMessage]
  /\ at' = [c \in Consumers |-> 0]
  /\ stop' = FALSE /\ wstop' = [c \in Consumers |-> FALSE]
  /\ UNCHANGED <<queue, declared, broker, sent, done, discarded, unroutable>>

Thread(c) ==
  \/ OpenInflux(c) \/ nta_amqp_open(c) \/ OpenHangs(c) \/ OpenFails(c) \/ OpenStops(c)
  \/ DeclareNarrator(c) \/ Subscribe(c)
  \/ LoopStops(c) \/ LoopError(c) \/ LoopTakes(c) \/ TrafficFails(c) \/ TrafficWritten(c)
  \/ NarratorSilent(c) \/ ReportHandled(c) \/ SkipEvent(c) \/ RepublishEvent(c) \/ nta_amqp_close(c)

Next ==
  \/ \E c \in Consumers : \/ Thread(c) \/ Deliver(c) \/ ScaleDown(c) \/ ScaleUp(c)
                         \/ LinkBreaks(c) \/ LinkShows(c)
  \/ \E q \in Range(Role) \ {"narrator"} : AgentSends(q)
  \/ Signal \/ BrokerDown \/ BrokerUp \/ Crash \/ (Exited /\ UNCHANGED vars)

Spec == Init /\ [][Next]_vars

\* A thread that waits for a peer which has gone silent: for an answer, for room to
\* write, or in the loop for a message.
Waits(c) ==
  \/ pc[c] = "login"
  \/ Silent(c) /\ pc[c] \in {"declare", "consume", "republish", "close"}
  \/ Silent(c) /\ pc[c] = "loop" /\ ~stop_requested(c)

\* Threads run unless they wait, and the broker delivers where the network does.
\* Nothing is assumed of agents, of the scaler, of signals, of when silence ends, or of
\* how InfluxDB and the language model answer.
Fairness ==
  \A c \in Consumers : WF_vars(~Waits(c) /\ Thread(c)) /\ WF_vars(conn[c] = "live" /\ Deliver(c))

FairSpec == Spec /\ Fairness

(***************************************************************************)
(* Properties.                                                             *)
(***************************************************************************)
Places == {"start", "open", "login", "declare", "consume", "loop", "handle", "republish", "close", "ended"}
Messages == (1 .. MaxMessages) \X (0 .. Events)

\* Values every variable keeps to.
TypeOK ==
  /\ queue \in [Queues -> Seq(Messages)] /\ declared \subseteq Queues
  /\ conn \in [Consumers -> Conns] /\ gauge \in Nat
  /\ pc \in [Consumers -> Places] /\ rc \in [Consumers -> {0, 1}]
  /\ canNarrate \in [Consumers -> BOOLEAN] /\ inbox \in [Consumers -> Seq(Messages)]
  /\ hand \in [Consumers -> Messages \cup {NoMessage}] /\ at \in [Consumers -> 0 .. Events]
  /\ stop \in BOOLEAN /\ wstop \in [Consumers -> BOOLEAN] /\ broker \in {"up", "down"}
  /\ faults \in 0 .. MaxFaults /\ sent \in 0 .. MaxMessages
  /\ done \cup discarded \cup lost \cup unroutable \subseteq Messages

\* Where a message is or what became of it.
Whereabouts(m) ==
  (UNION {{<<"queue", q, i>> : i \in {j \in DOMAIN queue[q] : queue[q][j] = m}} : q \in Queues})
  \cup (UNION {{<<"inbox", c, i>> : i \in {j \in DOMAIN inbox[c] : inbox[c][j] = m}} : c \in Consumers})
  \cup {<<"hand", c, 0>> : c \in {d \in Consumers : pc[d] = "handle" /\ hand[d] = m}}
  \cup {<<"fate", f, 0>> : f \in {g \in 1 .. 4 : m \in <<done, discarded, lost, unroutable>>[g]}}

\* A message of an agent is never handled twice and never vanishes without a
\* name for what became of it, through reconnections, scale-downs and crashes;
\* an event is sent to the narrator at most once, and only if the message it came
\* with was written to InfluxDB.
OneFate ==
  \A m \in Messages :
    IF m[2] = 0 THEN Cardinality(Whereabouts(m)) = IF m[1] <= sent THEN 1 ELSE 0
                ELSE /\ Cardinality(Whereabouts(m)) <= 1
                     /\ Whereabouts(m) # {} => <<m[1], 0>> \in done

\* route_health: degraded, and so 503, with no open connection outside a shutdown.
Degraded == ~stop /\ gauge = 0

\* An outage shows: with the broker down for good the health check fails, if no
\* consumer waits for ever for a connection that has gone silent.
OutageShows ==
  <>[](broker = "down" /\ ~stop) /\ (\A c \in Consumers : []<>~Silent(c)) => <>[]Degraded

\* Traffic is served: if the broker stays up and one traffic worker is not told
\* to stop, has its InfluxDB handle and does not wait for ever for a silent peer, no
\* message stays in the queue, whatever connections broke before.
TrafficServed ==
  <>[](broker = "up")
  /\ (\E c \in Consumers : /\ <>[](Role[c] = "traffic" /\ ~stop_requested(c) /\ pc[c] # "ended")
                           /\ []<>~Waits(c))
    => <>[](queue["traffic"] = <<>>)

\* A consumer that is told to stop does stop, wherever it is: connecting,
\* reconnecting, or in a handler; unless it waits for ever for a peer that has gone
\* silent, be it for the answer that its connection is closed.
StopsOnRequest ==
  \A c \in Consumers :
    []<>~Waits(c) => (stop_requested(c) ~> (pc[c] = "ended" \/ ~stop_requested(c)))
=============================================================================

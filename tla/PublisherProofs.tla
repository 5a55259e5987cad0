-------------------------- MODULE PublisherProofs --------------------------
(***************************************************************************)
(* The two threads share the connection soundly and every batch counted as *)
(* sent has one fate, for every backoff and timeout and any number of      *)
(* batches and faults.                                                     *)
(***************************************************************************)
EXTENDS Publisher, SequenceTheorems, TLAPS

\* A thread keeps amqp_mutex while it connects or publishes.
Holding == {"probeConnect", "publishConnect", "probeLogin", "publishLogin", "publishing"}

\* Whose turn it is: the mutex tells which thread is connecting or publishing.
\* main only probes, before the other threads exist; only the publish thread
\* sends batches, and it does not start on one more than there are.
Turns ==
  /\ \A t \in Threads : pc[t] \in Holding <=> mutex = t
  /\ pc["main"] \in {"probe", "probeConnect", "probeLogin", "idle"}
  /\ mpc # "init" => pc["main"] = "idle"
  /\ mpc = "init" => pc["publish"] = "none" /\ pc["metrics"] = "none"
  /\ pc["publish"] \in {"probe", "probeConnect", "probeLogin", "build", "publish", "publishConnect",
                        "publishLogin", "publishing"}
       => batch <= MaxBatches

\* g_connected and conn agree except in connect_locked, between the opening of the
\* socket and the last answer; a thread publishes on a connection.
Linked ==
  /\ (\A t \in Threads : ~LoggingIn(t)) => (connected <=> conn # "null")
  /\ \A t \in Threads : Connecting(t) => ~connected /\ conn = "null"
  /\ \A t \in Threads : LoggingIn(t) => ~connected /\ conn # "null"
  /\ \A t \in Threads : pc[t] = "publishing" => conn # "null"

IInv == TypeOK /\ Turns /\ Linked /\ SentOnce

(***************************************************************************)
(* Types and turns.                                                        *)
(***************************************************************************)
\* The three threads.
LEMMA ThreeThreads ==
  /\ "main" \in Threads /\ "publish" \in Threads /\ "metrics" \in Threads
  /\ "none" \notin Threads
BY DEF Threads

\* The wait and the backoff of a failed attempt are no longer than RECONNECT_MAX_MS.
LEMMA BackoffBounded ==
  ASSUME NEW b \in MinBackoff .. MaxBackoff, NEW e \in Nat
  PROVE  Doubled(b) \in MinBackoff .. MaxBackoff /\ Less(b, e) \in 0 .. MaxBackoff
BY BackoffAssumption DEF Doubled, Less

\* The initial state is as the invariant says.
LEMMA InitSound == Init => IInv
<1> SUFFICES ASSUME Init PROVE IInv
  OBVIOUS
<1> USE BackoffAssumption, BoundsAssumption DEF Init
<1>1. TypeOK
  <2>1. wire \in Seq(Nat) /\ received \in Seq(Nat)
    BY EmptySeq
  <2>2. backoff \in MinBackoff .. MaxBackoff /\ wait \in 0 .. MaxBackoff
        /\ elapsed \in 0 .. ConnectTimeout + MaxBackoff /\ batch \in 1 .. MaxBatches + 1 /\ faults \in 0 .. MaxFaults
    OBVIOUS
  <2>3. \A t \in Threads : Connecting(t) => elapsed <= ConnectTimeout
    BY DEF Connecting, Threads
  <2> QED BY <2>1, <2>2, <2>3, ThreeThreads DEF TypeOK
<1>2. Turns
  BY DEF Turns, Holding, Threads
<1>3. Linked
  BY DEF Linked, LoggingIn, Connecting, Threads
<1>4. SentOnce
  <2>1. Len(received \o wire) = 0 /\ received \o wire = <<>>
    BY EmptySeq, ConcatEmptySeq
  <2>2. Range(received \o wire) = {}
    BY <2>1 DEF Range
  <2> QED BY <2>1, <2>2 DEF SentOnce
<1> QED BY <1>1, <1>2, <1>3, <1>4 DEF IInv

\* Every step keeps every variable to its values.
LEMMA TypeStep ==
  ASSUME TypeOK, Turns, [Next]_vars
  PROVE  TypeOK'
<1> USE BackoffAssumption, BoundsAssumption, ThreeThreads
<1> DEFINE Timed == \A t \in Threads : Connecting(t) => elapsed <= ConnectTimeout
<1>0. pc \in [Threads -> {"none", "idle", "probe", "probeConnect", "probeLogin", "build", "publish",
                         "publishConnect", "publishLogin", "publishing", "end"}]
  BY DEF TypeOK
<1>1. ASSUME NEW t \in Threads, EnsureUp(t) PROVE TypeOK'
  <2>1. Timed'
    BY <1>0, <1>1 DEF TypeOK, Connecting, LoggingIn, EnsureUp, Ensured, After, link
  <2> QED BY <1>1, <2>1 DEF TypeOK, EnsureUp, Ensured, After, link, world, fate
<1>2. ASSUME NEW t \in Threads, EnsureTooSoon(t) PROVE TypeOK'
  <2>1. Timed'
    BY <1>0, <1>2 DEF TypeOK, Connecting, LoggingIn, EnsureTooSoon, link
  <2> QED BY <1>2, <2>1 DEF TypeOK, EnsureTooSoon, link, world, fate
<1>3. ASSUME NEW t \in Threads, EnsureAttempt(t) PROVE TypeOK'
  <2>1. Timed' /\ elapsed' \in 0 .. ConnectTimeout + MaxBackoff
    BY <1>3 DEF EnsureAttempt
  <2> QED BY <1>3, <2>1 DEF TypeOK, EnsureAttempt, link, world, fate
<1>4. ASSUME NEW t \in Threads, ConnectSucceeds(t) PROVE TypeOK'
  <2>1. Timed'
    BY <1>0, <1>4 DEF TypeOK, Connecting, LoggingIn, ConnectSucceeds, Ensured, After
  <2>2. backoff' \in MinBackoff .. MaxBackoff
    BY <1>4 DEF ConnectSucceeds
  <2> QED BY <1>4, <2>1, <2>2 DEF TypeOK, ConnectSucceeds, Ensured, After, world, fate
<1>5. ASSUME NEW t \in Threads, ConnectFails(t) PROVE TypeOK'
  <2>1. wait' \in 0 .. MaxBackoff /\ backoff' \in MinBackoff .. MaxBackoff
    <3>1. elapsed \in Nat
      BY DEF TypeOK
    <3> QED BY <1>5, <3>1, BackoffBounded DEF TypeOK, ConnectFails
  <2>2. faults' \in 0 .. MaxFaults
    BY <1>5 DEF TypeOK, ConnectFails
  <2>3. Timed'
    BY <1>0, <1>5 DEF TypeOK, Connecting, LoggingIn, ConnectFails
  <2> QED BY <1>5, <2>1, <2>2, <2>3 DEF TypeOK, ConnectFails, fate
<1>16. ASSUME NEW t \in Threads, SocketOpens(t) PROVE TypeOK'
  <2>1. Timed'
    BY <1>0, <1>16 DEF TypeOK, Connecting, LoggingIn, SocketOpens
  <2> QED BY <1>16, <2>1 DEF TypeOK, SocketOpens, world, fate
<1>6. ASSUME NEW t \in Threads, PublishOk(t) PROVE TypeOK'
  <2>1. batch \in Nat /\ wire \in Seq(Nat) /\ Append(wire, batch) \in Seq(Nat)
    BY AppendProperties DEF TypeOK
  <2>2. wire' \in Seq(Nat) /\ lost' \subseteq Nat /\ cut' \subseteq Nat
    BY <1>6, <2>1 DEF TypeOK, PublishOk
  <2>3. batch' \in 1 .. MaxBatches + 1
    BY <1>6 DEF TypeOK, Turns, PublishOk
  <2>4. Timed'
    BY <1>0, <1>6 DEF TypeOK, Connecting, LoggingIn, PublishOk, link
  <2> QED BY <1>6, <2>2, <2>3, <2>4 DEF TypeOK, PublishOk, link, world
<1>7. ASSUME NEW t \in Threads, PublishError(t) PROVE TypeOK'
  <2>1. Timed'
    BY <1>0, <1>7 DEF TypeOK, Connecting, LoggingIn, PublishError
  <2> QED BY <1>7, <2>1 DEF TypeOK, PublishError, drop_connection_locked, world, fate
<1>8. CASE SendBatch \/ SendMetrics \/ PublishEnd \/ MetricsEnd \/ StartThreads
  <2>0. UNCHANGED elapsed /\ \A t \in Threads : pc'[t] \in {pc[t], "probe", "publish", "idle", "end"}
    BY <1>0, <1>8 DEF SendBatch, SendMetrics, PublishEnd, MetricsEnd, StartThreads, link
  <2>1. Timed'
    BY <2>0 DEF TypeOK, Connecting
  <2>2. /\ UNCHANGED <<mutex, link, batch, short, world, fate>>
        /\ mpc' \in {mpc, "run"}
        /\ pc' \in [Threads -> {"none", "idle", "probe", "probeConnect", "probeLogin", "build",
                                "publish", "publishConnect", "publishLogin", "publishing", "end"}]
    BY <1>0, <1>8 DEF SendBatch, SendMetrics, PublishEnd, MetricsEnd, StartThreads
  <2> QED BY <2>1, <2>2 DEF TypeOK, link, world, fate
<1>9. CASE BuildBatch \/ BuildFails
  <2>0. UNCHANGED elapsed /\ \A t \in Threads : pc'[t] \in {pc[t], "publish", "idle"}
    BY <1>0, <1>9 DEF BuildBatch, BuildFails, link
  <2>1. Timed'
    BY <2>0 DEF TypeOK, Connecting
  <2>2. faults' \in 0 .. MaxFaults /\ short' \in BOOLEAN
    <3>1. faults' \in 0 .. MaxFaults
      BY <1>9 DEF TypeOK, BuildBatch, BuildFails
    <3>2. short' \in BOOLEAN
      BY <1>9, Zenon DEF TypeOK, BuildBatch, BuildFails
    <3> QED BY <3>1, <3>2
  <2>3. /\ UNCHANGED <<mutex, link, mpc, batch, broker, fate>>
        /\ pc' \in [Threads -> {"none", "idle", "probe", "probeConnect", "probeLogin", "build",
                                "publish", "publishConnect", "publishLogin", "publishing", "end"}]
    BY <1>0, <1>9 DEF BuildBatch, BuildFails
  <2> QED BY <2>1, <2>2, <2>3 DEF TypeOK, link, fate
<1>10. CASE close_queue
  <2>1. received \o wire \in Seq(Nat) /\ <<>> \in Seq(Nat)
    BY ConcatProperties, EmptySeq DEF TypeOK
  <2>2. Timed'
    BY <1>10 DEF TypeOK, close_queue, Connecting
  <2> QED BY <1>10, <2>1, <2>2 DEF TypeOK, close_queue, drop_connection_locked, world
<1>11. CASE Tick
  <2>1. wait' \in 0 .. MaxBackoff /\ elapsed' \in 0 .. ConnectTimeout + MaxBackoff
    BY <1>11 DEF TypeOK, Tick, Less
  <2>2. Timed'
    BY <1>11 DEF TypeOK, Tick, Connecting
  <2> QED BY <1>11, <2>1, <2>2 DEF TypeOK, Tick, world, fate
<1>12. CASE BrokerReads
  <2>1. Head(wire) \in Nat /\ Tail(wire) \in Seq(Nat) /\ Append(received, Head(wire)) \in Seq(Nat)
    BY <1>12, HeadTailProperties, AppendProperties DEF TypeOK, BrokerReads
  <2>2. Timed'
    BY <1>12 DEF TypeOK, BrokerReads, Connecting, link
  <2> QED BY <1>12, <2>1, <2>2 DEF TypeOK, BrokerReads, link, world
<1>13. CASE LinkBreaks
  <2>1. Range(wire) \subseteq Nat
    BY LenProperties, ElementOfSeq DEF TypeOK, Range
  <2>2. lost' \subseteq Nat /\ wire' \in Seq(Nat)
    BY <1>13, <2>1, EmptySeq DEF TypeOK, LinkBreaks, LinkLost
  <2>3. faults' \in 0 .. MaxFaults
    BY <1>13 DEF TypeOK, LinkBreaks
  <2>4. Timed'
    BY <1>13 DEF TypeOK, LinkBreaks, Connecting
  <2>5. conn' \in {"null", "live", "dead", "silent"}
    BY <1>13 DEF TypeOK, LinkBreaks
  <2> QED BY <1>13, <2>2, <2>3, <2>4, <2>5 DEF TypeOK, LinkBreaks
<1>14. CASE BrokerUp
  BY <1>14 DEF TypeOK, BrokerUp, Connecting, link, fate
<1>15. CASE Closed \/ UNCHANGED vars
  BY <1>15 DEF TypeOK, Closed, Connecting, vars, link, world, fate
<1> QED
  BY <1>1, <1>2, <1>3, <1>4, <1>5, <1>6, <1>7, <1>8, <1>9, <1>10, <1>11, <1>12, <1>13, <1>14,
     <1>15, <1>16
  DEF Next, Locks, Holds

\* Only the thread whose turn it is ends it, and a turn starts with a free mutex.
LEMMA TurnsStep ==
  ASSUME TypeOK, Turns, [Next]_vars
  PROVE  Turns'
<1> USE ThreeThreads DEF Turns, Holding
<1>0. pc \in [Threads -> {"none", "idle", "probe", "probeConnect", "probeLogin", "build", "publish",
                         "publishConnect", "publishLogin", "publishing", "end"}]
      /\ batch \in Nat
  BY DEF TypeOK
<1>1. ASSUME NEW t \in Threads, Locks(t) PROVE Turns'
  BY <1>0, <1>1 DEF Locks, EnsureUp, EnsureTooSoon, EnsureAttempt, Ensured, After
<1>2. ASSUME NEW t \in Threads, SocketOpens(t) \/ ConnectSucceeds(t) \/ ConnectFails(t) PROVE Turns'
  BY <1>0, <1>2 DEF SocketOpens, ConnectSucceeds, ConnectFails, Connecting, LoggingIn, Ensured, After
<1>3. ASSUME NEW t \in Threads, PublishOk(t) \/ PublishError(t) PROVE Turns'
  BY <1>0, <1>3 DEF PublishOk, PublishError
<1>4. CASE SendBatch \/ BuildBatch \/ BuildFails \/ SendMetrics
  BY <1>0, <1>4 DEF SendBatch, BuildBatch, BuildFails, SendMetrics, Threads
<1>5. CASE StartThreads \/ PublishEnd \/ MetricsEnd \/ close_queue
  BY <1>0, <1>5 DEF StartThreads, PublishEnd, MetricsEnd, close_queue, Threads
<1>6. CASE Tick \/ BrokerReads \/ LinkBreaks \/ BrokerUp
  BY <1>6 DEF Tick, BrokerReads, LinkBreaks, BrokerUp
<1>7. CASE Closed \/ UNCHANGED vars
  BY <1>7 DEF Closed, vars
<1> QED BY <1>1, <1>2, <1>3, <1>4, <1>5, <1>6, <1>7 DEF Next, Holds

\* No other thread can drop the connection of the one that publishes.
LEMMA LinkedStep ==
  ASSUME TypeOK, Turns, Linked, [Next]_vars
  PROVE  Linked'
<1> USE ThreeThreads DEF Linked, Turns, Holding, LoggingIn, Connecting
<1>0. pc \in [Threads -> {"none", "idle", "probe", "probeConnect", "probeLogin", "build", "publish",
                         "publishConnect", "publishLogin", "publishing", "end"}]
  BY DEF TypeOK
<1>1. ASSUME NEW t \in Threads, Locks(t) PROVE Linked'
  BY <1>0, <1>1 DEF Locks, EnsureUp, EnsureTooSoon, EnsureAttempt, Ensured, After, link
<1>2. ASSUME NEW t \in Threads, SocketOpens(t) \/ ConnectSucceeds(t) \/ ConnectFails(t) PROVE Linked'
  BY <1>0, <1>2 DEF SocketOpens, ConnectSucceeds, ConnectFails, Ensured, After
<1>3. ASSUME NEW t \in Threads, PublishOk(t) \/ PublishError(t) PROVE Linked'
  BY <1>0, <1>3 DEF PublishOk, PublishError, drop_connection_locked, link
<1>4. CASE SendBatch \/ BuildBatch \/ BuildFails \/ SendMetrics
  BY <1>0, <1>4 DEF SendBatch, BuildBatch, BuildFails, SendMetrics, link
<1>5. CASE StartThreads \/ PublishEnd \/ MetricsEnd \/ close_queue
  BY <1>0, <1>5 DEF StartThreads, PublishEnd, MetricsEnd, close_queue, drop_connection_locked, link
<1>6. CASE Tick \/ BrokerReads \/ LinkBreaks \/ BrokerUp
  BY <1>6 DEF Tick, BrokerReads, LinkBreaks, BrokerUp, link
<1>7. CASE Closed \/ UNCHANGED vars
  BY <1>7 DEF Closed, vars, link
<1> QED BY <1>1, <1>2, <1>3, <1>4, <1>5, <1>6, <1>7 DEF Next, Holds

(***************************************************************************)
(* The fate of a batch.                                                    *)
(***************************************************************************)
Line == received \o wire
Increasing(line) == \A i, j \in 1 .. Len(line) : i < j => line[i] < line[j]

\* The range of a sequence, by its places.
LEMMA RangeByPlace ==
  ASSUME NEW s \in Seq(Nat)
  PROVE  \A n : n \in Range(s) <=> \E i \in 1 .. Len(s) : s[i] = n
<1>1. DOMAIN s = 1 .. Len(s)
  BY LenProperties
<1> QED BY <1>1 DEF Range

\* A batch newer than all those in an increasing line goes to its end.
LEMMA LineAppend ==
  ASSUME NEW s \in Seq(Nat), NEW b \in Nat, Increasing(s), \A n \in Range(s) : n < b
  PROVE  Increasing(Append(s, b)) /\ Range(Append(s, b)) = Range(s) \cup {b}
<1> DEFINE t == Append(s, b)
<1>1. /\ t \in Seq(Nat) /\ Len(t) = Len(s) + 1 /\ Len(s) \in Nat
      /\ \A i \in 1 .. Len(s) : t[i] = s[i]
      /\ t[Len(s) + 1] = b
  BY AppendProperties, LenProperties
<1> HIDE DEF t
<1>2. \A n : n \in Range(s) <=> \E i \in 1 .. Len(s) : s[i] = n
  BY RangeByPlace
<1>5. \A i \in 1 .. Len(s) : s[i] < b
  BY <1>2
<1>3. Increasing(t)
  <2> SUFFICES ASSUME NEW i \in 1 .. Len(t), NEW j \in 1 .. Len(t), i < j
               PROVE  t[i] < t[j]
    BY DEF Increasing
  <2>1. i \in 1 .. Len(s) /\ (j \in 1 .. Len(s) \/ j = Len(s) + 1)
    BY <1>1
  <2> QED BY <1>1, <1>5, <2>1 DEF Increasing
<1>4. Range(t) = Range(s) \cup {b}
  <2>1. \A n : n \in Range(t) <=> \E i \in 1 .. Len(t) : t[i] = n
    BY <1>1, RangeByPlace
  <2>2. \A i : i \in 1 .. Len(t) <=> i \in 1 .. Len(s) \/ i = Len(s) + 1
    BY <1>1
  <2>3. Range(t) \subseteq Range(s) \cup {b}
    BY <1>1, <1>2, <2>1, <2>2
  <2>4. Range(s) \cup {b} \subseteq Range(t)
    BY <1>1, <1>2, <2>1, <2>2
  <2> QED BY <2>3, <2>4
<1> QED BY <1>3, <1>4 DEF t

\* The two parts of an increasing line are increasing, have nothing in common
\* and make up the line.
LEMMA LineSplit ==
  ASSUME NEW r \in Seq(Nat), NEW w \in Seq(Nat), Increasing(r \o w)
  PROVE  /\ Increasing(r)
         /\ Range(r \o w) = Range(r) \cup Range(w)
         /\ Range(r) \cap Range(w) = {}
<1> DEFINE s == r \o w
<1>1. /\ s \in Seq(Nat) /\ Len(s) = Len(r) + Len(w) /\ Len(r) \in Nat /\ Len(w) \in Nat
      /\ \A i \in 1 .. Len(r) + Len(w) : s[i] = IF i <= Len(r) THEN r[i] ELSE w[i - Len(r)]
  BY ConcatProperties, LenProperties
<1>2. Increasing(s)
  OBVIOUS
<1> HIDE DEF s
<1>3. \A i \in 1 .. Len(r) : i \in 1 .. Len(s) /\ s[i] = r[i]
  BY <1>1
<1>4. \A j \in 1 .. Len(w) : Len(r) + j \in 1 .. Len(s) /\ s[Len(r) + j] = w[j]
  <2> SUFFICES ASSUME NEW j \in 1 .. Len(w)
               PROVE  Len(r) + j \in 1 .. Len(s) /\ s[Len(r) + j] = w[j]
    OBVIOUS
  <2>1. Len(r) + j \in 1 .. Len(r) + Len(w) /\ ~(Len(r) + j <= Len(r)) /\ (Len(r) + j) - Len(r) = j
    BY <1>1
  <2> QED BY <1>1, <2>1
<1>5. \A i \in 1 .. Len(s) : i \in 1 .. Len(r) \/ \E j \in 1 .. Len(w) : i = Len(r) + j
  <2> SUFFICES ASSUME NEW i \in 1 .. Len(s), i > Len(r)
               PROVE  \E j \in 1 .. Len(w) : i = Len(r) + j
    BY <1>1
  <2>1. i - Len(r) \in 1 .. Len(w) /\ i = Len(r) + (i - Len(r))
    BY <1>1
  <2> QED BY <2>1
<1>6. Increasing(r)
  BY <1>1, <1>2, <1>3 DEF Increasing
<1>9. /\ \A n : n \in Range(s) <=> \E i \in 1 .. Len(s) : s[i] = n
      /\ \A n : n \in Range(r) <=> \E i \in 1 .. Len(r) : r[i] = n
      /\ \A n : n \in Range(w) <=> \E i \in 1 .. Len(w) : w[i] = n
  BY <1>1, RangeByPlace
<1>10. \A i \in 1 .. Len(s) : s[i] \in Nat
  BY <1>1, ElementOfSeq
<1>7. Range(s) = Range(r) \cup Range(w)
  <2>1. Range(s) \subseteq Range(r) \cup Range(w)
    <3> SUFFICES ASSUME NEW i \in 1 .. Len(s) PROVE s[i] \in Range(r) \cup Range(w)
      BY <1>9
    <3>1. CASE i \in 1 .. Len(r)
      BY <1>3, <1>9, <3>1
    <3>2. ASSUME NEW j \in 1 .. Len(w), i = Len(r) + j PROVE s[i] \in Range(w)
      BY <1>4, <1>9, <3>2
    <3> QED BY <1>5, <3>1, <3>2
  <2>2. Range(r) \subseteq Range(s)
    BY <1>3, <1>9
  <2>3. Range(w) \subseteq Range(s)
    BY <1>4, <1>9
  <2> QED BY <2>1, <2>2, <2>3
<1>8. Range(r) \cap Range(w) = {}
  <2> SUFFICES ASSUME NEW i \in 1 .. Len(r), NEW j \in 1 .. Len(w), r[i] = w[j]
               PROVE  FALSE
    BY <1>9
  <2>1. s[i] < s[Len(r) + j]
    BY <1>1, <1>2, <1>3, <1>4 DEF Increasing
  <2> QED BY <1>3, <1>4, <1>10, <2>1
<1> QED BY <1>6, <1>7, <1>8 DEF s

\* A sequence is its head and its tail.
LEMMA HeadAndTail ==
  ASSUME NEW s \in Seq(Nat), s # <<>>
  PROVE  /\ Head(s) \in Nat /\ <<Head(s)>> \in Seq(Nat) /\ Tail(s) \in Seq(Nat)
         /\ s = <<Head(s)>> \o Tail(s)
<1> DEFINE h == <<Head(s)>>
           t == Tail(s)
<1>1. Head(s) = s[1] /\ Head(s) \in Nat /\ Len(s) \in Nat \ {0}
  BY HeadTailProperties, EmptySeq
<1>2. /\ t \in Seq(Nat) /\ Len(t) = Len(s) - 1
      /\ \A i \in 1 .. Len(t) : t[i] = s[i + 1]
  BY HeadTailProperties
<1>3. h \in Seq(Nat) /\ Len(h) = 1 /\ h[1] = s[1]
  BY <1>1
<1>4. h \in Seq(Nat) /\ t \in Seq(Nat)
  BY <1>2, <1>3
<1> HIDE DEF h, t
<1>5. /\ h \o t \in Seq(Nat) /\ Len(h \o t) = Len(h) + Len(t)
      /\ \A i \in 1 .. Len(h) + Len(t) : (h \o t)[i] = IF i <= Len(h) THEN h[i] ELSE t[i - Len(h)]
  BY <1>4, ConcatProperties
<1>6. ASSUME NEW i \in 1 .. Len(s) PROVE (h \o t)[i] = s[i]
  <2>0. Len(h) + Len(t) = Len(s)
    BY <1>1, <1>2, <1>3
  <2>1. CASE i = 1
    BY <2>0, <2>1, <1>1, <1>3, <1>5
  <2>2. CASE i # 1
    <3>1. i - 1 \in 1 .. Len(t) /\ (i - 1) + 1 = i
      BY <2>2, <1>1, <1>2
    <3>2. (h \o t)[i] = t[i - 1]
      <4>1. i \in 1 .. Len(h) + Len(t) /\ ~(i <= Len(h)) /\ i - Len(h) = i - 1
        BY <2>0, <2>2, <1>1, <1>3
      <4> QED BY <4>1, <1>5
    <3>3. t[i - 1] = s[i]
      BY <3>1, <1>2
    <3> QED BY <3>2, <3>3
  <2> QED BY <2>1, <2>2
<1>7. h \o t = s
  <2>1. h \o t \in Seq(Nat) /\ s \in Seq(Nat) /\ Len(h \o t) = Len(s)
    BY <1>1, <1>2, <1>3, <1>5
  <2> QED BY <1>6, <2>1, SeqEqual
<1> QED BY <1>1, <1>2, <1>3, <1>7 DEF h, t

\* Where a line is cut does not matter.
LEMMA Regroup ==
  ASSUME NEW a \in Seq(Nat), NEW b \in Seq(Nat), NEW c \in Seq(Nat)
  PROVE  (a \o b) \o c = a \o (b \o c)
BY ConcatAssociative

\* The broker takes the oldest batch from the wire: the line is the same.
LEMMA LineMoves ==
  ASSUME NEW r \in Seq(Nat), NEW w \in Seq(Nat)
  PROVE  /\ w # <<>> => Append(r, Head(w)) \o Tail(w) = r \o w
         /\ \A b \in Nat : r \o Append(w, b) = Append(r \o w, b)
<1>1. ASSUME NEW b \in Nat PROVE r \o Append(w, b) = Append(r \o w, b)
  <2> DEFINE t == <<b>>
  <2>1. r \in Seq(Nat) /\ w \in Seq(Nat) /\ t \in Seq(Nat) /\ r \o w \in Seq(Nat)
    BY ConcatProperties
  <2>2. Append(w, b) = w \o t /\ Append(r \o w, b) = (r \o w) \o t
    BY <2>1, AppendIsConcat
  <2> HIDE DEF t
  <2>3. (r \o w) \o t = r \o (w \o t)
    BY <2>1, Regroup, Zenon
  <2> QED BY <2>2, <2>3
<1>2. ASSUME w # <<>> PROVE Append(r, Head(w)) \o Tail(w) = r \o w
  <2> DEFINE h == <<Head(w)>>
             t == Tail(w)
  <2>1. r \in Seq(Nat) /\ Head(w) \in Nat /\ t \in Seq(Nat) /\ h \in Seq(Nat)
    BY <1>2, HeadTailProperties
  <2>2. Append(r, Head(w)) = r \o h
    BY <2>1, AppendIsConcat
  <2>3. w = h \o t
    BY <1>2, HeadAndTail
  <2> HIDE DEF h, t
  <2>4. (r \o h) \o t = r \o (h \o t)
    BY <2>1, Regroup, Zenon
  <2> QED BY <2>2, <2>3, <2>4 DEF t
<1> QED BY <1>1, <1>2

\* A batch goes to the end of the line or is lost when it is counted as sent; a
\* broken link takes the end of the line with it; nothing else tells them apart.
LEMMA SentStep ==
  ASSUME TypeOK, SentOnce, [Next]_vars
  PROVE  SentOnce'
<1>0. /\ wire \in Seq(Nat) /\ received \in Seq(Nat) /\ batch \in Nat /\ batch >= 1
      /\ Line \in Seq(Nat)
  BY BoundsAssumption, ConcatProperties DEF TypeOK, Line
<1>1. /\ 1 .. batch - 1 = Range(Line) \cup lost /\ Range(Line) \cap lost = {}
      /\ Increasing(Line)
  BY DEF SentOnce, Line, Increasing
<1>c. cut' \subseteq 1 .. batch' - 1
  <2>1. cut \subseteq 1 .. batch - 1
    BY DEF SentOnce
  <2>2. ASSUME NEW t \in Threads, PublishOk(t) PROVE cut' \subseteq 1 .. batch' - 1
    <3>1. CASE UNCHANGED <<batch, cut>>
      BY <2>1, <3>1
    <3>2. CASE batch' = batch + 1 /\ cut' \subseteq cut \cup {batch}
      <4>1. \A n \in 1 .. batch - 1 : n \in 1 .. batch' - 1
        BY <1>0, <3>2
      <4>2. batch \in 1 .. batch' - 1
        BY <1>0, <3>2
      <4> QED BY <2>1, <3>2, <4>1, <4>2
    <3> QED BY <2>2, <3>1, <3>2 DEF PublishOk
  <2>3. ASSUME NEW t \in Threads, Locks(t) \/ Holds(t), ~PublishOk(t) PROVE UNCHANGED <<batch, cut>>
    BY <2>3 DEF Locks, EnsureUp, EnsureTooSoon, EnsureAttempt, Holds, SocketOpens, ConnectSucceeds,
                ConnectFails, PublishError, fate
  <2>4. CASE \/ SendBatch \/ BuildBatch \/ BuildFails \/ SendMetrics \/ StartThreads \/ PublishEnd
             \/ MetricsEnd \/ close_queue \/ Tick \/ BrokerReads \/ LinkBreaks \/ BrokerUp \/ Closed
             \/ UNCHANGED vars
    <3>1. UNCHANGED <<batch, cut>>
      BY <2>4 DEF SendBatch, BuildBatch, BuildFails, SendMetrics, StartThreads, PublishEnd,
                  MetricsEnd, close_queue, Tick, BrokerReads, LinkBreaks, BrokerUp, Closed, vars, fate
    <3> QED BY <2>1, <3>1
  <2> QED BY <2>1, <2>2, <2>3, <2>4 DEF Next
<1>2. SUFFICES /\ 1 .. batch' - 1 = Range(Line') \cup lost' /\ Range(Line') \cap lost' = {}
               /\ Increasing(Line')
  BY <1>c DEF SentOnce, Line, Increasing
<1>3. ASSUME UNCHANGED <<batch, lost, Line>>
      PROVE  /\ 1 .. batch' - 1 = Range(Line') \cup lost' /\ Range(Line') \cap lost' = {}
             /\ Increasing(Line')
  BY <1>1, <1>3
<1>4. ASSUME PublishOk("publish")
      PROVE  /\ 1 .. batch' - 1 = Range(Line') \cup lost' /\ Range(Line') \cap lost' = {}
             /\ Increasing(Line')
  <2>1. 1 .. batch' - 1 = (1 .. batch - 1) \cup {batch} /\ received' = received
    BY <1>0, <1>4 DEF PublishOk
  <2>2. \A n \in 1 .. batch - 1 : n < batch
    BY <1>0
  <2>3. CASE conn = "live"
    <3>1. Line' = Append(Line, batch) /\ lost' = lost
      BY <1>0, <1>4, <2>3, LineMoves DEF PublishOk, Line
    <3>2. \A n \in Range(Line) : n < batch
      BY <1>1, <2>2
    <3>3. Increasing(Append(Line, batch)) /\ Range(Append(Line, batch)) = Range(Line) \cup {batch}
      BY <1>0, <1>1, <3>2, LineAppend
    <3>4. batch \notin lost
      BY <1>0, <1>1, <2>2
    <3> QED BY <1>1, <2>1, <3>1, <3>3, <3>4
  <2>4. CASE conn # "live"
    <3>1. Line' = Line /\ lost' = lost \cup {batch}
      BY <1>4, <2>4 DEF PublishOk, Line
    <3>2. batch \notin Range(Line)
      BY <1>0, <1>1, <2>2
    <3> QED BY <1>1, <2>1, <3>1, <3>2
  <2> QED BY <2>3, <2>4
<1>5. CASE LinkBreaks
  <2>1. Line' = received /\ lost' = lost \cup Range(wire) /\ batch' = batch
    BY <1>0, <1>5, ConcatEmptySeq DEF LinkBreaks, LinkLost, Line
  <2>2. /\ Increasing(received) /\ Range(Line) = Range(received) \cup Range(wire)
        /\ Range(received) \cap Range(wire) = {}
    BY <1>0, <1>1, LineSplit DEF Line
  <2> QED BY <1>1, <2>1, <2>2
<1>6. CASE BrokerReads
  <2>1. UNCHANGED <<batch, lost, Line>>
    BY <1>0, <1>6, LineMoves DEF BrokerReads, Line
  <2> QED BY <1>3, <2>1
<1>7. CASE close_queue
  <2>1. UNCHANGED <<batch, lost, Line>>
    BY <1>0, <1>7, ConcatEmptySeq DEF close_queue, Line
  <2> QED BY <1>3, <2>1
<1>8. ASSUME NEW t \in Threads, Locks(t) \/ Holds(t), ~PublishOk("publish")
      PROVE  UNCHANGED <<batch, lost, wire, received>>
  BY <1>8 DEF Locks, EnsureUp, EnsureTooSoon, EnsureAttempt, Holds, SocketOpens, ConnectSucceeds,
              ConnectFails, PublishOk, PublishError, fate
<1>9. CASE SendBatch \/ BuildBatch \/ BuildFails \/ SendMetrics \/ StartThreads \/ PublishEnd
           \/ MetricsEnd \/ Tick \/ BrokerUp \/ Closed \/ UNCHANGED vars
  <2>1. UNCHANGED <<batch, lost, wire, received>>
    BY <1>9 DEF SendBatch, BuildBatch, BuildFails, SendMetrics, StartThreads, PublishEnd,
                MetricsEnd, Tick, BrokerUp, Closed, vars, fate
  <2> QED BY <1>3, <2>1 DEF Line
<1> QED BY <1>3, <1>4, <1>5, <1>6, <1>7, <1>8, <1>9 DEF Next, Line

(***************************************************************************)
(* The lossy line.                                                         *)
(***************************************************************************)
\* What the broker has is an increasing part of the batches reported as sent.
LEMMA DeliveredInOrder ==
  ASSUME IInv
  PROVE  Lossy!InOrderUpTo(received, batch - 1)
<1>1. received \in Seq(Nat) /\ wire \in Seq(Nat)
  BY DEF IInv, TypeOK
<1>2. Increasing(Line) /\ Range(Line) \subseteq 1 .. batch - 1
  BY DEF IInv, SentOnce, Line, Increasing
<1>3. Increasing(received) /\ Range(received) \subseteq 1 .. batch - 1
  BY <1>1, <1>2, LineSplit DEF Line
<1>4. \A i \in 1 .. Len(received) : received[i] \in Range(received)
  BY <1>1, RangeByPlace
<1> QED BY <1>3, <1>4 DEF Lossy!InOrderUpTo, Increasing

\* At the start nothing has been reported as sent and nothing received.
LEMMA InitLossy == Init => Lossy!LInit
BY DEF Init, Lossy!LInit

\* A batch is offered when publish_to returns 0 for it and delivered when the broker
\* reads it, at the latest in close_queue; a broken link delivers nothing.
LEMMA NextLossy == IInv /\ IInv' /\ [Next]_vars => [Lossy!LNext]_(Lossy!lvars)
<1> SUFFICES ASSUME IInv, IInv', [Next]_vars
             PROVE  Lossy!LNext \/ UNCHANGED Lossy!lvars
  OBVIOUS
<1> USE DEF Lossy!lvars
<1>0. batch \in Nat /\ received \in Seq(Nat) /\ wire \in Seq(Nat)
  BY BoundsAssumption DEF IInv, TypeOK
<1>1. CASE PublishOk("publish")
  <2>1. batch' - 1 = (batch - 1) + 1 /\ received' = received
    BY <1>0, <1>1 DEF PublishOk
  <2> QED BY <2>1 DEF Lossy!LNext, Lossy!Offer
<1>2. ASSUME UNCHANGED batch, NEW w \in Seq(Nat), w # <<>>, received' = received \o w
      PROVE  Lossy!LNext
  <2>1. Len(received) \in Nat /\ Len(w) \in Nat \ {0}
    BY <1>0, <1>2, EmptySeq, LenProperties
  <2>2. /\ Len(received') = Len(received) + Len(w)
        /\ \A i \in 1 .. Len(received) : received'[i] = received[i]
    BY <1>0, <1>2, <2>1, ConcatProperties
  <2>3. Lossy!InOrderUpTo(received, batch - 1)'
    BY DeliveredInOrder, PTL
  <2>4. Lossy!InOrderUpTo(received', batch - 1)
    BY <1>2, <2>3 DEF Lossy!InOrderUpTo
  <2> QED BY <1>2, <2>1, <2>2, <2>4 DEF Lossy!LNext, Lossy!Deliver
<1>3. CASE BrokerReads
  <2>1. Head(wire) \in Nat /\ <<Head(wire)>> \in Seq(Nat) /\ <<Head(wire)>> # <<>>
    BY <1>0, <1>3, HeadAndTail DEF BrokerReads
  <2>2. received' = received \o <<Head(wire)>> /\ UNCHANGED batch
    BY <1>0, <1>3, <2>1, AppendIsConcat DEF BrokerReads
  <2> QED BY <1>2, <2>1, <2>2
<1>4. CASE close_queue
  <2>1. received' = received \o wire /\ UNCHANGED batch
    BY <1>4 DEF close_queue
  <2>2. CASE wire = <<>>
    BY <1>0, <2>1, <2>2, ConcatEmptySeq
  <2> QED BY <1>0, <1>2, <2>1, <2>2
<1>5. ASSUME NEW t \in Threads, Locks(t) \/ Holds(t), ~PublishOk("publish")
      PROVE  UNCHANGED <<batch, received>>
  BY <1>5 DEF Locks, EnsureUp, EnsureTooSoon, EnsureAttempt, Holds, SocketOpens, ConnectSucceeds,
              ConnectFails, PublishOk, PublishError, fate
<1>6. CASE SendBatch \/ BuildBatch \/ BuildFails \/ SendMetrics \/ StartThreads \/ PublishEnd
           \/ MetricsEnd \/ Tick \/ LinkBreaks \/ BrokerUp \/ Closed \/ UNCHANGED vars
  BY <1>6 DEF SendBatch, BuildBatch, BuildFails, SendMetrics, StartThreads, PublishEnd,
              MetricsEnd, Tick, LinkBreaks, BrokerUp, Closed, vars, fate
<1> QED BY <1>1, <1>3, <1>4, <1>5, <1>6 DEF Next

(***************************************************************************)
(* The theorems.                                                           *)
(***************************************************************************)
\* The four parts of IInv hold together from the start on.
THEOREM PublisherInvariant == Spec => []IInv
<1>1. Init => IInv
  BY InitSound
<1>2. IInv /\ [Next]_vars => IInv'
  BY TypeStep, TurnsStep, LinkedStep, SentStep DEF IInv
<1> QED BY <1>1, <1>2, PTL DEF Spec

\* Values every variable keeps to; the wait and the backoff never exceed
\* RECONNECT_MAX_MS, however many attempts fail.
THEOREM TypeCorrect == Spec => []TypeOK
<1>1. IInv => TypeOK
  BY DEF IInv
<1> QED BY <1>1, PublisherInvariant, PTL

\* Under amqp_mutex g_connected tells the truth of conn, and the thread that
\* publishes holds the mutex and has a connection.
THEOREM FlagHonest == Spec => []FlagTellsConnection
<1>1. ASSUME IInv PROVE FlagTellsConnection
  <2>1. ASSUME mutex = "none", NEW t \in Threads PROVE ~LoggingIn(t)
    <3>1. mutex # t
      BY <2>1, ThreeThreads
    <3> QED BY <1>1, <2>1, <3>1 DEF IInv, Turns, Holding, LoggingIn
  <2>2. mutex = "none" => (connected <=> conn # "null")
    BY <1>1, <2>1 DEF IInv, Linked
  <2>3. \A t \in Threads : pc[t] = "publishing" => mutex = t /\ conn # "null"
    BY <1>1 DEF IInv, Turns, Linked, Holding
  <2> QED BY <2>2, <2>3 DEF FlagTellsConnection
<1> QED BY <1>1, PublisherInvariant, PTL

\* Every batch that publisher_send_batch reported as sent is received, on its
\* way, or lost with its link; the broker gets the others in order, none twice.
THEOREM BatchesSentOnce == Spec => []SentOnce
<1>1. IInv => SentOnce
  BY DEF IInv
<1> QED BY <1>1, PublisherInvariant, PTL

\* From publisher_send_batch to the broker is a lossy line: reconnections and
\* repeated sends deliver nothing twice, late or out of order.
THEOREM Refinement == Spec => ImplementsLossyLine
BY InitLossy, NextLossy, PublisherInvariant, PTL DEF Spec, ImplementsLossyLine, Lossy!LSpec
=============================================================================

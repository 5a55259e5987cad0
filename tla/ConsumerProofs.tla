--------------------------- MODULE ConsumerProofs ---------------------------
(***************************************************************************)
(* Every message of an agent is in one place or has one fate, for every    *)
(* number of threads, messages, events, broken links and crashes.          *)
(*                                                                         *)
(* The proof looks at the places of messages as holders: each queue, each  *)
(* inbox, each handler and each fate holds a set of messages.  A step      *)
(* moves a message from one holder to another, adds a new one, or pours    *)
(* holders out into lost.                                                  *)
(***************************************************************************)
EXTENDS Consumer, SequenceTheorems, FiniteSetTheorems, TLAPS

Holders ==
  {<<"queue", q>> : q \in Queues} \cup {<<"inbox", c>> : c \in Consumers}
  \cup {<<"hand", c>> : c \in Consumers} \cup {<<"fate", f>> : f \in 1 .. 4}

HandOf(c) == IF pc[c] = "handle" THEN {hand[c]} ELSE {}
FateOf(f) == <<done, discarded, lost, unroutable>>[f]

Held ==
  [h \in Holders |-> IF h[1] = "queue" THEN Range(queue[h[2]])
                     ELSE IF h[1] = "inbox" THEN Range(inbox[h[2]])
                     ELSE IF h[1] = "hand" THEN HandOf(h[2])
                     ELSE FateOf(h[2])]

\* No two holders hold the same message.
Apart(held) == \A h, k \in Holders : h # k => held[h] \cap held[k] = {}

\* All the messages there are.
Known(held) == {m \in Messages : \E h \in Holders : m \in held[h]}

Distinct(seq) == \A i, j \in 1 .. Len(seq) : seq[i] = seq[j] => i = j

(***************************************************************************)
(* The inductive invariant.                                                *)
(***************************************************************************)
Types ==
  /\ queue \in [Queues -> Seq(Messages)] /\ declared \in SUBSET Queues
  /\ conn \in [Consumers -> Conns]
  /\ pc \in [Consumers -> Places] /\ rc \in [Consumers -> {0, 1}]
  /\ canNarrate \in [Consumers -> BOOLEAN] /\ inbox \in [Consumers -> Seq(Messages)]
  /\ hand \in [Consumers -> Messages \cup {NoMessage}] /\ at \in [Consumers -> 0 .. Events]
  /\ stop \in BOOLEAN /\ wstop \in [Consumers -> BOOLEAN] /\ broker \in {"up", "down"}
  /\ faults \in 0 .. MaxFaults /\ sent \in 0 .. MaxMessages
  /\ done \in SUBSET Messages /\ discarded \in SUBSET Messages
  /\ lost \in SUBSET Messages /\ unroutable \in SUBSET Messages

\* The gauge counts the connections that were opened and not closed.
Linked == {c \in Consumers : conn[c] # "none"}
Gauged ==
  /\ \A c \in Consumers : conn[c] = "none" <=> pc[c] \in {"start", "open", "login", "ended"}
  /\ gauge = Cardinality(Linked)

\* A handler has a message; only the narrator's may be an event.
Handed ==
  /\ \A q \in Queues : q # "narrator" => \A m \in Range(queue[q]) : m[2] = 0
  /\ \A c \in Consumers :
       /\ Role[c] # "narrator" => \A m \in Range(inbox[c]) : m[2] = 0
       /\ pc[c] = "handle" => hand[c] \in Messages
       /\ pc[c] = "handle" /\ Role[c] # "narrator" => hand[c][2] = 0

\* A message whose events are gone through is written, and one worker does it.
Republishes(c) == pc[c] = "republish"
Sharing ==
  /\ \A c \in Consumers : Republishes(c) =>
       hand[c] \in done /\ hand[c][2] = 0 /\ at[c] \in 1 .. Events
  /\ \A c, d \in Consumers : Republishes(c) /\ Republishes(d) /\ hand[c] = hand[d] => c = d

\* Sequences do not repeat themselves, holders do not share.
OnePlace ==
  /\ \A q \in Queues : Distinct(queue[q])
  /\ \A c \in Consumers : Distinct(inbox[c])
  /\ Apart(Held)

\* The messages there are: what the agents sent, and of those that are written the
\* events up to the one that is next.
Accounted ==
  \A m \in Messages :
    /\ m[2] = 0 => (m \in Known(Held) <=> m[1] <= sent)
    /\ m[2] > 0 /\ m \in Known(Held) =>
         /\ <<m[1], 0>> \in done
         /\ \A c \in Consumers : Republishes(c) /\ hand[c] = <<m[1], 0>> => at[c] > m[2]

IInv == Types /\ Gauged /\ Handed /\ Sharing /\ OnePlace /\ Accounted
-----------------------------------------------------------------------------
(***************************************************************************)
(* Sequences without repetitions.                                          *)
(***************************************************************************)
\* What is left of a queue when its first message is taken.
LEMMA TailOfQueue ==
  ASSUME NEW S, NEW seq \in Seq(S), seq # <<>>
  PROVE  /\ Head(seq) \in S /\ Tail(seq) \in Seq(S)
         /\ Head(seq) \in Range(seq)
         /\ Range(Tail(seq)) \subseteq Range(seq)
         /\ Distinct(seq) => /\ Distinct(Tail(seq))
                             /\ Range(Tail(seq)) = Range(seq) \ {Head(seq)}
<1> DEFINE t == Tail(seq)  n == Len(seq)
<1>1. n \in Nat /\ n > 0 /\ DOMAIN seq = 1 .. n
  BY EmptySeq, LenProperties
<1>2. t \in Seq(S) /\ Len(t) = n - 1 /\ \A i \in 1 .. n - 1 : t[i] = seq[i + 1]
  BY HeadTailProperties
<1>3. DOMAIN t = 1 .. n - 1
  BY <1>2, LenProperties
<1>4. Head(seq) = seq[1] /\ seq[1] \in S
  BY <1>1, HeadTailProperties, ElementOfSeq
<1> HIDE DEF t, n
<1>5. seq[1] \in Range(seq) /\ Range(t) \subseteq Range(seq)
  <2>1. 1 \in 1 .. n /\ \A i \in 1 .. n - 1 : i + 1 \in 1 .. n
    BY <1>1
  <2> QED  BY <2>1, <1>1, <1>2, <1>3 DEF Range
<1>6. ASSUME Distinct(seq)  PROVE  Distinct(t) /\ Range(t) = Range(seq) \ {seq[1]}
  <2>1. \A i, j \in 1 .. n : seq[i] = seq[j] => i = j
    BY <1>6 DEF Distinct, n
  <2>2. \A i, j \in 1 .. n - 1 : t[i] = t[j] => i = j
    BY <2>1, <1>1, <1>2
  <2>3. Distinct(t)
    BY <2>2, <1>2 DEF Distinct
  <2>4. seq[1] \notin Range(t)
    BY <2>1, <1>1, <1>2, <1>3 DEF Range
  <2>5. ASSUME NEW x \in Range(seq), x # seq[1]  PROVE  x \in Range(t)
    <3>1. PICK i \in 1 .. n : x = seq[i]
      BY <2>5, <1>1 DEF Range
    <3>2. i # 1 /\ i - 1 \in 1 .. n - 1 /\ (i - 1) + 1 = i
      BY <3>1, <2>5, <1>1
    <3>3. t[i - 1] = x
      BY <3>1, <3>2, <1>2
    <3> QED  BY <3>2, <3>3, <1>3 DEF Range
  <2> QED  BY <2>3, <2>4, <2>5, <1>5
<1> QED  BY <1>2, <1>4, <1>5, <1>6 DEF t

\* A queue with one more message.
LEMMA QueueAppended ==
  ASSUME NEW S, NEW seq \in Seq(S), NEW m \in S
  PROVE  /\ Append(seq, m) \in Seq(S)
         /\ Range(Append(seq, m)) = Range(seq) \cup {m}
         /\ Distinct(seq) /\ m \notin Range(seq) => Distinct(Append(seq, m))
<1> DEFINE u == Append(seq, m)  n == Len(seq)
<1>1. n \in Nat /\ DOMAIN seq = 1 .. n
  BY LenProperties
<1>2. u \in Seq(S) /\ Len(u) = n + 1 /\ u[n + 1] = m /\ \A i \in 1 .. n : u[i] = seq[i]
  BY AppendProperties
<1>3. DOMAIN u = 1 .. n + 1
  BY <1>2, LenProperties
<1> HIDE DEF u, n
<1>4. Range(u) = Range(seq) \cup {m}
  <2>1. 1 .. n + 1 = (1 .. n) \cup {n + 1}
    BY <1>1
  <2> QED  BY <2>1, <1>1, <1>2, <1>3 DEF Range
<1>5. ASSUME Distinct(seq), m \notin Range(seq)  PROVE  Distinct(u)
  <2>1. \A i, j \in 1 .. n : seq[i] = seq[j] => i = j
    BY <1>5 DEF Distinct, n
  <2>2. \A i \in 1 .. n : seq[i] # m
    BY <1>5, <1>1 DEF Range
  <2>3. \A i, j \in 1 .. n + 1 : u[i] = u[j] => i = j
    BY <2>1, <2>2, <1>1, <1>2
  <2> QED  BY <2>3, <1>2 DEF Distinct
<1> QED  BY <1>2, <1>4, <1>5 DEF u

(***************************************************************************)
(* What a step does to the holders: K is what they hold before it and G    *)
(* what they hold after it.                                                *)
(***************************************************************************)
LEMMA MessageMoved ==
  ASSUME NEW K, NEW G, NEW a \in Holders, NEW b \in Holders, a # b, NEW m \in K[a],
         G[a] = K[a] \ {m}, G[b] = K[b] \cup {m},
         \A h \in Holders \ {a, b} : G[h] = K[h]
  PROVE  Known(G) = Known(K) /\ (Apart(K) => Apart(G))
<1>1. Known(G) = Known(K)
  BY DEF Known
<1>2. ASSUME Apart(K)  PROVE  Apart(G)
  <2> SUFFICES ASSUME NEW h \in Holders, NEW k \in Holders, h # k,
                      NEW x \in G[h], x \in G[k]
               PROVE  FALSE
    BY DEF Apart
  <2>1. \A g, l \in Holders : \A y : y \in K[g] /\ y \in K[l] => g = l
    BY <1>2 DEF Apart
  <2> QED  BY <2>1
<1> QED  BY <1>1, <1>2

LEMMA MessageAdded ==
  ASSUME NEW K, NEW G, NEW b \in Holders, NEW m \in Messages, m \notin Known(K),
         G[b] = K[b] \cup {m},
         \A h \in Holders \ {b} : G[h] = K[h]
  PROVE  Known(G) = Known(K) \cup {m} /\ (Apart(K) => Apart(G))
<1>1. Known(G) = Known(K) \cup {m}
  BY DEF Known
<1>2. \A h \in Holders : m \notin K[h]
  BY DEF Known
<1>3. ASSUME Apart(K)  PROVE  Apart(G)
  <2> SUFFICES ASSUME NEW h \in Holders, NEW k \in Holders, h # k,
                      NEW x \in G[h], x \in G[k]
               PROVE  FALSE
    BY DEF Apart
  <2>1. \A g, l \in Holders : \A y : y \in K[g] /\ y \in K[l] => g = l
    BY <1>3 DEF Apart
  <2> QED  BY <2>1, <1>2
<1> QED  BY <1>1, <1>3

\* The holders of P are emptied into b.
LEMMA HoldersPoured ==
  ASSUME NEW K, NEW G, NEW P \in SUBSET Holders, NEW b \in Holders, b \notin P,
         \A h \in P : G[h] = {},
         G[b] = K[b] \cup UNION {K[h] : h \in P},
         \A h \in Holders \ (P \cup {b}) : G[h] = K[h]
  PROVE  Known(G) = Known(K) /\ (Apart(K) => Apart(G))
<1>1. Known(G) = Known(K)
  <2>1. ASSUME NEW m \in Known(G)  PROVE  m \in Known(K)
    <3>1. PICK h \in Holders : m \in G[h]
      BY DEF Known
    <3>2. CASE h = b
      BY <3>1, <3>2 DEF Known
    <3>3. CASE h # b
      BY <3>1, <3>3 DEF Known
    <3> QED  BY <3>2, <3>3
  <2>2. ASSUME NEW m \in Known(K)  PROVE  m \in Known(G)
    <3>1. PICK h \in Holders : m \in K[h]
      BY DEF Known
    <3>2. m \in G[b] \/ m \in G[h]
      BY <3>1
    <3> QED  BY <3>2 DEF Known
  <2> QED  BY <2>1, <2>2
<1>2. ASSUME Apart(K)  PROVE  Apart(G)
  <2> SUFFICES ASSUME NEW h \in Holders, NEW k \in Holders, h # k,
                      NEW x \in G[h], x \in G[k]
               PROVE  FALSE
    BY DEF Apart
  <2>1. \A g, l \in Holders : \A y : y \in K[g] /\ y \in K[l] => g = l
    BY <1>2 DEF Apart
  <2>2. h \notin P /\ k \notin P
    OBVIOUS
  <2>3. CASE h = b
    BY <2>1, <2>2, <2>3
  <2>4. CASE h # b
    BY <2>1, <2>2, <2>4
  <2> QED  BY <2>3, <2>4
<1> QED  BY <1>1, <1>2
-----------------------------------------------------------------------------
(***************************************************************************)
(* Types.                                                                  *)
(***************************************************************************)
\* A place is one of those a thread can be at.
LEMMA GoesTyped ==
  ASSUME NEW c \in Consumers, pc \in [Consumers -> Places],
         NEW place \in Places, Goes(c, place)
  PROVE  pc' \in [Consumers -> Places]
BY DEF Goes

\* Threads that move no message and run no handler.
LEMMA ThreadTyped ==
  ASSUME Types, NEW c \in Consumers,
         \/ OpenInflux(c) \/ nta_amqp_open(c) \/ OpenHangs(c) \/ OpenFails(c) \/ OpenStops(c)
         \/ DeclareNarrator(c) \/ Subscribe(c) \/ LoopStops(c) \/ LoopError(c)
  PROVE  Types'
<1> USE DEF Types, Places, Queues, Conns
<1>0. Role[c] \in Queues
  BY RoleAssumption
<1>1. CASE OpenInflux(c)
  BY <1>1 DEF OpenInflux, Goes, link, locals, work, stops, world, fate
<1>2. CASE nta_amqp_open(c)
  BY <1>0, <1>2 DEF nta_amqp_open, Goes, AfterOpen, work, stops, world, fate
<1>3. CASE OpenStops(c)
  BY <1>3 DEF OpenStops, Goes, link, locals, work, stops, world, fate
<1>4. CASE DeclareNarrator(c)
  BY <1>4 DEF DeclareNarrator, Goes, link, work, stops, world, fate
<1>5. CASE Subscribe(c)
  BY <1>5 DEF Subscribe, Goes, link, work, stops, world, fate
<1>6. CASE LoopStops(c)
  BY <1>6 DEF LoopStops, Goes, link, work, stops, world, fate
<1>7. CASE LoopError(c)
  BY <1>7 DEF LoopError, Goes, link, work, stops, world, fate
<1>8. CASE OpenHangs(c)
  <2>1. faults' \in 0 .. MaxFaults
    BY <1>8, BoundsAssumption DEF OpenHangs
  <2>2. declared' \in SUBSET Queues
    BY <1>0, <1>8 DEF OpenHangs
  <2> QED  BY <1>8, <2>1, <2>2 DEF OpenHangs, Goes, link, locals, work, stops, fate
<1>9. CASE OpenFails(c)
  BY <1>9 DEF OpenFails, Goes, link, locals, work, stops, world, fate
<1> QED  BY <1>1, <1>2, <1>3, <1>4, <1>5, <1>6, <1>7, <1>8, <1>9

LEMMA EventTyped ==
  ASSUME Types, NEW c \in Consumers, NextEvent(c)
  PROVE  /\ pc' \in [Consumers -> Places] /\ at' \in [Consumers -> 0 .. Events]
         /\ hand' \in [Consumers -> Messages \cup {NoMessage}]
<1>1. Events \in Nat /\ at[c] \in 0 .. Events
  BY BoundsAssumption DEF Types
<1>2. CASE at[c] < Events
  <2>1. at[c] + 1 \in 0 .. Events
    BY <1>1, <1>2
  <2> QED  BY <1>2, <2>1 DEF NextEvent, Types
<1>3. CASE ~(at[c] < Events)
  <2>1. 0 \in 0 .. Events
    BY <1>1
  <2> QED  BY <1>3, <2>1 DEF NextEvent, HandlerEnds, Goes, Types, Places
<1> QED  BY <1>2, <1>3

LEMMA HandlerTyped ==
  ASSUME Types, Handed, Sharing, NEW c \in Consumers,
         \/ LoopTakes(c) \/ TrafficFails(c) \/ TrafficWritten(c) \/ NarratorSilent(c)
         \/ ReportHandled(c) \/ SkipEvent(c) \/ RepublishEvent(c) \/ nta_amqp_close(c)
  PROVE  Types'
<1>0. inbox[c] \in Seq(Messages) /\ at[c] \in 0 .. Events /\ Events \in Nat
  BY BoundsAssumption DEF Types
<1>h. pc[c] = "handle" => hand[c] \in Messages
  BY DEF Handed
<1>1. CASE LoopTakes(c)
  <2>1. Head(inbox[c]) \in Messages /\ Tail(inbox[c]) \in Seq(Messages)
    BY <1>0, <1>1, TailOfQueue DEF LoopTakes
  <2> QED  BY <1>1, <2>1 DEF LoopTakes, Goes, Types, Places, link, locals, stops, world, fate
<1>2. CASE TrafficFails(c)
  BY <1>2, <1>h DEF TrafficFails, Handling, Dropped, HandlerEnds, Goes, Types, Places,
                    link, locals, stops, world
<1>3. CASE TrafficWritten(c)
  <2>1. CASE MayTrigger(c)
    <3>1. 1 \in 0 .. Events
      BY <1>0, <2>1 DEF MayTrigger
    <3> QED  BY <1>3, <1>h, <2>1, <3>1 DEF TrafficWritten, Handling, Written, Goes, Types,
                    Places, link, locals, stops, world
  <2>2. CASE ~MayTrigger(c)
    BY <1>3, <1>h, <2>2 DEF TrafficWritten, Handling, Written, HandlerEnds, Goes, Types,
                    Places, link, locals, stops, world
  <2> QED  BY <2>1, <2>2
<1>4. CASE NarratorSilent(c)
  BY <1>4, <1>h DEF NarratorSilent, Handling, Dropped, HandlerEnds, Goes, Types, Places,
                    link, locals, stops, world
<1>5. CASE ReportHandled(c)
  BY <1>5, <1>h DEF ReportHandled, Handling, Written, Dropped, HandlerEnds, Goes, Types,
                    Places, link, locals, stops, world
<1>6. CASE SkipEvent(c)
  <2>1. NextEvent(c)
    BY <1>6 DEF SkipEvent
  <2> QED  BY <1>6, <2>1, EventTyped DEF SkipEvent, Types, link, locals, stops, world, fate
<1>7. CASE RepublishEvent(c)
  <2> DEFINE event == <<hand[c][1], at[c]>>
  <2>1. NextEvent(c) /\ Republishes(c)
    BY <1>7 DEF RepublishEvent, Republishes
  <2>2. hand[c] \in Messages
    BY <2>1 DEF Sharing, Types
  <2>3. event \in Messages
    BY <2>2, <1>0 DEF Messages
  <2>4. Append(queue["narrator"], event) \in Seq(Messages)
    BY <2>3, QueueAppended DEF Types, Queues
  <2>5. /\ queue' \in [Queues -> Seq(Messages)]
        /\ unroutable' \in SUBSET Messages /\ lost' \in SUBSET Messages
    BY <1>7, <2>3, <2>4 DEF RepublishEvent, Types
  <2> QED  BY <1>7, <2>1, <2>5, EventTyped DEF RepublishEvent, Types, link, locals, stops, world
<1>8. CASE nta_amqp_close(c)
  <2>1. Range(inbox[c]) \subseteq Messages
    BY <1>0, LenProperties, ElementOfSeq DEF Range
  <2>2. <<>> \in Seq(Messages)
    BY EmptySeq
  <2> QED  BY <1>8, <2>1, <2>2 DEF nta_amqp_close, Goes, Types, Places, Conns, locals, stops, world
<1> QED  BY <1>1, <1>2, <1>3, <1>4, <1>5, <1>6, <1>7, <1>8

LEMMA WorldTyped ==
  ASSUME Types, Handed,
         \/ \E c \in Consumers :
              Deliver(c) \/ ScaleDown(c) \/ ScaleUp(c) \/ LinkBreaks(c) \/ LinkShows(c)
         \/ \E q \in Range(Role) \ {"narrator"} : AgentSends(q)
         \/ Signal \/ BrokerDown \/ BrokerUp \/ Crash
  PROVE  Types'
<1>0. /\ faults \in 0 .. MaxFaults /\ MaxFaults \in Nat
      /\ sent \in 0 .. MaxMessages /\ MaxMessages \in Nat /\ Events \in Nat
  BY BoundsAssumption DEF Types
<1>f. faults < MaxFaults => faults + 1 \in 0 .. MaxFaults
  BY <1>0
<1>1. ASSUME NEW c \in Consumers, Deliver(c)  PROVE  Types'
  <2> DEFINE q == Role[c]
  <2>1. q \in Queues /\ queue[q] \in Seq(Messages) /\ inbox[c] \in Seq(Messages)
    BY RoleAssumption DEF Types
  <2>2. queue[q] # <<>>
    BY <1>1 DEF Deliver
  <2>3. Head(queue[q]) \in Messages /\ Tail(queue[q]) \in Seq(Messages)
    BY <2>1, <2>2, TailOfQueue
  <2>4. Append(inbox[c], Head(queue[q])) \in Seq(Messages)
    BY <2>1, <2>3, QueueAppended
  <2> QED  BY <1>1, <2>1, <2>3, <2>4 DEF Deliver, Types, link, locals, stops, world, fate
<1>2. ASSUME NEW c \in Consumers, ScaleDown(c)  PROVE  Types'
  BY <1>2 DEF ScaleDown, Types, link, locals, work, world, fate
<1>3. ASSUME NEW c \in Consumers, ScaleUp(c)  PROVE  Types'
  BY <1>3 DEF ScaleUp, Goes, Types, Places, link, locals, work, world, fate
<1>4. ASSUME NEW c \in Consumers, LinkBreaks(c)  PROVE  Types'
  <2>1. conn' \in [Consumers -> Conns]
    BY <1>4 DEF LinkBreaks, Types, Conns
  <2> QED  BY <1>4, <1>f, <2>1 DEF LinkBreaks, Types, locals, work, stops, fate
<1>5. ASSUME NEW q \in Range(Role) \ {"narrator"}, AgentSends(q)  PROVE  Types'
  <2>1. q \in Queues
    BY RoleAssumption DEF Range
  <2>2. sent + 1 \in 0 .. MaxMessages /\ <<sent + 1, 0>> \in Messages
    BY <1>0, <1>5 DEF AgentSends, Messages
  <2>3. Append(queue[q], <<sent + 1, 0>>) \in Seq(Messages)
    BY <2>1, <2>2, QueueAppended DEF Types
  <2>4. declared' \in SUBSET Queues
    BY <1>5 DEF AgentSends, Types, Queues
  <2>5. queue' \in [Queues -> Seq(Messages)] /\ sent' \in 0 .. MaxMessages
    BY <1>5, <2>1, <2>2, <2>3 DEF AgentSends, Types
  <2> QED  BY <1>5, <2>4, <2>5 DEF AgentSends, Types, link, locals, work, stops, fate
<1>6. CASE Signal
  BY <1>6 DEF Signal, Types, link, locals, work, world, fate
<1>7. CASE BrokerDown
  BY <1>7, <1>f DEF BrokerDown, Types, locals, work, stops, fate
<1>8. CASE BrokerUp
  BY <1>8 DEF BrokerUp, Types, link, locals, work, stops, fate
<1>9. CASE Crash
  <2>1. InHandlers \subseteq Messages
    BY DEF InHandlers, Handed
  <2>2. InInboxes \subseteq Messages
    <3>1. \A c \in Consumers : Range(inbox[c]) \subseteq Messages
      BY LenProperties, ElementOfSeq DEF Range, Types
    <3> QED  BY <3>1 DEF InInboxes
  <2>3. <<>> \in Seq(Messages) /\ 0 \in 0 .. Events
    BY <1>0, EmptySeq
  <2>4. lost' \in SUBSET Messages
    BY <1>9, <2>1, <2>2 DEF Crash, Types
  <2>5. faults' \in 0 .. MaxFaults
    BY <1>9, <1>f DEF Crash
  <2>6. /\ conn' \in [Consumers -> Conns]
        /\ pc' \in [Consumers -> Places] /\ rc' \in [Consumers -> {0, 1}]
        /\ canNarrate' \in [Consumers -> BOOLEAN] /\ inbox' \in [Consumers -> Seq(Messages)]
        /\ hand' \in [Consumers -> Messages \cup {NoMessage}]
        /\ at' \in [Consumers -> 0 .. Events]
        /\ stop' \in BOOLEAN /\ wstop' \in [Consumers -> BOOLEAN]
    BY <1>9, <2>3 DEF Crash, Places, Conns
  <2> QED  BY <1>9, <2>4, <2>5, <2>6 DEF Crash, Types
<1>10. ASSUME NEW c \in Consumers, LinkShows(c)  PROVE  Types'
  <2>1. conn' \in [Consumers -> Conns]
    BY <1>10 DEF LinkShows, Types, Conns
  <2> QED  BY <1>10, <2>1 DEF LinkShows, Types, locals, work, stops, world, fate
<1> QED  BY <1>1, <1>2, <1>3, <1>4, <1>5, <1>6, <1>7, <1>8, <1>9, <1>10
-----------------------------------------------------------------------------
(***************************************************************************)
(* The gauge.                                                              *)
(***************************************************************************)
\* A thread is connected where it is past open and before its end.
Outside == {"start", "open", "login", "ended"}

\* A step that opens or closes no connection.
SameLinks ==
  /\ gauge' = gauge
  /\ conn' \in [Consumers -> Conns]
  /\ \A c \in Consumers : /\ conn'[c] = "none" <=> conn[c] = "none"
                          /\ pc'[c] \in Outside <=> pc[c] \in Outside

LEMMA SameLinksGauged ==
  ASSUME Gauged, SameLinks
  PROVE  Gauged'
<1>1. Linked' = Linked
  BY DEF Linked, SameLinks
<1>2. gauge' = Cardinality(Linked)'
  BY <1>1 DEF Gauged, SameLinks
<1> QED  BY <1>2 DEF Gauged, SameLinks, Outside

LEMMA EventLinks ==
  ASSUME Types, NEW c \in Consumers, NextEvent(c), pc[c] = "republish"
  PROVE  \A d \in Consumers : pc'[d] \in Outside <=> pc[d] \in Outside
BY DEF NextEvent, HandlerEnds, Goes, Types, Outside

LEMMA ThreadGauged ==
  ASSUME Types, Gauged, NEW c \in Consumers, Thread(c)
  PROVE  Gauged'
<1> USE DEF Types
<1>s. SameLinks => Gauged'
  BY SameLinksGauged
<1>1. CASE OpenInflux(c)
  BY <1>1 DEF OpenInflux, Goes, link, Gauged, Linked
<1>2. CASE nta_amqp_open(c)
  <2>1. conn[c] = "none" /\ c \notin Linked
    BY <1>2 DEF nta_amqp_open, Gauged, Linked
  <2>2. Linked' = Linked \cup {c}
    BY <1>2 DEF nta_amqp_open, Linked
  <2>3. IsFiniteSet(Linked)
    BY FS_Subset, RoleAssumption DEF Linked
  <2>4. Cardinality(Linked') = Cardinality(Linked) + 1
    BY <2>1, <2>2, <2>3, FS_AddElement
  <2>5. gauge' = Cardinality(Linked')
    BY <1>2, <2>4 DEF nta_amqp_open, Gauged
  <2>6. \A d \in Consumers : conn'[d] = "none" <=> pc'[d] \in {"start", "open", "login", "ended"}
    BY <1>2 DEF nta_amqp_open, Goes, AfterOpen, Gauged
  <2> QED  BY <2>5, <2>6 DEF Gauged
<1>3. CASE OpenStops(c)
  BY <1>3 DEF OpenStops, Goes, link, Gauged, Linked
<1>4. CASE DeclareNarrator(c)
  BY <1>4, <1>s DEF DeclareNarrator, Goes, link, SameLinks, Outside
<1>5. CASE Subscribe(c)
  BY <1>5, <1>s DEF Subscribe, Goes, link, SameLinks, Outside
<1>6. CASE LoopStops(c)
  BY <1>6, <1>s DEF LoopStops, Goes, link, SameLinks, Outside
<1>7. CASE LoopError(c)
  BY <1>7, <1>s DEF LoopError, Goes, link, SameLinks, Outside
<1>8. CASE LoopTakes(c)
  BY <1>8, <1>s DEF LoopTakes, Goes, link, SameLinks, Outside
<1>9. CASE TrafficFails(c)
  BY <1>9, <1>s DEF TrafficFails, Handling, HandlerEnds, Goes, link, SameLinks, Outside
<1>10. CASE TrafficWritten(c)
  BY <1>10, <1>s DEF TrafficWritten, Handling, HandlerEnds, Goes, link, SameLinks, Outside
<1>11. CASE NarratorSilent(c)
  BY <1>11, <1>s DEF NarratorSilent, Handling, HandlerEnds, Goes, link, SameLinks, Outside
<1>12. CASE ReportHandled(c)
  BY <1>12, <1>s DEF ReportHandled, Handling, HandlerEnds, Goes, link, SameLinks, Outside
<1>13. CASE SkipEvent(c)
  <2>1. \A d \in Consumers : pc'[d] \in Outside <=> pc[d] \in Outside
    BY <1>13, EventLinks DEF SkipEvent
  <2> QED  BY <1>13, <2>1, <1>s DEF SkipEvent, link, SameLinks
<1>14. CASE RepublishEvent(c)
  <2>1. \A d \in Consumers : pc'[d] \in Outside <=> pc[d] \in Outside
    BY <1>14, EventLinks DEF RepublishEvent
  <2> QED  BY <1>14, <2>1, <1>s DEF RepublishEvent, link, SameLinks
<1>15. CASE nta_amqp_close(c)
  <2>1. c \in Linked
    BY <1>15 DEF nta_amqp_close, Gauged, Linked
  <2>2. Linked' = Linked \ {c}
    BY <1>15 DEF nta_amqp_close, Linked
  <2>3. IsFiniteSet(Linked)
    BY FS_Subset, RoleAssumption DEF Linked
  <2>4. Cardinality(Linked') = Cardinality(Linked) - 1
    BY <2>1, <2>2, <2>3, FS_RemoveElement
  <2>5. gauge' = Cardinality(Linked')
    BY <1>15, <2>4 DEF nta_amqp_close, Gauged
  <2>6. \A d \in Consumers : conn'[d] = "none" <=> pc'[d] \in {"start", "open", "login", "ended"}
    BY <1>15 DEF nta_amqp_close, Goes, Gauged
  <2> QED  BY <2>5, <2>6 DEF Gauged
<1>16. CASE OpenHangs(c) \/ OpenFails(c)
  BY <1>16, <1>s DEF OpenHangs, OpenFails, Goes, link, SameLinks, Outside
<1> QED  BY <1>1, <1>2, <1>3, <1>4, <1>5, <1>6, <1>7, <1>8, <1>9, <1>10, <1>11, <1>12, <1>13,
            <1>14, <1>15, <1>16 DEF Thread

LEMMA WorldGauged ==
  ASSUME Types, Gauged,
         \/ \E c \in Consumers :
              Deliver(c) \/ ScaleDown(c) \/ ScaleUp(c) \/ LinkBreaks(c) \/ LinkShows(c)
         \/ \E q \in Range(Role) \ {"narrator"} : AgentSends(q)
         \/ Signal \/ BrokerDown \/ BrokerUp \/ Crash
  PROVE  Gauged'
<1> USE DEF Types
<1>s. SameLinks => Gauged'
  BY SameLinksGauged
<1>1. ASSUME NEW c \in Consumers, Deliver(c)  PROVE  Gauged'
  BY <1>1, <1>s DEF Deliver, link, SameLinks
<1>2. ASSUME NEW c \in Consumers, ScaleDown(c)  PROVE  Gauged'
  BY <1>2, <1>s DEF ScaleDown, link, SameLinks
<1>3. ASSUME NEW c \in Consumers, ScaleUp(c)  PROVE  Gauged'
  BY <1>3, <1>s DEF ScaleUp, Goes, link, SameLinks, Outside
<1>4. ASSUME NEW c \in Consumers, LinkBreaks(c)  PROVE  Gauged'
  BY <1>4, <1>s DEF LinkBreaks, SameLinks, Conns
<1>5. ASSUME NEW q, AgentSends(q)  PROVE  Gauged'
  BY <1>5, <1>s DEF AgentSends, link, SameLinks
<1>6. CASE Signal
  BY <1>6, <1>s DEF Signal, link, SameLinks
<1>7. CASE BrokerDown
  <2>1. \A c \in Consumers : conn[c] \in Conns /\ conn'[c] \in Outage(conn[c])
    BY <1>7 DEF BrokerDown
  <2>2. \A c \in Consumers : conn'[c] = "none" <=> conn[c] = "none"
    BY <2>1 DEF Outage, Conns
  <2> QED  BY <1>7, <1>s, <2>2 DEF BrokerDown, SameLinks
<1>8. CASE BrokerUp
  BY <1>8, <1>s DEF BrokerUp, link, SameLinks
<1>9. CASE Crash
  <2>1. Linked' = {}
    BY <1>9 DEF Crash, Linked
  <2>2. gauge' = Cardinality(Linked')
    BY <1>9, <2>1, FS_EmptySet DEF Crash
  <2>3. \A c \in Consumers : conn'[c] = "none" /\ pc'[c] = "start"
    BY <1>9 DEF Crash
  <2> QED  BY <2>2, <2>3 DEF Gauged
<1>10. ASSUME NEW c \in Consumers, LinkShows(c)  PROVE  Gauged'
  BY <1>10, <1>s DEF LinkShows, Silent, SameLinks, Conns
<1> QED  BY <1>1, <1>2, <1>3, <1>4, <1>5, <1>6, <1>7, <1>8, <1>9, <1>10
-----------------------------------------------------------------------------
(***************************************************************************)
(* What handlers have in hand.                                             *)
(***************************************************************************)
LEMMA ThreadHanded ==
  ASSUME Types, Handed, NEW c \in Consumers, Thread(c)
  PROVE  Handed'
<1> USE DEF Types
<1>i. UNCHANGED <<queue, inbox>> /\ (\A d \in Consumers : pc'[d] = "handle" =>
                                        pc[d] = "handle" /\ hand'[d] = hand[d])
      => Handed'
  BY DEF Handed
<1>1. CASE OpenInflux(c)
  BY <1>1, <1>i DEF OpenInflux, Goes, work
<1>2. CASE nta_amqp_open(c)
  BY <1>2, <1>i DEF nta_amqp_open, Goes, AfterOpen, work
<1>3. CASE OpenStops(c)
  BY <1>3, <1>i DEF OpenStops, Goes, work
<1>4. CASE DeclareNarrator(c)
  BY <1>4, <1>i DEF DeclareNarrator, Goes, work
<1>5. CASE Subscribe(c)
  BY <1>5, <1>i DEF Subscribe, Goes, work
<1>6. CASE LoopStops(c)
  BY <1>6, <1>i DEF LoopStops, Goes, work
<1>7. CASE LoopError(c)
  BY <1>7, <1>i DEF LoopError, Goes, work
<1>8. CASE LoopTakes(c)
  <2>1. inbox[c] \in Seq(Messages) /\ inbox[c] # <<>>
    BY <1>8 DEF LoopTakes
  <2>2. /\ Head(inbox[c]) \in Messages /\ Head(inbox[c]) \in Range(inbox[c])
        /\ Range(Tail(inbox[c])) \subseteq Range(inbox[c])
    BY <2>1, TailOfQueue
  <2>3. /\ queue' = queue
        /\ inbox' = [inbox EXCEPT ![c] = Tail(inbox[c])]
        /\ hand' = [hand EXCEPT ![c] = Head(inbox[c])]
        /\ pc' = [pc EXCEPT ![c] = "handle"]
    BY <1>8 DEF LoopTakes, Goes
  <2>4. \A d \in Consumers : Role[d] # "narrator" => \A m \in Range(inbox'[d]) : m[2] = 0
    BY <2>2, <2>3 DEF Handed
  <2>5. \A d \in Consumers : pc'[d] = "handle" =>
          hand'[d] \in Messages /\ (Role[d] # "narrator" => hand'[d][2] = 0)
    BY <2>2, <2>3 DEF Handed
  <2> QED  BY <2>3, <2>4, <2>5 DEF Handed
<1>9. CASE TrafficFails(c)
  BY <1>9, <1>i DEF TrafficFails, Handling, HandlerEnds, Goes
<1>10. CASE TrafficWritten(c)
  BY <1>10, <1>i DEF TrafficWritten, Handling, HandlerEnds, Goes
<1>11. CASE NarratorSilent(c)
  BY <1>11, <1>i DEF NarratorSilent, Handling, HandlerEnds, Goes
<1>12. CASE ReportHandled(c)
  BY <1>12, <1>i DEF ReportHandled, Handling, HandlerEnds, Goes
<1>13. CASE SkipEvent(c)
  BY <1>13, <1>i DEF SkipEvent, NextEvent, HandlerEnds, Goes
<1>14. CASE RepublishEvent(c)
  <2>1. \A d \in Consumers : pc'[d] = "handle" => pc[d] = "handle" /\ hand'[d] = hand[d]
    BY <1>14 DEF RepublishEvent, NextEvent, HandlerEnds, Goes
  <2>2. inbox' = inbox /\ \A q \in Queues : q # "narrator" => queue'[q] = queue[q]
    BY <1>14 DEF RepublishEvent
  <2> QED  BY <2>1, <2>2 DEF Handed
<1>15. CASE nta_amqp_close(c)
  <2>1. \A d \in Consumers : pc'[d] = "handle" => pc[d] = "handle" /\ hand'[d] = hand[d]
    BY <1>15 DEF nta_amqp_close, Goes
  <2>2. /\ queue' = queue
        /\ \A d \in Consumers : inbox'[d] = inbox[d] \/ Range(inbox'[d]) = {}
    BY <1>15 DEF nta_amqp_close, Range
  <2> QED  BY <2>1, <2>2 DEF Handed
<1>16. CASE OpenHangs(c) \/ OpenFails(c)
  BY <1>16, <1>i DEF OpenHangs, OpenFails, Goes, work
<1> QED  BY <1>1, <1>2, <1>3, <1>4, <1>5, <1>6, <1>7, <1>8, <1>9, <1>10, <1>11, <1>12, <1>13,
            <1>14, <1>15, <1>16 DEF Thread

\* A message is a pair of its number and the place of its event.
LEMMA NewMessage ==
  ASSUME NEW n \in 1 .. MaxMessages, NEW k \in 0 .. Events
  PROVE  <<n, k>> \in Messages
BY DEF Messages

\* Deliveries, failures and the scaler hand nothing new to a handler.
LEMMA WorldHanded ==
  ASSUME Types, Handed,
         \/ \E c \in Consumers :
              Deliver(c) \/ ScaleDown(c) \/ ScaleUp(c) \/ LinkBreaks(c) \/ LinkShows(c)
         \/ \E q \in Range(Role) \ {"narrator"} : AgentSends(q)
         \/ Signal \/ BrokerDown \/ BrokerUp \/ Crash
  PROVE  Handed'
<1> USE DEF Types
<1>i. UNCHANGED <<queue, inbox>> /\ (\A d \in Consumers : pc'[d] = "handle" =>
                                        pc[d] = "handle" /\ hand'[d] = hand[d])
      => Handed'
  BY DEF Handed
<1>1. ASSUME NEW c \in Consumers, Deliver(c)  PROVE  Handed'
  <2> DEFINE q == Role[c]  m == Head(queue[q])
  <2>1. q \in Queues /\ queue[q] \in Seq(Messages) /\ queue[q] # <<>>
    BY <1>1, RoleAssumption DEF Deliver
  <2>2. inbox[c] \in Seq(Messages)
    OBVIOUS
  <2>3. m \in Messages /\ m \in Range(queue[q]) /\ Range(Tail(queue[q])) \subseteq Range(queue[q])
    BY <2>1, TailOfQueue
  <2>4. /\ queue' = [queue EXCEPT ![q] = Tail(queue[q])]
        /\ inbox' = [inbox EXCEPT ![c] = Append(inbox[c], m)]
        /\ UNCHANGED <<pc, hand>>
    BY <1>1 DEF Deliver
  <2>5. Range(Append(inbox[c], m)) = Range(inbox[c]) \cup {m}
    BY <2>2, <2>3, QueueAppended
  <2>6. \A r \in Queues : r # "narrator" => \A n \in Range(queue'[r]) : n[2] = 0
    BY <2>1, <2>3, <2>4 DEF Handed
  <2>7. q # "narrator" => m[2] = 0
    BY <2>1, <2>3 DEF Handed
  <2> HIDE DEF m
  <2>8. \A d \in Consumers : Role[d] # "narrator" => \A n \in Range(inbox'[d]) : n[2] = 0
    BY <2>2, <2>4, <2>5, <2>7 DEF Handed
  <2> QED  BY <2>4, <2>6, <2>8 DEF Handed
<1>2. ASSUME NEW c \in Consumers, ScaleDown(c)  PROVE  Handed'
  BY <1>2, <1>i DEF ScaleDown, work
<1>3. ASSUME NEW c \in Consumers, ScaleUp(c)  PROVE  Handed'
  BY <1>3, <1>i DEF ScaleUp, Goes, work
<1>4. ASSUME NEW c \in Consumers, LinkBreaks(c)  PROVE  Handed'
  BY <1>4, <1>i DEF LinkBreaks, work
<1>5. ASSUME NEW q \in Range(Role) \ {"narrator"}, AgentSends(q)  PROVE  Handed'
  <2> DEFINE m == <<sent + 1, 0>>
  <2>1. q \in Queues /\ queue[q] \in Seq(Messages)
    BY RoleAssumption DEF Range
  <2>a. sent + 1 \in 1 .. MaxMessages /\ 0 \in 0 .. Events
    BY <1>5, BoundsAssumption DEF AgentSends
  <2>2. m \in Messages
    BY <2>a, NewMessage
  <2>3. Range(Append(queue[q], m)) = Range(queue[q]) \cup {m}
    BY <2>1, <2>2, QueueAppended
  <2>4. /\ queue' = [queue EXCEPT ![q] = Append(queue[q], m)]
        /\ UNCHANGED <<inbox, pc, hand>>
    BY <1>5 DEF AgentSends, work
  <2>5. m[2] = 0
    OBVIOUS
  <2> HIDE DEF m
  <2>6. \A r \in Queues : r # "narrator" => \A n \in Range(queue'[r]) : n[2] = 0
    BY <2>1, <2>3, <2>4, <2>5 DEF Handed
  <2> QED  BY <2>4, <2>6 DEF Handed
<1>6. CASE Signal
  BY <1>6, <1>i DEF Signal, work
<1>7. CASE BrokerDown
  BY <1>7, <1>i DEF BrokerDown, work
<1>8. CASE BrokerUp
  BY <1>8, <1>i DEF BrokerUp, work
<1>9. CASE Crash
  <2>1. /\ queue' = queue
        /\ \A c \in Consumers : inbox'[c] = <<>> /\ pc'[c] = "start"
    BY <1>9 DEF Crash
  <2>2. \A c \in Consumers : Range(inbox'[c]) = {}
    BY <2>1 DEF Range
  <2> QED  BY <2>1, <2>2 DEF Handed
<1>10. ASSUME NEW c \in Consumers, LinkShows(c)  PROVE  Handed'
  BY <1>10, <1>i DEF LinkShows, work
<1> QED  BY <1>1, <1>2, <1>3, <1>4, <1>5, <1>6, <1>7, <1>8, <1>9, <1>10

-----------------------------------------------------------------------------
(***************************************************************************)
(* Holders.                                                                *)
(***************************************************************************)
LEMMA HolderNames ==
  /\ \A q \in Queues : <<"queue", q>> \in Holders
  /\ \A c \in Consumers : <<"inbox", c>> \in Holders /\ <<"hand", c>> \in Holders
  /\ \A f \in 1 .. 4 : <<"fate", f>> \in Holders
  /\ <<"fate", 1>> \in Holders /\ <<"fate", 3>> \in Holders /\ <<"fate", 4>> \in Holders
  /\ \A h \in Holders : \/ \E q \in Queues : h = <<"queue", q>>
                        \/ \E c \in Consumers : h = <<"inbox", c>>
                        \/ \E c \in Consumers : h = <<"hand", c>>
                        \/ h \in {<<"fate", 1>>, <<"fate", 2>>, <<"fate", 3>>, <<"fate", 4>>}
BY DEF Holders

LEMMA HeldBefore ==
  /\ \A q \in Queues : Held[<<"queue", q>>] = Range(queue[q])
  /\ \A c \in Consumers : Held[<<"inbox", c>>] = Range(inbox[c])
  /\ \A c \in Consumers : Held[<<"hand", c>>] = HandOf(c)
  /\ Held[<<"fate", 1>>] = done /\ Held[<<"fate", 2>>] = discarded
  /\ Held[<<"fate", 3>>] = lost /\ Held[<<"fate", 4>>] = unroutable
<1>1. ASSUME NEW q \in Queues  PROVE  Held[<<"queue", q>>] = Range(queue[q])
  BY HolderNames DEF Held
<1>2. ASSUME NEW c \in Consumers  PROVE  Held[<<"inbox", c>>] = Range(inbox[c])
  BY HolderNames DEF Held
<1>3. ASSUME NEW c \in Consumers  PROVE  Held[<<"hand", c>>] = HandOf(c)
  BY HolderNames DEF Held
<1>4. /\ Held[<<"fate", 1>>] = done /\ Held[<<"fate", 2>>] = discarded
      /\ Held[<<"fate", 3>>] = lost /\ Held[<<"fate", 4>>] = unroutable
  <2>1. ASSUME NEW f \in 1 .. 4  PROVE  Held[<<"fate", f>>] = FateOf(f)
    BY HolderNames DEF Held
  <2>2. FateOf(1) = done /\ FateOf(2) = discarded /\ FateOf(3) = lost /\ FateOf(4) = unroutable
    BY DEF FateOf
  <2> QED  BY <2>1, <2>2
<1> QED  BY <1>1, <1>2, <1>3, <1>4

LEMMA HeldAfter ==
  /\ \A q \in Queues : Held'[<<"queue", q>>] = Range(queue'[q])
  /\ \A c \in Consumers : Held'[<<"inbox", c>>] = Range(inbox'[c])
  /\ \A c \in Consumers : Held'[<<"hand", c>>] = HandOf(c)'
  /\ Held'[<<"fate", 1>>] = done' /\ Held'[<<"fate", 2>>] = discarded'
  /\ Held'[<<"fate", 3>>] = lost' /\ Held'[<<"fate", 4>>] = unroutable'
<1>1. (/\ \A q \in Queues : Held[<<"queue", q>>] = Range(queue[q])
       /\ \A c \in Consumers : Held[<<"inbox", c>>] = Range(inbox[c])
       /\ \A c \in Consumers : Held[<<"hand", c>>] = HandOf(c)
       /\ Held[<<"fate", 1>>] = done /\ Held[<<"fate", 2>>] = discarded
       /\ Held[<<"fate", 3>>] = lost /\ Held[<<"fate", 4>>] = unroutable)'
  BY HeldBefore, PTL
<1> QED  BY <1>1

\* A step that moves no message.
Quiet ==
  /\ UNCHANGED <<queue, inbox, fate, sent>>
  /\ \A c \in Consumers : HandOf(c)' = HandOf(c)

LEMMA QuietHeld ==
  ASSUME Quiet
  PROVE  Held' = Held
<1>1. \A h \in Holders : Held'[h] = Held[h]
  BY HolderNames, HeldBefore, HeldAfter DEF Quiet, fate
<1> QED  BY <1>1 DEF Held
\* A thread goes on with the events of a message, or stops doing so.
Onward ==
  \A c \in Consumers :
    Republishes(c)' => Republishes(c) /\ hand'[c] = hand[c] /\ at'[c] >= at[c]

LEMMA SharingKept ==
  ASSUME Types, Types', Sharing, done \subseteq done', Onward
  PROVE  Sharing'
<1>1. ASSUME NEW c \in Consumers, Republishes(c)'
      PROVE  hand'[c] \in done' /\ hand'[c][2] = 0 /\ at'[c] \in 1 .. Events
  <2>1. Republishes(c) /\ hand'[c] = hand[c] /\ at'[c] >= at[c]
    BY <1>1 DEF Onward
  <2>2. hand[c] \in done /\ hand[c][2] = 0 /\ at[c] \in 1 .. Events
    BY <2>1 DEF Sharing
  <2>3. at'[c] \in 0 .. Events /\ Events \in Nat
    BY BoundsAssumption DEF Types
  <2> QED  BY <2>1, <2>2, <2>3
<1>2. ASSUME NEW c \in Consumers, NEW d \in Consumers, Republishes(c)', Republishes(d)',
             hand'[c] = hand'[d]
      PROVE  c = d
  BY <1>2 DEF Onward, Sharing
<1>3. \A c \in Consumers : Republishes(c)' =>
        hand'[c] \in done' /\ hand'[c][2] = 0 /\ at'[c] \in 1 .. Events
  BY <1>1
<1> QED  BY <1>2, <1>3 DEF Sharing

\* Events that are on their way stay behind the worker that republishes.
LEMMA EventsKept ==
  ASSUME Types, Types', Accounted, done \subseteq done', Onward,
         NEW m \in Messages, m[2] > 0, m \in Known(Held)
  PROVE  /\ <<m[1], 0>> \in done'
         /\ \A c \in Consumers : Republishes(c)' /\ hand'[c] = <<m[1], 0>> => at'[c] > m[2]
<1>1. /\ <<m[1], 0>> \in done
      /\ \A c \in Consumers : Republishes(c) /\ hand[c] = <<m[1], 0>> => at[c] > m[2]
  BY DEF Accounted
<1>2. ASSUME NEW c \in Consumers, Republishes(c)', hand'[c] = <<m[1], 0>>
      PROVE  at'[c] > m[2]
  <2>1. Republishes(c) /\ hand[c] = <<m[1], 0>> /\ at'[c] >= at[c]
    BY <1>2 DEF Onward
  <2>2. at[c] > m[2]
    BY <1>1, <2>1
  <2>3. at[c] \in Nat /\ at'[c] \in Nat /\ m[2] \in Nat
    BY DEF Types, Messages
  <2> QED  BY <2>1, <2>2, <2>3
<1> QED  BY <1>1, <1>2

LEMMA BooksKept ==
  ASSUME Types, Types', Sharing, Accounted, Known(Held') = Known(Held), sent' = sent,
         done \subseteq done', Onward
  PROVE  Sharing' /\ Accounted'
<1>1. Sharing'
  BY SharingKept
<1>2. ASSUME NEW m \in Messages
      PROVE  /\ m[2] = 0 => (m \in Known(Held') <=> m[1] <= sent')
             /\ m[2] > 0 /\ m \in Known(Held') =>
                  /\ <<m[1], 0>> \in done'
                  /\ \A c \in Consumers :
                       Republishes(c)' /\ hand'[c] = <<m[1], 0>> => at'[c] > m[2]
  BY EventsKept DEF Accounted
<1> QED  BY <1>1, <1>2 DEF Accounted

LEMMA QuietKept ==
  ASSUME Types, Types', OnePlace, Sharing, Accounted, Quiet, Onward
  PROVE  OnePlace' /\ Sharing' /\ Accounted'
<1>1. Held' = Held
  BY QuietHeld
<1>2. OnePlace'
  BY <1>1 DEF OnePlace, Quiet
<1>3. Known(Held') = Known(Held) /\ sent' = sent /\ done \subseteq done'
  BY <1>1 DEF Quiet, fate
<1> QED  BY <1>2, <1>3, BooksKept

LEMMA QuietThreads ==
  ASSUME Types, NEW c \in Consumers,
         \/ OpenInflux(c) \/ nta_amqp_open(c) \/ OpenHangs(c) \/ OpenFails(c) \/ OpenStops(c)
         \/ DeclareNarrator(c) \/ Subscribe(c) \/ LoopStops(c) \/ LoopError(c) \/ SkipEvent(c)
  PROVE  Quiet /\ Onward
<1> DEFINE Unmoved == UNCHANGED <<queue, inbox, fate, sent>>
           Idle == \A d \in Consumers : pc'[d] # pc[d] =>
                     {pc[d], pc'[d]} \cap {"handle", "republish"} = {}
<1>i. Unmoved /\ UNCHANGED <<hand, at>> /\ Idle => Quiet /\ Onward
  <2> SUFFICES ASSUME Unmoved, UNCHANGED <<hand, at>>, Idle  PROVE  Quiet /\ Onward
    OBVIOUS
  <2>1. \A d \in Consumers : /\ pc'[d] = "handle" <=> pc[d] = "handle"
                             /\ pc'[d] = "republish" => pc[d] = "republish"
    OBVIOUS
  <2>2. Quiet
    BY <2>1 DEF Quiet, HandOf
  <2>3. \A d \in Consumers : at[d] \in Nat
    BY DEF Types
  <2>4. \A d \in Consumers : at'[d] >= at[d]
    BY <2>3
  <2> QED  BY <2>1, <2>2, <2>4 DEF Onward, Republishes
<1>1. CASE OpenInflux(c)
  BY <1>1, <1>i DEF OpenInflux, Goes, Types, work, fate, world
<1>2. CASE nta_amqp_open(c)
  BY <1>2, <1>i DEF nta_amqp_open, AfterOpen, Goes, Types, work, fate, world
<1>3. CASE OpenStops(c)
  BY <1>3, <1>i DEF OpenStops, Goes, Types, work, fate, world
<1>4. CASE DeclareNarrator(c)
  BY <1>4, <1>i DEF DeclareNarrator, Goes, Types, work, fate, world
<1>5. CASE Subscribe(c)
  BY <1>5, <1>i DEF Subscribe, Goes, Types, work, fate, world
<1>6. CASE LoopStops(c)
  BY <1>6, <1>i DEF LoopStops, Goes, Types, work, fate, world
<1>7. CASE LoopError(c)
  BY <1>7, <1>i DEF LoopError, Goes, Types, work, fate, world
<1>8. CASE SkipEvent(c)
  <2>1. Unmoved
    BY <1>8 DEF SkipEvent, fate, world
  <2>2. \A d \in Consumers : HandOf(d)' = HandOf(d)
    BY <1>8 DEF SkipEvent, NextEvent, HandlerEnds, Goes, HandOf, Types
  <2>3. \A d \in Consumers : at[d] \in Nat
    BY DEF Types
  <2>4. \A d \in Consumers :
          pc'[d] = "republish" => /\ pc[d] = "republish" /\ hand'[d] = hand[d]
                                  /\ at'[d] = at[d] \/ at'[d] = at[d] + 1
    BY <1>8 DEF SkipEvent, NextEvent, HandlerEnds, Goes, Types
  <2>5. Onward
    BY <2>3, <2>4 DEF Onward, Republishes
  <2> QED  BY <2>1, <2>2, <2>5 DEF Quiet
<1>9. CASE OpenHangs(c)
  BY <1>9, <1>i DEF OpenHangs, Goes, Types, work, fate
<1>10. CASE OpenFails(c)
  BY <1>10, <1>i DEF OpenFails, Goes, Types, work, fate, world
<1> QED  BY <1>1, <1>2, <1>3, <1>4, <1>5, <1>6, <1>7, <1>8, <1>9, <1>10

LEMMA QuietWorld ==
  ASSUME Types,
         \/ \E c \in Consumers : ScaleDown(c) \/ ScaleUp(c) \/ LinkBreaks(c) \/ LinkShows(c)
         \/ Signal \/ BrokerDown \/ BrokerUp
  PROVE  Quiet /\ Onward
<1>1. UNCHANGED <<queue, inbox, fate, sent, hand, at>>
  BY DEF ScaleDown, ScaleUp, LinkBreaks, LinkShows, Signal, BrokerDown, BrokerUp, work, fate, world
<1>2. \A d \in Consumers : /\ pc'[d] = "handle" <=> pc[d] = "handle"
                           /\ pc'[d] = "republish" => pc[d] = "republish"
  BY DEF ScaleDown, ScaleUp, LinkBreaks, LinkShows, Signal, BrokerDown, BrokerUp, Goes, Types
<1>3. Quiet
  BY <1>1, <1>2 DEF Quiet, HandOf
<1>4. \A d \in Consumers : at'[d] >= at[d]
  BY <1>1 DEF Types
<1> QED  BY <1>1, <1>2, <1>3, <1>4 DEF Onward, Republishes
-----------------------------------------------------------------------------
(***************************************************************************)
(* Steps that move messages.                                               *)
(***************************************************************************)
LEMMA TakenKept ==
  ASSUME Types, Types', OnePlace, Sharing, Accounted, NEW c \in Consumers, LoopTakes(c)
  PROVE  OnePlace' /\ Sharing' /\ Accounted'
<1> DEFINE m == Head(inbox[c])  a == <<"inbox", c>>  b == <<"hand", c>>
<1>1. inbox[c] \in Seq(Messages) /\ inbox[c] # <<>> /\ Distinct(inbox[c])
  BY DEF LoopTakes, Types, OnePlace
<1>2. /\ m \in Range(inbox[c]) /\ Range(Tail(inbox[c])) = Range(inbox[c]) \ {m}
      /\ Distinct(Tail(inbox[c]))
  BY <1>1, TailOfQueue
<1>3. /\ UNCHANGED <<queue, fate, sent, at>> /\ pc[c] = "loop"
      /\ hand' = [hand EXCEPT ![c] = m]
      /\ inbox' = [inbox EXCEPT ![c] = Tail(inbox[c])]
      /\ pc' = [pc EXCEPT ![c] = "handle"]
  BY DEF LoopTakes, Goes, world
<1> HIDE DEF m
<1>4. Held'[a] = Held[a] \ {m} /\ m \in Held[a]
  BY <1>2, <1>3, HeldBefore, HeldAfter DEF Types
<1>5. Held'[b] = Held[b] \cup {m}
  <2>1. HandOf(c) = {} /\ HandOf(c)' = {m}
    BY <1>3 DEF HandOf, Types
  <2> QED  BY <2>1, HeldBefore, HeldAfter
<1>6. ASSUME NEW h \in Holders \ {a, b}  PROVE  Held'[h] = Held[h]
  <2>1. \A d \in Consumers : d # c => HandOf(d)' = HandOf(d)
    BY <1>3 DEF HandOf, Types
  <2>2. \A d \in Consumers : d # c => inbox'[d] = inbox[d]
    BY <1>3 DEF Types
  <2>3. CASE \E d \in Consumers : h = <<"hand", d>>
    <3>1. PICK d \in Consumers : h = <<"hand", d>>
      BY <2>3
    <3>2. d # c
      BY <3>1
    <3> QED  BY <2>1, <3>1, <3>2, HeldBefore, HeldAfter
  <2>4. CASE ~ \E d \in Consumers : h = <<"hand", d>>
    BY <1>3, <2>2, <2>4, HolderNames, HeldBefore, HeldAfter DEF fate
  <2> QED  BY <2>3, <2>4
<1>7. Known(Held') = Known(Held) /\ (Apart(Held) => Apart(Held'))
  <2>1. a \in Holders /\ b \in Holders /\ a # b
    BY HolderNames
  <2> HIDE DEF a, b
  <2> QED  BY <1>4, <1>5, <1>6, <2>1, MessageMoved
<1>8. \A d \in Consumers : Distinct(inbox'[d])
  BY <1>2, <1>3 DEF OnePlace, Types
<1>9. OnePlace'
  BY <1>3, <1>7, <1>8 DEF OnePlace
<1>10. Onward
  BY <1>3 DEF Onward, Republishes, Types
<1> QED  BY <1>3, <1>7, <1>9, <1>10, BooksKept DEF fate

\* The broker writes a message to a consumer's connection.
LEMMA DeliveredKept ==
  ASSUME Types, Types', OnePlace, Sharing, Accounted, NEW c \in Consumers, Deliver(c)
  PROVE  OnePlace' /\ Sharing' /\ Accounted'
<1> DEFINE q == Role[c]  m == Head(queue[q])  a == <<"queue", q>>  b == <<"inbox", c>>
<1>0. q \in Queues
  BY RoleAssumption
<1>1. queue[q] \in Seq(Messages) /\ queue[q] # <<>> /\ Distinct(queue[q])
  BY <1>0 DEF Deliver, Types, OnePlace
<1>2. /\ m \in Range(queue[q]) /\ m \in Messages
      /\ Range(Tail(queue[q])) = Range(queue[q]) \ {m} /\ Distinct(Tail(queue[q]))
  BY <1>1, TailOfQueue
<1>3. /\ UNCHANGED <<pc, hand, at, fate, sent>>
      /\ queue' = [queue EXCEPT ![q] = Tail(queue[q])]
      /\ inbox' = [inbox EXCEPT ![c] = Append(inbox[c], m)]
  BY DEF Deliver, world
<1> HIDE DEF m
<1>t. a \in Holders /\ b \in Holders /\ a # b
  BY <1>0, HolderNames
<1>4. Held'[a] = Held[a] \ {m} /\ m \in Held[a]
  BY <1>0, <1>2, <1>3, HeldBefore, HeldAfter DEF Types
<1>5. m \notin Range(inbox[c])
  <2>1. m \notin Held[b]
    <3> HIDE DEF a, b
    <3> QED  BY <1>4, <1>t DEF OnePlace, Apart
  <2> QED  BY <2>1, HeldBefore
<1>6. /\ Range(Append(inbox[c], m)) = Range(inbox[c]) \cup {m}
      /\ Distinct(Append(inbox[c], m))
  <2>1. inbox[c] \in Seq(Messages) /\ Distinct(inbox[c])
    BY DEF Types, OnePlace
  <2> QED  BY <1>2, <1>5, <2>1, QueueAppended
<1>7. Held'[b] = Held[b] \cup {m}
  BY <1>3, <1>6, HeldBefore, HeldAfter DEF Types
<1>8. ASSUME NEW h \in Holders \ {a, b}  PROVE  Held'[h] = Held[h]
  <2>1. \A d \in Consumers : HandOf(d)' = HandOf(d)
    BY <1>3 DEF HandOf
  <2>2. \A d \in Consumers : d # c => inbox'[d] = inbox[d]
    BY <1>3 DEF Types
  <2>3. \A r \in Queues : r # q => queue'[r] = queue[r]
    BY <1>3 DEF Types
  <2> HIDE DEF q
  <2> QED  BY <1>3, <2>1, <2>2, <2>3, HolderNames, HeldBefore, HeldAfter DEF fate
<1>9. Known(Held') = Known(Held) /\ (Apart(Held) => Apart(Held'))
  <2> HIDE DEF a, b
  <2> QED  BY <1>4, <1>7, <1>8, <1>t, MessageMoved
<1>10. /\ \A d \in Consumers : Distinct(inbox'[d])
       /\ \A r \in Queues : Distinct(queue'[r])
  BY <1>2, <1>3, <1>6 DEF OnePlace, Types
<1>11. OnePlace'
  BY <1>9, <1>10 DEF OnePlace
<1>12. Onward
  BY <1>3 DEF Onward, Republishes, Types
<1> QED  BY <1>3, <1>9, <1>11, <1>12, BooksKept DEF fate

\* A message leaves a handler for the fate f.
Settles(c, f) ==
  /\ pc[c] = "handle" /\ hand[c] \in Messages
  /\ pc'[c] # "handle" /\ \A d \in Consumers \ {c} : pc'[d] = pc[d] /\ hand'[d] = hand[d]
  /\ UNCHANGED <<queue, inbox, lost, unroutable>>
  /\ \/ f = 1 /\ done' = done \cup {hand[c]} /\ UNCHANGED discarded
     \/ f = 2 /\ discarded' = discarded \cup {hand[c]} /\ UNCHANGED done

LEMMA SettledKept ==
  ASSUME OnePlace, NEW c \in Consumers, NEW f \in {1, 2}, Settles(c, f)
  PROVE  OnePlace' /\ Known(Held') = Known(Held)
<1> DEFINE m == hand[c]  a == <<"hand", c>>  b == <<"fate", f>>
<1>t. a \in Holders /\ b \in Holders /\ a # b
  <2>1. f \in 1 .. 4
    OBVIOUS
  <2> QED  BY <2>1, HolderNames
<1>1. HandOf(c) = {m} /\ HandOf(c)' = {}
  BY DEF Settles, HandOf
<1>2. Held'[a] = Held[a] \ {m} /\ m \in Held[a]
  BY <1>1, HeldBefore, HeldAfter
<1>3. Held'[b] = Held[b] \cup {m}
  BY HeldBefore, HeldAfter DEF Settles
<1>4. ASSUME NEW h \in Holders \ {a, b}  PROVE  Held'[h] = Held[h]
  <2>1. ASSUME NEW d \in Consumers, d # c  PROVE  HandOf(d)' = HandOf(d)
    BY <2>1 DEF HandOf, Settles
  <2>2. CASE f = 1
    BY <2>1, <2>2, HolderNames, HeldBefore, HeldAfter DEF Settles
  <2>3. CASE f = 2
    BY <2>1, <2>3, HolderNames, HeldBefore, HeldAfter DEF Settles
  <2> QED  BY <2>2, <2>3
<1>5. Known(Held') = Known(Held) /\ (Apart(Held) => Apart(Held'))
  <2> HIDE DEF a, b, m
  <2> QED  BY <1>2, <1>3, <1>4, <1>t, MessageMoved
<1>6. OnePlace'
  BY <1>5 DEF OnePlace, Settles
<1> QED  BY <1>5, <1>6

LEMMA HandledKept ==
  ASSUME Types, Types', Handed, OnePlace, Sharing, Accounted, NEW c \in Consumers,
         \/ TrafficFails(c) \/ NarratorSilent(c) \/ ReportHandled(c)
         \/ TrafficWritten(c) /\ ~MayTrigger(c)
  PROVE  OnePlace' /\ Sharing' /\ Accounted'
<1>1. /\ pc[c] = "handle" /\ HandlerEnds(c) /\ UNCHANGED <<queue, inbox, sent, at, lost, unroutable>>
      /\ Written(c) \/ Dropped(c)
  BY DEF TrafficFails, NarratorSilent, ReportHandled, TrafficWritten, Handling, world
<1>2. hand[c] \in Messages
  BY <1>1 DEF Handed
<1>3. /\ pc' = [pc EXCEPT ![c] = "loop"] /\ hand' = [hand EXCEPT ![c] = NoMessage]
  BY <1>1 DEF HandlerEnds, Goes
<1>4. Settles(c, 1) \/ Settles(c, 2)
  BY <1>1, <1>2, <1>3 DEF Settles, Written, Dropped, Types
<1>5. OnePlace' /\ Known(Held') = Known(Held)
  BY <1>4, SettledKept
<1>6. done \subseteq done'
  BY <1>1 DEF Written, Dropped
<1>7. Onward
  BY <1>1, <1>3 DEF Onward, Republishes, Types
<1> QED  BY <1>1, <1>5, <1>6, <1>7, BooksKept
\* A worker writes a message and goes on to its first event.
LEMMA WrittenKept ==
  ASSUME Types, Types', Handed, OnePlace, Sharing, Accounted, NEW c \in Consumers,
         TrafficWritten(c), MayTrigger(c)
  PROVE  OnePlace' /\ Sharing' /\ Accounted'
<1>1. /\ pc[c] = "handle" /\ Role[c] = "traffic" /\ UNCHANGED <<queue, inbox, sent, hand>>
      /\ UNCHANGED <<discarded, lost, unroutable>> /\ done' = done \cup {hand[c]}
      /\ pc' = [pc EXCEPT ![c] = "republish"] /\ at' = [at EXCEPT ![c] = 1]
  BY DEF TrafficWritten, Handling, Written, Goes, world
<1>2. hand[c] \in Messages /\ hand[c][2] = 0
  BY <1>1 DEF Handed
<1>3. Settles(c, 1)
  BY <1>1, <1>2 DEF Settles, Types
<1>4. OnePlace' /\ Known(Held') = Known(Held)
  BY <1>3, SettledKept
<1>5. hand[c] \notin done
  <2>1. hand[c] \in Held[<<"hand", c>>]
    BY <1>1, HeldBefore DEF HandOf
  <2>2. <<"hand", c>> \in Holders /\ <<"fate", 1>> \in Holders /\ <<"hand", c>> # <<"fate", 1>>
    BY HolderNames
  <2>3. hand[c] \notin Held[<<"fate", 1>>]
    BY <2>1, <2>2 DEF OnePlace, Apart
  <2> QED  BY <2>3, HeldBefore
<1>6. \A d \in Consumers : d # c /\ Republishes(d)' =>
        Republishes(d) /\ hand[d] # hand[c] /\ at'[d] = at[d]
  BY <1>1, <1>5 DEF Republishes, Sharing, Types
<1>7. Republishes(c)' /\ at'[c] = 1 /\ 1 \in 1 .. Events
  BY <1>1, BoundsAssumption DEF Republishes, Types, MayTrigger
<1>8. Sharing'
  <2>1. \A d \in Consumers : Republishes(d)' =>
          hand'[d] \in done' /\ hand'[d][2] = 0 /\ at'[d] \in 1 .. Events
    BY <1>1, <1>2, <1>6, <1>7 DEF Sharing
  <2>2. \A d, e \in Consumers :
          Republishes(d)' /\ Republishes(e)' /\ hand'[d] = hand'[e] => d = e
    BY <1>1, <1>6 DEF Sharing
  <2> QED  BY <2>1, <2>2 DEF Sharing
<1>9. ASSUME NEW m \in Messages
      PROVE  /\ m[2] = 0 => (m \in Known(Held') <=> m[1] <= sent')
             /\ m[2] > 0 /\ m \in Known(Held') =>
                  /\ <<m[1], 0>> \in done'
                  /\ \A d \in Consumers :
                       Republishes(d)' /\ hand'[d] = <<m[1], 0>> => at'[d] > m[2]
  <2>1. m[2] = 0 => (m \in Known(Held') <=> m[1] <= sent')
    BY <1>1, <1>4 DEF Accounted
  <2>2. ASSUME m[2] > 0, m \in Known(Held')
        PROVE  /\ <<m[1], 0>> \in done'
               /\ \A d \in Consumers :
                    Republishes(d)' /\ hand'[d] = <<m[1], 0>> => at'[d] > m[2]
    <3>1. /\ <<m[1], 0>> \in done
          /\ \A d \in Consumers : Republishes(d) /\ hand[d] = <<m[1], 0>> => at[d] > m[2]
      BY <1>4, <2>2 DEF Accounted
    <3>2. hand[c] # <<m[1], 0>>
      BY <3>1, <1>5
    <3> QED  BY <1>1, <1>6, <3>1, <3>2
  <2> QED  BY <2>1, <2>2
<1>10. Accounted'
  BY <1>9 DEF Accounted
<1> QED  BY <1>4, <1>8, <1>10

\* What was delivered and not read is lost with the connection.
LEMMA ClosedKept ==
  ASSUME Types, Types', OnePlace, Sharing, Accounted, NEW c \in Consumers, nta_amqp_close(c)
  PROVE  OnePlace' /\ Sharing' /\ Accounted'
<1> DEFINE a == <<"inbox", c>>  b == <<"fate", 3>>
<1>1. /\ pc[c] = "close" /\ UNCHANGED <<queue, sent, hand, at, done, discarded, unroutable>>
      /\ lost' = lost \cup Range(inbox[c]) /\ inbox' = [inbox EXCEPT ![c] = <<>>]
      /\ pc' \in {[pc EXCEPT ![c] = "ended"], [pc EXCEPT ![c] = "open"]}
  BY DEF nta_amqp_close, Goes, world
<1>2. \A d \in Consumers : /\ HandOf(d)' = HandOf(d)
                           /\ Republishes(d)' => Republishes(d)
  BY <1>1 DEF HandOf, Republishes, Types
<1>3. inbox'[c] = <<>> /\ \A d \in Consumers : d # c => inbox'[d] = inbox[d]
  BY <1>1 DEF Types
<1>4. Held'[a] = {}
  BY <1>3, HeldAfter DEF Range
<1>5. Held'[b] = Held[b] \cup Held[a]
  BY <1>1, HeldBefore, HeldAfter
<1>6. ASSUME NEW h \in Holders \ {a, b}  PROVE  Held'[h] = Held[h]
  BY <1>1, <1>2, <1>3, HolderNames, HeldBefore, HeldAfter
<1>7. Known(Held') = Known(Held) /\ (Apart(Held) => Apart(Held'))
  <2>1. a \in Holders /\ b \in Holders /\ a # b
    BY HolderNames
  <2> HIDE DEF a, b
  <2> DEFINE P == {a}
  <2>2. /\ P \in SUBSET Holders /\ b \notin P
        /\ \A h \in P : Held'[h] = {}
        /\ Held'[b] = Held[b] \cup UNION {Held[h] : h \in P}
        /\ \A h \in Holders \ (P \cup {b}) : Held'[h] = Held[h]
    BY <1>4, <1>5, <1>6, <2>1
  <2> HIDE DEF P
  <2> QED  BY <2>1, <2>2, HoldersPoured
<1>8. Distinct(<<>>)
  BY DEF Distinct
<1>9. OnePlace'
  BY <1>1, <1>3, <1>7, <1>8 DEF OnePlace
<1>10. Onward
  BY <1>1, <1>2 DEF Onward, Types
<1> QED  BY <1>1, <1>7, <1>9, <1>10, BooksKept

\* A crash loses what was delivered, read or not, and not yet handled.
LEMMA CrashKept ==
  ASSUME Types, Types', OnePlace, Sharing, Accounted, Crash
  PROVE  OnePlace' /\ Sharing' /\ Accounted'
<1> DEFINE Inboxes == {<<"inbox", c>> : c \in Consumers}
           Hands == {<<"hand", c>> : c \in Consumers}
           P == Inboxes \cup Hands  b == <<"fate", 3>>
<1>1. /\ UNCHANGED <<queue, sent, done, discarded, unroutable>>
      /\ lost' = lost \cup InInboxes \cup InHandlers
      /\ \A c \in Consumers : inbox'[c] = <<>> /\ pc'[c] = "start"
  BY DEF Crash
<1>2. \A c \in Consumers : Range(inbox'[c]) = {} /\ HandOf(c)' = {} /\ ~Republishes(c)'
  BY <1>1 DEF Range, HandOf, Republishes
<1>3. \A h \in P : Held'[h] = {}
  BY <1>2, HeldAfter
<1>4. Held'[b] = Held[b] \cup UNION {Held[h] : h \in P}
  <2>1. UNION {Held[h] : h \in P} = InInboxes \cup InHandlers
    <3> DEFINE U == UNION {Held[h] : h \in P}
    <3>1. ASSUME NEW m \in U  PROVE  m \in InInboxes \cup InHandlers
      <4>1. PICK h \in P : m \in Held[h]
        OBVIOUS
      <4>2. PICK c \in Consumers : h = <<"inbox", c>> \/ h = <<"hand", c>>
        OBVIOUS
      <4>3. m \in Range(inbox[c]) \/ m \in HandOf(c)
        BY <4>1, <4>2, HeldBefore
      <4>4. ASSUME m \in HandOf(c)  PROVE  m = hand[c] /\ pc[c] = "handle"
        BY <4>4 DEF HandOf
      <4> QED  BY <4>3, <4>4 DEF InInboxes, InHandlers
    <3>2. ASSUME NEW m \in InInboxes  PROVE  m \in U
      <4>1. PICK c \in Consumers : m \in Range(inbox[c])
        BY DEF InInboxes
      <4>2. m \in Held[<<"inbox", c>>] /\ <<"inbox", c>> \in P
        BY <4>1, HeldBefore
      <4> QED  BY <4>2
    <3>3. ASSUME NEW m \in InHandlers  PROVE  m \in U
      <4>1. PICK c \in Consumers : pc[c] = "handle" /\ m = hand[c]
        BY DEF InHandlers
      <4>2. m \in HandOf(c)
        BY <4>1 DEF HandOf
      <4>3. m \in Held[<<"hand", c>>] /\ <<"hand", c>> \in P
        BY <4>2, HeldBefore
      <4> QED  BY <4>3
    <3> HIDE DEF U
    <3>4. U = InInboxes \cup InHandlers
      BY <3>1, <3>2, <3>3
    <3> QED  BY <3>4 DEF U
  <2> QED  BY <1>1, <2>1, HeldBefore, HeldAfter
<1>5. ASSUME NEW h \in Holders \ (P \cup {b})  PROVE  Held'[h] = Held[h]
  BY <1>1, HolderNames, HeldBefore, HeldAfter
<1>6. P \in SUBSET Holders /\ b \in Holders /\ b \notin P
  BY HolderNames
<1>7. Known(Held') = Known(Held) /\ (Apart(Held) => Apart(Held'))
  <2> HIDE DEF P, b
  <2> QED  BY <1>3, <1>4, <1>5, <1>6, HoldersPoured
<1>8. Distinct(<<>>)
  BY DEF Distinct
<1>9. OnePlace'
  BY <1>1, <1>7, <1>8 DEF OnePlace
<1>10. Onward
  BY <1>2 DEF Onward
<1> QED  BY <1>1, <1>7, <1>9, <1>10, BooksKept
LEMMA SentKept ==
  ASSUME Types, Types', OnePlace, Sharing, Accounted,
         NEW q \in Range(Role) \ {"narrator"}, AgentSends(q)
  PROVE  OnePlace' /\ Sharing' /\ Accounted'
<1> DEFINE m == <<sent + 1, 0>>  b == <<"queue", q>>
<1>0. q \in Queues /\ b \in Holders /\ queue[q] \in Seq(Messages)
  BY RoleAssumption, HolderNames DEF Range, Types
<1>1. /\ UNCHANGED <<inbox, pc, hand, at, fate>> /\ sent' = sent + 1
      /\ queue' = [queue EXCEPT ![q] = Append(queue[q], m)]
  BY DEF AgentSends, work
<1>2. m \in Messages
  BY BoundsAssumption DEF AgentSends, Types, Messages
<1>3. m \notin Known(Held)
  <2>1. m \in Known(Held) => sent + 1 <= sent
    BY <1>2 DEF Accounted
  <2> QED  BY <2>1 DEF Types
<1>d. m[1] = sent + 1 /\ m[2] = 0
  OBVIOUS
<1>e. \A n \in Messages : n[2] = 0 /\ n[1] = sent + 1 => n = m
  BY DEF Messages
<1> HIDE DEF m
<1>4. m \notin Range(queue[q])
  <2>1. m \notin Held[b]
    <3> HIDE DEF b
    <3> QED  BY <1>0, <1>2, <1>3 DEF Known
  <2> QED  BY <1>0, <2>1, HeldBefore
<1>5. /\ Range(Append(queue[q], m)) = Range(queue[q]) \cup {m}
      /\ Distinct(Append(queue[q], m))
  BY <1>0, <1>2, <1>4, QueueAppended DEF OnePlace
<1>6. Held'[b] = Held[b] \cup {m}
  BY <1>0, <1>1, <1>5, HeldBefore, HeldAfter DEF Types
<1>7. \A c \in Consumers : HandOf(c)' = HandOf(c) /\ (Republishes(c)' <=> Republishes(c))
  BY <1>1 DEF HandOf, Republishes
<1>8. ASSUME NEW h \in Holders \ {b}  PROVE  Held'[h] = Held[h]
  <2>1. \A r \in Queues : r # q => queue'[r] = queue[r]
    BY <1>1 DEF Types
  <2> QED  BY <1>1, <1>7, <2>1, HolderNames, HeldBefore, HeldAfter DEF fate
<1>9. Known(Held') = Known(Held) \cup {m} /\ (Apart(Held) => Apart(Held'))
  <2> HIDE DEF b
  <2> QED  BY <1>0, <1>2, <1>3, <1>6, <1>8, MessageAdded
<1>10. OnePlace'
  <2>1. \A r \in Queues : Distinct(queue'[r])
    BY <1>1, <1>5 DEF OnePlace, Types
  <2> QED  BY <1>1, <1>9, <2>1 DEF OnePlace
<1>11. Onward /\ done \subseteq done'
  BY <1>1, <1>7 DEF Onward, Types, fate
<1>12. Sharing'
  BY <1>11, SharingKept
<1>13. ASSUME NEW n \in Messages
       PROVE  /\ n[2] = 0 => (n \in Known(Held') <=> n[1] <= sent')
              /\ n[2] > 0 /\ n \in Known(Held') =>
                   /\ <<n[1], 0>> \in done'
                   /\ \A c \in Consumers :
                        Republishes(c)' /\ hand'[c] = <<n[1], 0>> => at'[c] > n[2]
  <2>1. ASSUME n[2] = 0  PROVE  n \in Known(Held') <=> n[1] <= sent'
    <3>1. n \in Known(Held) <=> n[1] <= sent
      BY <2>1 DEF Accounted
    <3>2. n = m <=> n[1] = sent + 1
      BY <2>1, <1>d, <1>e
    <3>3. n[1] \in Nat /\ sent \in Nat
      BY DEF Messages, Types
    <3>4. n[1] <= sent + 1 <=> n[1] <= sent \/ n[1] = sent + 1
      BY <3>3
    <3> QED  BY <3>1, <3>2, <3>4, <1>1, <1>9
  <2>2. ASSUME n[2] > 0, n \in Known(Held')  PROVE  n \in Known(Held)
    <3>1. n # m
      BY <2>2, <1>d
    <3> QED  BY <2>2, <3>1, <1>9
  <2> QED  BY <2>1, <2>2, <1>11, EventsKept
<1>14. Accounted'
  BY <1>13 DEF Accounted
<1> QED  BY <1>10, <1>12, <1>14

\* A worker sends an event on its way.
LEMMA RepublishedKept ==
  ASSUME Types, Types', OnePlace, Sharing, Accounted, NEW c \in Consumers, RepublishEvent(c)
  PROVE  OnePlace' /\ Sharing' /\ Accounted'
<1> DEFINE e == <<hand[c][1], at[c]>>  nq == queue["narrator"]
<1>1. /\ Republishes(c) /\ pc[c] = "republish" /\ NextEvent(c)
      /\ UNCHANGED <<inbox, sent, done, discarded>>
      /\ \/ /\ queue' = [queue EXCEPT !["narrator"] = Append(nq, e)]
            /\ UNCHANGED <<lost, unroutable>>
         \/ queue' = queue /\ unroutable' = unroutable \cup {e} /\ lost' = lost
         \/ queue' = queue /\ unroutable' = unroutable /\ lost' = lost \cup {e}
  BY DEF RepublishEvent, Republishes, Arrival, world
<1>2. /\ hand[c] \in done /\ hand[c] \in Messages /\ hand[c][2] = 0
      /\ at[c] \in 1 .. Events /\ at[c] \in Nat
  BY <1>1 DEF Sharing, Types
<1>3. e \in Messages /\ e[1] = hand[c][1] /\ e[2] = at[c] /\ e[2] > 0 /\ <<e[1], 0>> = hand[c]
  BY <1>2, BoundsAssumption DEF Messages
<1>4. e \notin Known(Held)
  <2> HIDE DEF e
  <2>1. e \in Known(Held) => at[c] > e[2]
    BY <1>1, <1>3 DEF Accounted
  <2>2. ~(at[c] > e[2])
    BY <1>2, <1>3
  <2> QED  BY <2>1, <2>2
<1> HIDE DEF e
<1>h. "narrator" \in Queues /\ <<"queue", "narrator">> \in Holders /\ nq \in Seq(Messages)
  BY HolderNames DEF Queues, Types
<1>5. e \notin Range(nq)
  <2>1. e \notin Held[<<"queue", "narrator">>]
    BY <1>h, <1>3, <1>4 DEF Known
  <2> QED  BY <1>h, <2>1, HeldBefore
<1>6. Range(Append(nq, e)) = Range(nq) \cup {e} /\ Distinct(Append(nq, e))
  <2>1. Distinct(nq)
    BY <1>h DEF OnePlace
  <2>2. e \in Messages /\ nq \in Seq(Messages)
    BY <1>h, <1>3
  <2> HIDE DEF nq
  <2> QED  BY <1>5, <2>1, <2>2, QueueAppended
<1>7. \A d \in Consumers : HandOf(d)' = HandOf(d)
  BY <1>1 DEF NextEvent, HandlerEnds, Goes, HandOf, Types
<1>8. \A d \in Consumers : Republishes(d)' =>
        /\ Republishes(d) /\ hand'[d] = hand[d]
        /\ at'[d] = IF d = c THEN at[d] + 1 ELSE at[d]
  BY <1>1 DEF NextEvent, HandlerEnds, Goes, Republishes, Types
<1>9. Onward
  <2>1. \A d \in Consumers : at[d] \in Nat
    BY DEF Types
  <2> QED  BY <1>8, <2>1 DEF Onward
<1>10. PICK b \in Holders : /\ Held'[b] = Held[b] \cup {e}
                            /\ \A h \in Holders \ {b} : Held'[h] = Held[h]
  <2>1. CASE /\ queue' = [queue EXCEPT !["narrator"] = Append(nq, e)]
             /\ UNCHANGED <<lost, unroutable>>
    <3> DEFINE b == <<"queue", "narrator">>
    <3>1. queue'["narrator"] = Append(nq, e)
          /\ \A r \in Queues : r # "narrator" => queue'[r] = queue[r]
      BY <2>1, <1>h DEF Types
    <3>2. Held'[b] = Held[b] \cup {e}
      BY <1>h, <1>6, <3>1, HeldBefore, HeldAfter
    <3>3. ASSUME NEW h \in Holders \ {b}  PROVE  Held'[h] = Held[h]
      <4>1. CASE \E r \in Queues : h = <<"queue", r>>
        <5>1. PICK r \in Queues : h = <<"queue", r>> /\ r # "narrator"
          BY <4>1
        <5> QED  BY <3>1, <5>1, HeldBefore, HeldAfter
      <4>2. CASE ~ \E r \in Queues : h = <<"queue", r>>
        <5>1. UNCHANGED <<inbox, done, discarded, lost, unroutable>>
          BY <1>1, <2>1
        <5> QED  BY <1>7, <4>2, <5>1, HolderNames, HeldBefore, HeldAfter
      <4> QED  BY <4>1, <4>2
    <3> QED  BY <1>h, <3>2, <3>3
  <2>2. CASE queue' = queue /\ unroutable' = unroutable \cup {e} /\ lost' = lost
    <3> DEFINE b == <<"fate", 4>>
    <3>1. b \in Holders /\ Held'[b] = Held[b] \cup {e}
      BY <2>2, HolderNames, HeldBefore, HeldAfter
    <3>2. ASSUME NEW h \in Holders \ {b}  PROVE  Held'[h] = Held[h]
      BY <1>1, <1>7, <2>2, HolderNames, HeldBefore, HeldAfter
    <3> QED  BY <3>1, <3>2
  <2>3. CASE queue' = queue /\ unroutable' = unroutable /\ lost' = lost \cup {e}
    <3> DEFINE b == <<"fate", 3>>
    <3>1. b \in Holders /\ Held'[b] = Held[b] \cup {e}
      BY <2>3, HolderNames, HeldBefore, HeldAfter
    <3>2. ASSUME NEW h \in Holders \ {b}  PROVE  Held'[h] = Held[h]
      BY <1>1, <1>7, <2>3, HolderNames, HeldBefore, HeldAfter
    <3> QED  BY <3>1, <3>2
  <2> QED  BY <1>1, <2>1, <2>2, <2>3
<1>11. Known(Held') = Known(Held) \cup {e} /\ (Apart(Held) => Apart(Held'))
  BY <1>3, <1>4, <1>10, MessageAdded
<1>12. OnePlace'
  <2>1. \A r \in Queues : Distinct(queue'[r])
    BY <1>1, <1>6 DEF OnePlace, Types
  <2> QED  BY <1>1, <1>11, <2>1 DEF OnePlace
<1>13. Sharing'
  BY <1>1, <1>9, SharingKept
<1>14. ASSUME NEW m \in Messages
       PROVE  /\ m[2] = 0 => (m \in Known(Held') <=> m[1] <= sent')
              /\ m[2] > 0 /\ m \in Known(Held') =>
                   /\ <<m[1], 0>> \in done'
                   /\ \A d \in Consumers :
                        Republishes(d)' /\ hand'[d] = <<m[1], 0>> => at'[d] > m[2]
  <2>1. CASE m = e
    <3>1. ~(m[2] = 0) /\ <<m[1], 0>> = hand[c] /\ m[2] = at[c]
      BY <2>1, <1>2, <1>3
    <3>2. <<m[1], 0>> \in done'
      BY <3>1, <1>1, <1>2
    <3>3. ASSUME NEW d \in Consumers, Republishes(d)', hand'[d] = hand[c]
          PROVE  at'[d] > at[c]
      <4>1. Republishes(d) /\ hand[d] = hand[c]
        BY <3>3, <1>8
      <4>2. d = c
        BY <4>1, <1>1 DEF Sharing
      <4>3. at'[d] = at[c] + 1
        BY <3>3, <4>2, <1>8
      <4> QED  BY <4>3, <1>2
    <3> QED  BY <3>1, <3>2, <3>3
  <2>2. CASE m # e
    <3>1. m \in Known(Held') <=> m \in Known(Held)
      BY <2>2, <1>11
    <3>2. m[2] = 0 => (m \in Known(Held') <=> m[1] <= sent')
      BY <3>1, <1>1 DEF Accounted
    <3>3. done \subseteq done'
      BY <1>1
    <3> QED  BY <3>1, <3>2, <3>3, <1>9, EventsKept
  <2> QED  BY <2>1, <2>2
<1>15. Accounted'
  BY <1>14 DEF Accounted
<1> QED  BY <1>12, <1>13, <1>15
-----------------------------------------------------------------------------
(***************************************************************************)
(* The invariant.                                                          *)
(***************************************************************************)
LEMMA InitOK ==
  ASSUME Init
  PROVE  IInv
<1> USE DEF Init
<1>1. Types
  <2>1. <<>> \in Seq(Messages)
    BY EmptySeq
  <2>2. 0 \in 0 .. Events /\ 0 \in 0 .. MaxFaults /\ 0 \in 0 .. MaxMessages
    BY BoundsAssumption
  <2> QED  BY <2>1, <2>2 DEF Types, Places, Conns
<1>2. Gauged
  <2>1. Linked = {}
    BY DEF Linked
  <2> QED  BY <2>1, FS_EmptySet DEF Gauged
<1>3. Handed
  BY DEF Handed, Range
<1>4. Sharing
  BY DEF Sharing, Republishes
<1>5. \A h \in Holders : Held[h] = {}
  <2>1. (\A q \in Queues : Range(queue[q]) = {}) /\ \A c \in Consumers : Range(inbox[c]) = {}
    BY DEF Range
  <2>2. \A c \in Consumers : HandOf(c) = {}
    BY DEF HandOf
  <2> QED  BY <2>1, <2>2, HolderNames, HeldBefore
<1>6. OnePlace
  BY <1>5 DEF OnePlace, Apart, Distinct
<1>7. Accounted
  <2>1. Known(Held) = {}
    BY <1>5 DEF Known
  <2>2. \A m \in Messages : ~(m[1] <= 0)
    BY BoundsAssumption DEF Messages
  <2> QED  BY <2>1, <2>2 DEF Accounted
<1> QED  BY <1>1, <1>2, <1>3, <1>4, <1>6, <1>7 DEF IInv

LEMMA NextOK ==
  ASSUME IInv, [Next]_vars
  PROVE  IInv'
<1> USE DEF IInv
<1> DEFINE Kept == OnePlace' /\ Sharing' /\ Accounted'
<1>1. ASSUME NEW c \in Consumers, Thread(c)  PROVE  IInv'
  <2>1. Types'
    BY <1>1, ThreadTyped, HandlerTyped DEF Thread
  <2>2. Gauged' /\ Handed'
    BY <1>1, ThreadGauged, ThreadHanded
  <2>3. CASE \/ OpenInflux(c) \/ nta_amqp_open(c) \/ OpenHangs(c) \/ OpenFails(c)
             \/ OpenStops(c) \/ DeclareNarrator(c) \/ Subscribe(c) \/ LoopStops(c) \/ LoopError(c) \/ SkipEvent(c)
    BY <2>1, <2>2, <2>3, QuietThreads, QuietKept
  <2>4. CASE LoopTakes(c)
    BY <2>1, <2>2, <2>4, TakenKept
  <2>5. CASE \/ TrafficFails(c) \/ NarratorSilent(c) \/ ReportHandled(c)
             \/ TrafficWritten(c) /\ ~MayTrigger(c)
    BY <2>1, <2>2, <2>5, HandledKept
  <2>6. CASE TrafficWritten(c) /\ MayTrigger(c)
    BY <2>1, <2>2, <2>6, WrittenKept
  <2>7. CASE RepublishEvent(c)
    BY <2>1, <2>2, <2>7, RepublishedKept
  <2>8. CASE nta_amqp_close(c)
    BY <2>1, <2>2, <2>8, ClosedKept
  <2> QED  BY <1>1, <2>3, <2>4, <2>5, <2>6, <2>7, <2>8 DEF Thread
<1>2. ASSUME \/ \E c \in Consumers :
                  Deliver(c) \/ ScaleDown(c) \/ ScaleUp(c) \/ LinkBreaks(c) \/ LinkShows(c)
             \/ \E q \in Range(Role) \ {"narrator"} : AgentSends(q)
             \/ Signal \/ BrokerDown \/ BrokerUp \/ Crash
      PROVE  IInv'
  <2>1. Types' /\ Gauged' /\ Handed'
    BY <1>2, WorldTyped, WorldGauged, WorldHanded
  <2>2. CASE \E c \in Consumers : Deliver(c)
    BY <2>1, <2>2, DeliveredKept
  <2>3. CASE \/ \E c \in Consumers : ScaleDown(c) \/ ScaleUp(c) \/ LinkBreaks(c) \/ LinkShows(c)
             \/ Signal \/ BrokerDown \/ BrokerUp
    <3>1. Quiet /\ Onward
      BY <2>3, QuietWorld
    <3> QED  BY <2>1, <3>1, QuietKept
  <2>4. CASE \E q \in Range(Role) \ {"narrator"} : AgentSends(q)
    BY <2>1, <2>4, SentKept
  <2>5. CASE Crash
    BY <2>1, <2>5, CrashKept
  <2> QED  BY <1>2, <2>2, <2>3, <2>4, <2>5
<1>3. CASE UNCHANGED vars
  <2>1. UNCHANGED <<queue, declared, conn, gauge, pc, rc, canNarrate, inbox, hand, at, stop,
                    wstop, broker, faults, sent, done, discarded, lost, unroutable>>
    BY <1>3 DEF vars, link, locals, work, stops, world, fate
  <2>2. Types'
    BY <2>1 DEF Types
  <2>3. Gauged'
    BY <2>1 DEF Gauged, Linked
  <2>4. Handed'
    BY <2>1 DEF Handed
  <2>5. Quiet /\ Onward
    BY <2>1 DEF Quiet, HandOf, Onward, Republishes, fate, Types
  <2> QED  BY <2>2, <2>3, <2>4, <2>5, QuietKept
<1> QED  BY <1>1, <1>2, <1>3 DEF Next

\* The whereabouts of a message are positions in what its holder holds.
LEMMA WhereHeld ==
  ASSUME NEW m
  PROVE  /\ \A x \in Whereabouts(m) :
              /\ x = <<x[1], x[2], x[3]>> /\ <<x[1], x[2]>> \in Holders
              /\ m \in Held[<<x[1], x[2]>>]
              /\ x[1] = "queue" => x[3] \in DOMAIN queue[x[2]] /\ queue[x[2]][x[3]] = m
              /\ x[1] = "inbox" => x[3] \in DOMAIN inbox[x[2]] /\ inbox[x[2]][x[3]] = m
              /\ x[1] \in {"hand", "fate"} => x[3] = 0
         /\ \A h \in Holders : m \in Held[h] => Whereabouts(m) # {}
<1> DEFINE Fates == <<done, discarded, lost, unroutable>>
           InQueue(q) == {<<"queue", q, i>> : i \in {j \in DOMAIN queue[q] : queue[q][j] = m}}
           InInbox(c) == {<<"inbox", c, i>> : i \in {j \in DOMAIN inbox[c] : inbox[c][j] = m}}
           Q == UNION {InQueue(q) : q \in Queues}
           I == UNION {InInbox(c) : c \in Consumers}
           H == {<<"hand", c, 0>> : c \in {d \in Consumers : pc[d] = "handle" /\ hand[d] = m}}
           F == {<<"fate", f, 0>> : f \in {g \in 1 .. 4 : m \in Fates[g]}}
<1>w. Whereabouts(m) = Q \cup I \cup H \cup F
  BY DEF Whereabouts
<1>q. ASSUME NEW q \in Queues, NEW i \in DOMAIN queue[q], queue[q][i] = m
      PROVE  <<"queue", q, i>> \in Q
  <2>1. <<"queue", q, i>> \in InQueue(q)
    BY <1>q
  <2> QED  BY <2>1
<1>i. ASSUME NEW c \in Consumers, NEW i \in DOMAIN inbox[c], inbox[c][i] = m
      PROVE  <<"inbox", c, i>> \in I
  <2>1. <<"inbox", c, i>> \in InInbox(c)
    BY <1>i
  <2> QED  BY <2>1
<1>1. ASSUME NEW x \in Whereabouts(m)
      PROVE  /\ x = <<x[1], x[2], x[3]>> /\ <<x[1], x[2]>> \in Holders
             /\ m \in Held[<<x[1], x[2]>>]
             /\ x[1] = "queue" => x[3] \in DOMAIN queue[x[2]] /\ queue[x[2]][x[3]] = m
             /\ x[1] = "inbox" => x[3] \in DOMAIN inbox[x[2]] /\ inbox[x[2]][x[3]] = m
             /\ x[1] \in {"hand", "fate"} => x[3] = 0
  <2>2. CASE x \in Q
    <3>1. PICK q \in Queues : x \in InQueue(q)
      BY <2>2
    <3>2. PICK i \in DOMAIN queue[q] : queue[q][i] = m /\ x = <<"queue", q, i>>
      BY <3>1
    <3>3. m \in Held[<<"queue", q>>]
      BY <3>2, HeldBefore DEF Range
    <3> QED  BY <3>2, <3>3, HolderNames
  <2>3. CASE x \in I
    <3>1. PICK c \in Consumers : x \in InInbox(c)
      BY <2>3
    <3>2. PICK i \in DOMAIN inbox[c] : inbox[c][i] = m /\ x = <<"inbox", c, i>>
      BY <3>1
    <3>3. m \in Held[<<"inbox", c>>]
      BY <3>2, HeldBefore DEF Range
    <3> QED  BY <3>2, <3>3, HolderNames
  <2>4. CASE x \in H
    <3>1. PICK c \in Consumers : pc[c] = "handle" /\ hand[c] = m /\ x = <<"hand", c, 0>>
      BY <2>4
    <3>2. m \in Held[<<"hand", c>>]
      BY <3>1, HeldBefore DEF HandOf
    <3> QED  BY <3>1, <3>2, HolderNames
  <2>5. CASE x \in F
    <3>1. PICK f \in 1 .. 4 : m \in Fates[f] /\ x = <<"fate", f, 0>>
      BY <2>5
    <3>2. m \in Held[<<"fate", f>>]
      BY <3>1, HeldBefore
    <3> QED  BY <3>1, <3>2, HolderNames
  <2> HIDE DEF Q, I, H, F
  <2> QED  BY <1>1, <1>w, <2>2, <2>3, <2>4, <2>5
<1>2. ASSUME NEW h \in Holders, m \in Held[h]  PROVE  Whereabouts(m) # {}
  <2>1. CASE \E q \in Queues : h = <<"queue", q>>
    <3>1. PICK q \in Queues : h = <<"queue", q>>
      BY <2>1
    <3>2. PICK i \in DOMAIN queue[q] : queue[q][i] = m
      BY <1>2, <3>1, HeldBefore DEF Range
    <3>3. <<"queue", q, i>> \in Q
      BY <3>2, <1>q
    <3> HIDE DEF Q, I, H, F
    <3> QED  BY <3>3, <1>w
  <2>2. CASE \E c \in Consumers : h = <<"inbox", c>>
    <3>1. PICK c \in Consumers : h = <<"inbox", c>>
      BY <2>2
    <3>2. PICK i \in DOMAIN inbox[c] : inbox[c][i] = m
      BY <1>2, <3>1, HeldBefore DEF Range
    <3>3. <<"inbox", c, i>> \in I
      BY <3>2, <1>i
    <3> HIDE DEF Q, I, H, F
    <3> QED  BY <3>3, <1>w
  <2>3. CASE \E c \in Consumers : h = <<"hand", c>>
    <3>1. PICK c \in Consumers : h = <<"hand", c>>
      BY <2>3
    <3>2. pc[c] = "handle" /\ hand[c] = m
      BY <1>2, <3>1, HeldBefore DEF HandOf
    <3>3. <<"hand", c, 0>> \in H
      BY <3>2
    <3> HIDE DEF Q, I, H, F
    <3> QED  BY <3>3, <1>w
  <2>4. CASE h \in {<<"fate", 1>>, <<"fate", 2>>, <<"fate", 3>>, <<"fate", 4>>}
    <3>1. PICK f \in 1 .. 4 : m \in Fates[f]
      <4>1. \/ 1 \in 1 .. 4 /\ m \in Fates[1]
            \/ 2 \in 1 .. 4 /\ m \in Fates[2]
            \/ 3 \in 1 .. 4 /\ m \in Fates[3]
            \/ 4 \in 1 .. 4 /\ m \in Fates[4]
        BY <1>2, <2>4, HeldBefore
      <4> HIDE DEF Fates
      <4> QED  BY <4>1
    <3>2. <<"fate", f, 0>> \in F
      BY <3>1
    <3> HIDE DEF Q, I, H, F
    <3> QED  BY <3>2, <1>w
  <2> QED  BY <2>1, <2>2, <2>3, <2>4, HolderNames
<1> QED  BY <1>1, <1>2

LEMMA OneFateHolds ==
  ASSUME IInv
  PROVE  OneFate
<1> SUFFICES ASSUME NEW m \in Messages
             PROVE  IF m[2] = 0 THEN Cardinality(Whereabouts(m)) = IF m[1] <= sent THEN 1 ELSE 0
                                ELSE /\ Cardinality(Whereabouts(m)) <= 1
                                     /\ Whereabouts(m) # {} => <<m[1], 0>> \in done
  BY DEF OneFate
<1> DEFINE W == Whereabouts(m)
<1>1. ASSUME NEW x \in W, NEW y \in W  PROVE  x = y
  <2> DEFINE h == <<x[1], x[2]>>  k == <<y[1], y[2]>>
  <2>1. /\ x = <<x[1], x[2], x[3]>> /\ h \in Holders /\ m \in Held[h]
        /\ y = <<y[1], y[2], y[3]>> /\ k \in Holders /\ m \in Held[k]
    BY WhereHeld
  <2>2. h = k
    <3> HIDE DEF h, k
    <3> QED  BY <2>1 DEF IInv, OnePlace, Apart
  <2>3. x[1] = y[1] /\ x[2] = y[2]
    BY <2>2
  <2>4. CASE \E q \in Queues : h = <<"queue", q>>
    <3>1. PICK q \in Queues : h = <<"queue", q>>
      BY <2>4
    <3>n. x[1] = "queue" /\ x[2] = q /\ y[1] = "queue" /\ y[2] = q
      BY <3>1, <2>3
    <3>2. /\ x[3] \in DOMAIN queue[q] /\ queue[q][x[3]] = m
          /\ y[3] \in DOMAIN queue[q] /\ queue[q][y[3]] = m
      <4> HIDE DEF W
      <4>1. \A z \in W : z[1] = "queue" =>
              z[3] \in DOMAIN queue[z[2]] /\ queue[z[2]][z[3]] = m
        BY WhereHeld DEF W
      <4>2. x \in W /\ y \in W
        BY <1>1
      <4> QED  BY <3>n, <4>1, <4>2
    <3>3. DOMAIN queue[q] = 1 .. Len(queue[q]) /\ Distinct(queue[q])
      BY LenProperties DEF IInv, Types, OnePlace
    <3>4. x[3] = y[3]
      BY <3>2, <3>3 DEF Distinct
    <3> QED  BY <2>1, <2>3, <3>4
  <2>5. CASE \E c \in Consumers : h = <<"inbox", c>>
    <3>1. PICK c \in Consumers : h = <<"inbox", c>>
      BY <2>5
    <3>n. x[1] = "inbox" /\ x[2] = c /\ y[1] = "inbox" /\ y[2] = c
      BY <3>1, <2>3
    <3>2. /\ x[3] \in DOMAIN inbox[c] /\ inbox[c][x[3]] = m
          /\ y[3] \in DOMAIN inbox[c] /\ inbox[c][y[3]] = m
      <4> HIDE DEF W
      <4>1. \A z \in W : z[1] = "inbox" =>
              z[3] \in DOMAIN inbox[z[2]] /\ inbox[z[2]][z[3]] = m
        BY WhereHeld DEF W
      <4>2. x \in W /\ y \in W
        BY <1>1
      <4> QED  BY <3>n, <4>1, <4>2
    <3>3. DOMAIN inbox[c] = 1 .. Len(inbox[c]) /\ Distinct(inbox[c])
      BY LenProperties DEF IInv, Types, OnePlace
    <3>4. x[3] = y[3]
      BY <3>2, <3>3 DEF Distinct
    <3> QED  BY <2>1, <2>3, <3>4
  <2>6. CASE h[1] \in {"hand", "fate"}
    <3>1. x[3] = 0 /\ y[3] = 0
      BY <2>6, <2>3, WhereHeld
    <3> QED  BY <2>1, <2>3, <3>1
  <2>7. \/ \E q \in Queues : h = <<"queue", q>>
        \/ \E c \in Consumers : h = <<"inbox", c>>
        \/ h[1] \in {"hand", "fate"}
    <3>1. \A g \in Holders : \/ \E q \in Queues : g = <<"queue", q>>
                             \/ \E c \in Consumers : g = <<"inbox", c>>
                             \/ g[1] \in {"hand", "fate"}
      BY HolderNames
    <3> HIDE DEF h
    <3> QED  BY <2>1, <3>1
  <2> QED  BY <2>4, <2>5, <2>6, <2>7
<1>2. W # {} <=> m \in Known(Held)
  BY WhereHeld DEF Known
<1> HIDE DEF W
<1>3. CASE W = {}
  <2>1. Cardinality(W) = 0
    BY <1>3, FS_EmptySet
  <2>2. m[2] = 0 => ~(m[1] <= sent)
    BY <1>2, <1>3 DEF IInv, Accounted
  <2> QED  BY <1>3, <2>1, <2>2 DEF W
<1>4. CASE W # {}
  <2>1. PICK x \in W : W = {x}
    BY <1>1, <1>4
  <2>2. Cardinality(W) = 1
    BY <2>1, FS_Singleton
  <2>3. m[2] = 0 => m[1] <= sent
    BY <1>2, <1>4 DEF IInv, Accounted
  <2>4. ~(m[2] = 0) => <<m[1], 0>> \in done
    <3>1. m[2] \in 0 .. Events /\ (m[2] > 0 => <<m[1], 0>> \in done)
      BY <1>2, <1>4, BoundsAssumption DEF IInv, Accounted, Messages
    <3> QED  BY <3>1
  <2> QED  BY <2>2, <2>3, <2>4 DEF W
<1> QED  BY <1>3, <1>4

(***************************************************************************)
(* Theorems.                                                               *)
(***************************************************************************)
\* The inductive invariant: no thread, scaler, broker or crash disturbs it.
THEOREM ConsumerInvariant == Spec => []IInv
<1>1. Init => IInv
  BY InitOK
<1>2. IInv /\ [Next]_vars => IInv'
  BY NextOK
<1> QED  BY <1>1, <1>2, PTL DEF Spec

\* Every variable of the consumers keeps to its type.
THEOREM TypeCorrect == Spec => []TypeOK
<1>1. IInv => TypeOK
  <2> SUFFICES ASSUME IInv  PROVE  TypeOK
    OBVIOUS
  <2>1. gauge \in Nat
    <3>1. IsFiniteSet(Linked)
      BY FS_Subset, RoleAssumption DEF Linked
    <3> QED  BY <3>1, FS_CardinalityType DEF IInv, Gauged
  <2> QED  BY <2>1 DEF IInv, Types, TypeOK
<1> QED  BY <1>1, ConsumerInvariant, PTL

\* g_nta_amqp_connected, which /health answers from, counts exactly the threads
\* that are past nta_amqp_open and have not closed: no reconnection, failed
\* subscription or scale-down counts a connection twice or not at all.
THEOREM GaugeCounts == Spec => []Gauged
<1>1. IInv => Gauged
  BY DEF IInv
<1> QED  BY <1>1, ConsumerInvariant, PTL

\* A message of an agent is in one queue, one inbox, one handler or has one fate,
\* from the moment it is sent, and an event goes to the narrator at most once and
\* after its message was written, whatever breaks, stops or crashes.
THEOREM MessagesAccounted == Spec => []OneFate
<1>1. IInv => OneFate
  BY OneFateHolds
<1> QED  BY <1>1, ConsumerInvariant, PTL
=============================================================================

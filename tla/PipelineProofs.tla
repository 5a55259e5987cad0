--------------------------- MODULE PipelineProofs ---------------------------
(***************************************************************************)
(* The pipeline loses nothing, keeps the order of capture, outlives its    *)
(* threads and uses its rings as bounded queues, for rings and batches of  *)
(* every size and any number of packets, signals and outages.              *)
(***************************************************************************)
EXTENDS Pipeline, SequenceTheorems, TLAPS

\* What main knows of the threads: none exists before they are created, and what
\* it has joined has ended.
JoinOrder ==
  /\ mpc = "init" => cpc = "none" /\ apc = "none" /\ ppc = "none" /\ xpc = "none"
  /\ mpc \in {"joinAnalysis", "joinPublish", "stopMetrics", "joinMetrics"} => cpc = "end"
  /\ mpc \in {"joinPublish", "stopMetrics", "joinMetrics"} => apc = "end"
  /\ mpc \in {"stopMetrics", "joinMetrics"} => ppc = "end"

\* The pipeline read from its far end.
Line == sent \o Pending \o evtq \o InHand \o pktq

Increasing(line) == \A i, j \in 1 .. Len(line) : i < j => line[i] < line[j]
UpTo(line, n)    == \A i \in 1 .. Len(line) : line[i] \in 1 .. n

\* Nothing in the line is newer than the newest packet: the next one goes to its end.
Ordered == Increasing(Line) /\ UpTo(Line, arrived)

\* publish_thread begins and ends with an empty batch.
Emptied == ppc \in {"none", "alloc", "end"} => batch = <<>>

IInv == TypeOK /\ JoinOrder /\ ThreadsOutlived /\ NothingVanishes /\ Ordered /\ Emptied

(***************************************************************************)
(* What moves.                                                             *)
(***************************************************************************)
\* The steps that move packets and those that move events.
PacketMoves == CapturePacket \/ AnalysisPop \/ AnalysisSilent \/ AnalysisEvent
EventMoves  == AnalysisEvent \/ PublishPop \/ PublishSend \/ PublishDiscard \/ PublishCountEvents

\* All other steps leave alone where packets are counted,
LEMMA PacketFrame ==
  ASSUME JoinOrder, [Next]_vars, ~PacketMoves
  PROVE  UNCHANGED <<arrived, pktOvf, pktq, InHand, analysed>>
<1> USE DEF InHand
<1> USE DEF flags, rings, counts, capture, analysis, publish, signal, world
<1>1. CASE Main
  BY <1>1 DEF JoinOrder, Main, MainInitFails, MainStart, MainJoinCapture, MainJoinAnalysis,
              MainJoinPublish, MainStopMetrics, MainExit, MainJoin
<1>2. CASE CaptureThread \/ CaptureLoopError
  BY <1>2 DEF CaptureThread, CaptureOpen, CaptureOpenFails, CaptureBreak, CaptureClose,
              CaptureForget, CaptureEnd, CaptureLeaves, CaptureLoopError
<1>4. CASE AnalysisThread
  BY <1>4 DEF AnalysisThread, PacketMoves, AnalysisEmpty, AnalysisCheck, AnalysisEnd
<1>5. CASE PublishThread
  BY <1>5 DEF PublishThread, PublishAlloc, PublishPop, PublishNoPop, PublishCheck, PublishSend,
              PublishRetry, PublishDiscard, PublishCountBatch, PublishCountEvents
<1>6. CASE MetricsThread \/ StopHandler \/ StopRunning
  BY <1>6 DEF MetricsThread, MetricsWake, MetricsSend, MetricsEnd, StopHandler, StopTest,
              StopBreak, StopBreakClosed, StopRunning
<1>7. CASE BatchAges \/ BrokerDown \/ BrokerUp
  BY <1>7 DEF BatchAges, BrokerDown, BrokerUp
<1>8. CASE Ended \/ UNCHANGED vars
  BY <1>8 DEF Ended, vars
<1> QED BY <1>1, <1>2, <1>4, <1>5, <1>6, <1>7, <1>8 DEF Next, PacketMoves

\* and where events are.
LEMMA EventFrame ==
  ASSUME JoinOrder, [Next]_vars, ~EventMoves
  PROVE  UNCHANGED <<emitted, evtOvf, evtq, Pending, sent, skipped, discarded, batch, eventsSent>>
<1> USE DEF Pending
<1> USE DEF flags, rings, counts, capture, analysis, publish, signal, world
<1>1. CASE Main
  BY <1>1 DEF JoinOrder, Main, MainInitFails, MainStart, MainJoinCapture, MainJoinAnalysis,
              MainJoinPublish, MainStopMetrics, MainExit, MainJoin
<1>2. CASE CaptureThread \/ CaptureLoopError
  BY <1>2 DEF CaptureThread, CaptureOpen, CaptureOpenFails, CaptureBreak, CaptureClose,
              CaptureForget, CaptureEnd, CaptureLeaves, CaptureLoopError
<1>3. CASE CapturePacket
  BY <1>3 DEF CapturePacket
<1>4. CASE AnalysisThread
  BY <1>4 DEF AnalysisThread, EventMoves, AnalysisPop, AnalysisSilent, AnalysisEmpty, AnalysisCheck,
              AnalysisEnd
<1>5. CASE PublishThread
  BY <1>5 DEF PublishThread, EventMoves, PublishAlloc, PublishNoPop, PublishCheck, PublishRetry,
              PublishCountBatch
<1>6. CASE MetricsThread \/ StopHandler \/ StopRunning
  BY <1>6 DEF MetricsThread, MetricsWake, MetricsSend, MetricsEnd, StopHandler, StopTest,
              StopBreak, StopBreakClosed, StopRunning
<1>7. CASE BatchAges \/ BrokerDown \/ BrokerUp
  BY <1>7 DEF BatchAges, BrokerDown, BrokerUp
<1>8. CASE Ended \/ UNCHANGED vars
  BY <1>8 DEF Ended, vars
<1> QED BY <1>1, <1>2, <1>3, <1>4, <1>5, <1>6, <1>7, <1>8 DEF Next, EventMoves

(***************************************************************************)
(* Types.                                                                  *)
(***************************************************************************)
FlagsOK ==
  /\ running \in BOOLEAN /\ captureDone \in BOOLEAN /\ analysisDone \in BOOLEAN
  /\ captureError \in BOOLEAN /\ breakFlag \in BOOLEAN
  /\ aged \in BOOLEAN /\ drained \in BOOLEAN
  /\ handle \in {"null", "open", "closed"} /\ broker \in {"up", "down"}

QueuesOK ==
  /\ pktq \in Seq(Nat) /\ Len(pktq) <= Cap /\ evtq \in Seq(Nat) /\ Len(evtq) <= Cap
  /\ batch \in Seq(Nat) /\ Len(batch) <= BatchSize /\ sent \in Seq(Nat)

PlacesOK ==
  /\ mpc \in {"init", "joinCapture", "joinAnalysis", "joinPublish", "stopMetrics",
              "joinMetrics", "exited", "killed"}
  /\ cpc \in {"none", "open", "loop", "close", "null", "done", "end"}
  /\ apc \in {"none", "pop", "analyze", "check", "done", "end"}
  /\ ppc \in {"none", "alloc", "pop", "check", "send", "countBatch", "countEvents", "end"}
  /\ xpc \in {"none", "sleep", "snapshot", "end"} /\ spc \in {"idle", "test", "break"}

NumbersOK ==
  /\ pktOvf \in Nat /\ evtOvf \in Nat /\ batchesSent \in Nat /\ eventsSent \in Nat
  /\ pkt \in Nat /\ outages \in Nat /\ signals \in Nat
  /\ arrived \in Nat /\ analysed \in Nat /\ emitted \in Nat /\ skipped \in Nat
  /\ discarded \in Nat

\* The four parts are the type invariant, in pieces the provers can take one at a time.
LEMMA TypeParts == TypeOK <=> FlagsOK /\ QueuesOK /\ PlacesOK /\ NumbersOK
BY DEF TypeOK, FlagsOK, QueuesOK, PlacesOK, NumbersOK

\* The initial values are of their types.
LEMMA TypeInit == Init => TypeOK
<1> SUFFICES ASSUME Init PROVE TypeOK
  OBVIOUS
<1>1. FlagsOK
  BY DEF Init, FlagsOK
<1>2. QueuesOK
  BY CapAssumption, BatchAssumption, EmptySeq DEF Init, QueuesOK
<1>3. PlacesOK
  BY DEF Init, PlacesOK
<1>4. NumbersOK
  BY DEF Init, NumbersOK
<1> QED BY <1>1, <1>2, <1>3, <1>4, TypeParts

\* Flags are TRUE or FALSE, the handle and the broker one of their states.
LEMMA FlagsStep ==
  ASSUME FlagsOK, [Next]_vars
  PROVE  FlagsOK'
<1> USE DEF FlagsOK, flags, capture, publish, world
<1>1. CASE Main
  <2>1. CASE MainInitFails
    BY <2>1 DEF MainInitFails
  <2>2. CASE MainStart
    BY <2>2 DEF MainStart
  <2>3. CASE MainStopMetrics
    BY <2>3 DEF MainStopMetrics
  <2>4. CASE MainJoinCapture \/ MainJoinAnalysis \/ MainJoinPublish \/ MainExit
    BY <2>4 DEF MainJoinCapture, MainJoinAnalysis, MainJoinPublish, MainExit, MainJoin
  <2> QED BY <1>1, <2>1, <2>2, <2>3, <2>4 DEF Main
<1>2. CASE CaptureThread \/ CaptureLoopError
  <2>1. CASE CaptureOpen
    BY <2>1 DEF CaptureOpen
  <2>2. CASE CaptureOpenFails
    BY <2>2 DEF CaptureOpenFails
  <2>3. CASE CaptureBreak
    BY <2>3 DEF CaptureBreak, CaptureLeaves
  <2>4. CASE CaptureClose
    BY <2>4 DEF CaptureClose
  <2>5. CASE CaptureForget
    BY <2>5 DEF CaptureForget
  <2>6. CASE CaptureEnd
    BY <2>6 DEF CaptureEnd
  <2>7. CASE CaptureLoopError
    BY <2>7 DEF CaptureLoopError, CaptureLeaves
  <2> QED BY <1>2, <2>1, <2>2, <2>3, <2>4, <2>5, <2>6, <2>7 DEF CaptureThread
<1>3. CASE CapturePacket
  BY <1>3 DEF CapturePacket
<1>4. CASE AnalysisThread
  <2>1. CASE AnalysisPop
    BY <2>1 DEF AnalysisPop
  <2>2. CASE AnalysisSilent
    BY <2>2 DEF AnalysisSilent
  <2>3. CASE AnalysisEvent
    BY <2>3 DEF AnalysisEvent
  <2>4. CASE AnalysisEmpty
    BY <2>4 DEF AnalysisEmpty
  <2>5. CASE AnalysisCheck
    BY <2>5 DEF AnalysisCheck
  <2>6. CASE AnalysisEnd
    BY <2>6 DEF AnalysisEnd
  <2> QED BY <1>4, <2>1, <2>2, <2>3, <2>4, <2>5, <2>6 DEF AnalysisThread
<1>5. CASE PublishThread
  <2>1. CASE PublishAlloc
    BY <2>1 DEF PublishAlloc
  <2>2. CASE PublishPop
    BY <2>2 DEF PublishPop
  <2>3. CASE PublishNoPop
    BY <2>3 DEF PublishNoPop
  <2>4. CASE PublishCheck
    BY <2>4 DEF PublishCheck
  <2>5. CASE PublishSend
    BY <2>5 DEF PublishSend
  <2>6. CASE PublishRetry
    BY <2>6 DEF PublishRetry
  <2>7. CASE PublishDiscard
    BY <2>7 DEF PublishDiscard
  <2>8. CASE PublishCountBatch
    BY <2>8 DEF PublishCountBatch
  <2>9. CASE PublishCountEvents
    BY <2>9 DEF PublishCountEvents
  <2> QED BY <1>5, <2>1, <2>2, <2>3, <2>4, <2>5, <2>6, <2>7, <2>8, <2>9 DEF PublishThread
<1>6. CASE MetricsThread \/ StopHandler \/ StopRunning
  <2>1. CASE MetricsThread
    BY <2>1 DEF MetricsThread, MetricsWake, MetricsSend, MetricsEnd
  <2>2. CASE StopTest
    BY <2>2 DEF StopTest
  <2>3. CASE StopBreak
    BY <2>3 DEF StopBreak
  <2>4. CASE StopBreakClosed
    BY <2>4 DEF StopBreakClosed
  <2>5. CASE StopRunning
    BY <2>5 DEF StopRunning
  <2> QED BY <1>6, <2>1, <2>2, <2>3, <2>4, <2>5 DEF StopHandler
<1>7. CASE BatchAges \/ BrokerDown \/ BrokerUp
  <2>1. CASE BatchAges
    BY <2>1 DEF BatchAges
  <2>2. CASE BrokerDown
    BY <2>2 DEF BrokerDown
  <2>3. CASE BrokerUp
    BY <2>3 DEF BrokerUp
  <2> QED BY <1>7, <2>1, <2>2, <2>3
<1>8. CASE Ended \/ UNCHANGED vars
  BY <1>8 DEF Ended, vars
<1> QED BY <1>1, <1>2, <1>3, <1>4, <1>5, <1>6, <1>7, <1>8 DEF Next

\* A thread goes from one of its places to another.
LEMMA PlacesStep ==
  ASSUME PlacesOK, [Next]_vars
  PROVE  PlacesOK'
<1> USE DEF PlacesOK, capture, analysis, publish, signal
<1>1. CASE Main
  BY <1>1 DEF Main, MainInitFails, MainStart, MainJoinCapture, MainJoinAnalysis, MainJoinPublish,
              MainStopMetrics, MainExit, MainJoin
<1>2. CASE CaptureThread \/ CaptureLoopError
  BY <1>2 DEF CaptureThread, CaptureOpen, CaptureOpenFails, CaptureBreak, CaptureClose,
              CaptureForget, CaptureEnd, CaptureLeaves, CaptureLoopError
<1>3. CASE CapturePacket
  BY <1>3 DEF CapturePacket
<1>4. CASE AnalysisThread
  BY <1>4 DEF AnalysisThread, AnalysisPop, AnalysisSilent, AnalysisEvent, AnalysisEmpty,
              AnalysisCheck, AnalysisEnd
<1>5. CASE PublishThread
  BY <1>5 DEF PublishThread, PublishAlloc, PublishPop, PublishNoPop, PublishCheck, PublishSend,
              PublishRetry, PublishDiscard, PublishCountBatch, PublishCountEvents
<1>6. CASE MetricsThread \/ StopHandler \/ StopRunning
  BY <1>6 DEF MetricsThread, MetricsWake, MetricsSend, MetricsEnd, StopHandler, StopTest,
              StopBreak, StopBreakClosed, StopRunning
<1>7. CASE BatchAges \/ BrokerDown \/ BrokerUp
  BY <1>7 DEF BatchAges, BrokerDown, BrokerUp
<1>8. CASE Ended \/ UNCHANGED vars
  BY <1>8 DEF Ended, vars
<1> QED BY <1>1, <1>2, <1>3, <1>4, <1>5, <1>6, <1>7, <1>8 DEF Next

\* A push to a queue with room, and a pop.
LEMMA QueueAppend ==
  ASSUME NEW q \in Seq(Nat), NEW n \in Nat, NEW cap \in Nat, Len(q) < cap
  PROVE  Append(q, n) \in Seq(Nat) /\ Len(Append(q, n)) <= cap
<1>1. Append(q, n) \in Seq(Nat) /\ Len(Append(q, n)) = Len(q) + 1
  BY AppendProperties
<1> QED BY <1>1, LenProperties

LEMMA QueueTail ==
  ASSUME NEW q \in Seq(Nat), q # <<>>, NEW cap \in Nat, Len(q) <= cap
  PROVE  Head(q) \in Nat /\ Tail(q) \in Seq(Nat) /\ Len(Tail(q)) <= cap
<1>1. Head(q) \in Nat /\ Tail(q) \in Seq(Nat) /\ Len(Tail(q)) = Len(q) - 1
  BY HeadTailProperties
<1> QED BY <1>1, LenProperties

\* A message holds events of its batch, at places of the batch that increase.
LEMMA MessageOfBatch ==
  ASSUME NEW events \in Seq(Nat), NEW message \in Written(events)
  PROVE  /\ message \in Seq(Nat) /\ Len(message) \in 0 .. Len(events)
         /\ \E at \in [1 .. Len(message) -> 1 .. Len(events)] :
              /\ \A i, j \in 1 .. Len(message) : i < j => at[i] < at[j]
              /\ \A i \in 1 .. Len(message) : message[i] = events[at[i]]
<1>0. PICK n \in 0 .. Len(events) :
        \E at \in [1 .. n -> 1 .. Len(events)] :
          /\ \A i, j \in 1 .. n : i < j => at[i] < at[j]
          /\ message = [i \in 1 .. n |-> events[at[i]]]
  BY DEF Written
<1>1. PICK at \in [1 .. n -> 1 .. Len(events)] :
        /\ \A i, j \in 1 .. n : i < j => at[i] < at[j]
        /\ message = [i \in 1 .. n |-> events[at[i]]]
  BY <1>0
<1>2. n \in Nat /\ \A i \in 1 .. n : events[at[i]] \in Nat
  BY <1>1, LenProperties, ElementOfSeq
<1>3. message \in [1 .. n -> Nat]
  BY <1>1, <1>2
<1>4. message \in Seq(Nat)
  BY <1>2, <1>3, SeqDef
<1>5. Len(message) = n
  BY <1>2, <1>3, <1>4, LenProperties
<1> QED BY <1>1, <1>4, <1>5

\* What pushes, pops and flushes do to the queues.
LEMMA QueuesStep ==
  ASSUME QueuesOK, NumbersOK, JoinOrder, [Next]_vars
  PROVE  QueuesOK'
<1> USE CapAssumption, BatchAssumption
<1>1. CASE CapturePacket
  <2>1. UNCHANGED <<evtq, batch, sent>>
    BY <1>1 DEF CapturePacket, publish
  <2>2. pktq' \in Seq(Nat) /\ Len(pktq') <= Cap
    <3>1. arrived + 1 \in Nat /\ pktq \in Seq(Nat) /\ Len(pktq) <= Cap
      BY DEF QueuesOK, NumbersOK
    <3>2. pktq' = pktq \/ (Len(pktq) < Cap /\ pktq' = Append(pktq, arrived + 1))
      BY <1>1 DEF CapturePacket
    <3> QED BY <3>1, <3>2, QueueAppend
  <2> QED BY <2>1, <2>2 DEF QueuesOK
<1>2. CASE AnalysisPop
  <2>1. UNCHANGED <<evtq, batch, sent>> /\ pktq # <<>> /\ pktq' = Tail(pktq)
    BY <1>2 DEF AnalysisPop, publish
  <2>2. pktq' \in Seq(Nat) /\ Len(pktq') <= Cap
    BY <2>1, QueueTail DEF QueuesOK
  <2> QED BY <2>1, <2>2 DEF QueuesOK
<1>3. CASE AnalysisEvent
  <2>1. UNCHANGED <<pktq, batch, sent>>
    BY <1>3 DEF AnalysisEvent, publish
  <2>2. evtq' \in Seq(Nat) /\ Len(evtq') <= Cap
    <3>1. pkt \in Nat /\ evtq \in Seq(Nat) /\ Len(evtq) <= Cap
      BY DEF QueuesOK, NumbersOK
    <3>2. evtq' = evtq \/ (Len(evtq) < Cap /\ evtq' = Append(evtq, pkt))
      BY <1>3 DEF AnalysisEvent
    <3> QED BY <3>1, <3>2, QueueAppend
  <2> QED BY <2>1, <2>2 DEF QueuesOK
<1>4. CASE PublishPop
  <2>1. /\ UNCHANGED <<pktq, sent>> /\ Len(batch) < BatchSize /\ evtq # <<>>
        /\ batch' = Append(batch, Head(evtq)) /\ evtq' = Tail(evtq)
    BY <1>4 DEF PublishPop
  <2>2. Head(evtq) \in Nat /\ evtq' \in Seq(Nat) /\ Len(evtq') <= Cap
    BY <2>1, QueueTail DEF QueuesOK
  <2>3. batch' \in Seq(Nat) /\ Len(batch') <= BatchSize
    BY <2>1, <2>2, QueueAppend DEF QueuesOK
  <2> QED BY <2>1, <2>2, <2>3 DEF QueuesOK
<1>5. CASE PublishSend
  <2>1. UNCHANGED <<pktq, evtq, batch>>
    BY <1>5 DEF PublishSend, rings
  <2>2. sent' \in Seq(Nat)
    <3>1. PICK message \in Written(batch) : sent' = sent \o message
      BY <1>5 DEF PublishSend
    <3>2. sent \in Seq(Nat) /\ message \in Seq(Nat)
      BY <3>1, MessageOfBatch DEF QueuesOK
    <3> QED BY <3>1, <3>2, ConcatProperties
  <2> QED BY <2>1, <2>2 DEF QueuesOK
<1>6. CASE PublishDiscard \/ PublishCountEvents
  <2>1. UNCHANGED <<pktq, evtq, sent>> /\ batch' = <<>>
    BY <1>6 DEF PublishDiscard, PublishCountEvents, rings
  <2>2. batch' \in Seq(Nat) /\ Len(batch') <= BatchSize
    BY <2>1, EmptySeq
  <2> QED BY <2>1, <2>2 DEF QueuesOK
<1>7. CASE AnalysisSilent
  BY <1>7 DEF AnalysisSilent, rings, publish, QueuesOK
<1>8. CASE ~PacketMoves /\ ~EventMoves
  <2>1. UNCHANGED <<pktq, evtq, batch, sent>>
    BY <1>8, PacketFrame, EventFrame
  <2> QED BY <2>1 DEF QueuesOK
<1> QED BY <1>1, <1>2, <1>3, <1>4, <1>5, <1>6, <1>7, <1>8 DEF PacketMoves, EventMoves

\* Counters are counted up only, the packet in hand comes from its ring.
LEMMA NumbersStep ==
  ASSUME NumbersOK, QueuesOK, [Next]_vars
  PROVE  NumbersOK'
<1> USE DEF NumbersOK, flags, rings, counts, capture, analysis, publish, signal, world
<1>1. CASE Main
  BY <1>1 DEF Main, MainInitFails, MainStart, MainJoinCapture, MainJoinAnalysis, MainJoinPublish,
              MainStopMetrics, MainExit, MainJoin
<1>2. CASE CaptureThread \/ CaptureLoopError
  <2>1. CASE CaptureOpen
    BY <2>1 DEF CaptureOpen
  <2>2. CASE CaptureOpenFails
    BY <2>2 DEF CaptureOpenFails
  <2>3. CASE CaptureBreak
    BY <2>3 DEF CaptureBreak, CaptureLeaves
  <2>4. CASE CaptureClose
    BY <2>4 DEF CaptureClose
  <2>5. CASE CaptureForget
    BY <2>5 DEF CaptureForget
  <2>6. CASE CaptureEnd
    BY <2>6 DEF CaptureEnd
  <2>7. CASE CaptureLoopError
    BY <2>7 DEF CaptureLoopError, CaptureLeaves
  <2> QED BY <1>2, <2>1, <2>2, <2>3, <2>4, <2>5, <2>6, <2>7 DEF CaptureThread
<1>3. CASE CapturePacket
  BY <1>3 DEF CapturePacket
<1>4. CASE AnalysisThread
  <2>1. pktq # <<>> => Head(pktq) \in Nat
    BY HeadTailProperties DEF QueuesOK
  <2>2. CASE AnalysisPop
    BY <2>2, <2>1 DEF AnalysisPop
  <2>3. CASE AnalysisSilent
    BY <2>3 DEF AnalysisSilent
  <2>4. CASE AnalysisEvent
    BY <2>4 DEF AnalysisEvent
  <2>5. CASE AnalysisEmpty
    BY <2>5 DEF AnalysisEmpty
  <2>6. CASE AnalysisCheck
    BY <2>6 DEF AnalysisCheck
  <2>7. CASE AnalysisEnd
    BY <2>7 DEF AnalysisEnd
  <2> QED BY <1>4, <2>2, <2>3, <2>4, <2>5, <2>6, <2>7 DEF AnalysisThread
<1>5. CASE PublishThread
  <2>1. Len(batch) \in Nat
    BY LenProperties DEF QueuesOK
  <2>2. CASE PublishAlloc
    BY <2>2 DEF PublishAlloc
  <2>3. CASE PublishPop
    BY <2>3 DEF PublishPop
  <2>4. CASE PublishNoPop
    BY <2>4 DEF PublishNoPop
  <2>5. CASE PublishCheck
    BY <2>5 DEF PublishCheck
  <2>6. CASE PublishSend
    <3>1. PICK message \in Written(batch) : skipped' = skipped + (Len(batch) - Len(message))
      BY <2>6 DEF PublishSend
    <3>2. Len(message) \in 0 .. Len(batch) /\ Len(batch) \in Nat
      BY <2>1, <3>1, MessageOfBatch DEF QueuesOK
    <3> QED BY <2>6, <3>1, <3>2 DEF PublishSend
  <2>7. CASE PublishRetry
    BY <2>7 DEF PublishRetry
  <2>8. CASE PublishDiscard
    BY <2>8, <2>1 DEF PublishDiscard
  <2>9. CASE PublishCountBatch
    BY <2>9 DEF PublishCountBatch
  <2>10. CASE PublishCountEvents
    BY <2>10, <2>1 DEF PublishCountEvents
  <2> QED BY <1>5, <2>2, <2>3, <2>4, <2>5, <2>6, <2>7, <2>8, <2>9, <2>10 DEF PublishThread
<1>6. CASE MetricsThread \/ StopHandler \/ StopRunning
  <2>1. CASE MetricsThread
    BY <2>1 DEF MetricsThread, MetricsWake, MetricsSend, MetricsEnd
  <2>2. CASE StopTest
    BY <2>2 DEF StopTest
  <2>3. CASE StopBreak
    BY <2>3 DEF StopBreak
  <2>4. CASE StopBreakClosed
    BY <2>4 DEF StopBreakClosed
  <2>5. CASE StopRunning
    BY <2>5 DEF StopRunning
  <2> QED BY <1>6, <2>1, <2>2, <2>3, <2>4, <2>5 DEF StopHandler
<1>7. CASE BatchAges \/ BrokerDown \/ BrokerUp
  <2>1. CASE BatchAges
    BY <2>1 DEF BatchAges
  <2>2. CASE BrokerDown
    BY <2>2 DEF BrokerDown
  <2>3. CASE BrokerUp
    BY <2>3 DEF BrokerUp
  <2> QED BY <1>7, <2>1, <2>2, <2>3
<1>8. CASE Ended \/ UNCHANGED vars
  BY <1>8 DEF Ended, vars
<1> QED BY <1>1, <1>2, <1>3, <1>4, <1>5, <1>6, <1>7, <1>8 DEF Next

\* Every step keeps every variable to its values.
LEMMA TypeStep ==
  ASSUME TypeOK, JoinOrder, [Next]_vars
  PROVE  TypeOK'
<1>1. FlagsOK /\ QueuesOK /\ PlacesOK /\ NumbersOK
  BY TypeParts
<1>2. FlagsOK' /\ QueuesOK' /\ PlacesOK' /\ NumbersOK'
  BY <1>1, FlagsStep, QueuesStep, PlacesStep, NumbersStep
<1> QED BY <1>2, TypeParts, PTL

(***************************************************************************)
(* What main has joined.                                                   *)
(***************************************************************************)
\* Only MainStart takes threads out of "none", only the join of a thread that has
\* ended takes main on, and a thread that has ended does nothing more.
LEMMA JoinStep ==
  ASSUME JoinOrder, ThreadsOutlived, [Next]_vars
  PROVE  JoinOrder' /\ ThreadsOutlived'
<1> USE DEF JoinOrder, ThreadsOutlived, Alive, capture, analysis, publish
<1>1. CASE Main
  BY <1>1 DEF Main, MainInitFails, MainStart, MainJoinCapture, MainJoinAnalysis, MainJoinPublish,
              MainStopMetrics, MainExit, MainJoin
<1>2. CASE CaptureThread \/ CaptureLoopError
  BY <1>2 DEF CaptureThread, CaptureOpen, CaptureOpenFails, CaptureBreak, CaptureClose,
              CaptureForget, CaptureEnd, CaptureLeaves, CaptureLoopError
<1>3. CASE CapturePacket
  BY <1>3 DEF CapturePacket
<1>4. CASE AnalysisThread
  BY <1>4 DEF AnalysisThread, AnalysisPop, AnalysisSilent, AnalysisEvent, AnalysisEmpty,
              AnalysisCheck, AnalysisEnd
<1>5. CASE PublishThread
  BY <1>5 DEF PublishThread, PublishAlloc, PublishPop, PublishNoPop, PublishCheck, PublishSend,
              PublishRetry, PublishDiscard, PublishCountBatch, PublishCountEvents
<1>6. CASE MetricsThread \/ StopHandler \/ StopRunning
  BY <1>6 DEF MetricsThread, MetricsWake, MetricsSend, MetricsEnd, StopHandler, StopTest,
              StopBreak, StopBreakClosed, StopRunning
<1>7. CASE BatchAges \/ BrokerDown \/ BrokerUp
  BY <1>7 DEF BatchAges, BrokerDown, BrokerUp
<1>8. CASE Ended \/ UNCHANGED vars
  BY <1>8 DEF Ended, vars
<1> QED BY <1>1, <1>2, <1>3, <1>4, <1>5, <1>6, <1>7, <1>8 DEF Next

(***************************************************************************)
(* Nothing vanishes.                                                       *)
(***************************************************************************)
PacketsCounted == arrived = pktOvf + Len(pktq) + Len(InHand) + analysed
EventsCounted  == emitted = evtOvf + Len(evtq) + Len(Pending) + Len(sent) + skipped + discarded
EventsReported == emitted = evtOvf + Len(evtq) + Len(batch) + eventsSent + discarded

\* What has arrived is dropped, queued, in the hands of the analysis, or analysed.
LEMMA PacketStep ==
  ASSUME TypeOK, JoinOrder, PacketsCounted, [Next]_vars
  PROVE  PacketsCounted'
<1>0. /\ pktq \in Seq(Nat) /\ Len(pktq) \in Nat
      /\ arrived \in Nat /\ pktOvf \in Nat /\ analysed \in Nat
  BY LenProperties DEF TypeOK
<1> USE DEF PacketsCounted, InHand
<1>1. CASE CapturePacket
  <2>1. Len(Append(pktq, arrived + 1)) = Len(pktq) + 1
    BY <1>0, AppendProperties
  <2> QED BY <1>0, <1>1, <2>1 DEF CapturePacket, analysis
<1>2. CASE AnalysisPop
  <2>1. Len(Tail(pktq)) = Len(pktq) - 1
    BY <1>0, <1>2, HeadTailProperties DEF AnalysisPop
  <2> QED BY <1>0, <1>2, <2>1 DEF AnalysisPop, world
<1>3. CASE AnalysisSilent
  BY <1>0, <1>3 DEF AnalysisSilent, rings, world
<1>4. CASE AnalysisEvent
  BY <1>0, <1>4 DEF AnalysisEvent, world
<1>5. CASE ~PacketMoves
  BY <1>5, PacketFrame
<1> QED BY <1>1, <1>2, <1>3, <1>4, <1>5 DEF PacketMoves

\* One more event is queued or dropped.
LEMMA EventPushed ==
  ASSUME TypeOK, AnalysisEvent
  PROVE  /\ evtOvf' + Len(evtq') = evtOvf + Len(evtq) + 1
         /\ evtOvf' \in Nat /\ Len(evtq') \in Nat /\ emitted' = emitted + 1
<1>0. evtq \in Seq(Nat) /\ Len(evtq) \in Nat /\ pkt \in Nat /\ evtOvf \in Nat
  BY LenProperties DEF TypeOK
<1>1. Len(Append(evtq, pkt)) = Len(evtq) + 1
  BY <1>0, AppendProperties
<1>2. CASE evtq' = Append(evtq, pkt) /\ evtOvf' = evtOvf
  BY <1>0, <1>1, <1>2 DEF AnalysisEvent
<1>3. CASE evtq' = evtq /\ evtOvf' = evtOvf + 1
  BY <1>0, <1>3 DEF AnalysisEvent
<1> QED BY <1>2, <1>3 DEF AnalysisEvent

\* Two ways the account of events moves: one more at its near end, and a batch that
\* turns into what its message holds and what it leaves out.
LEMMA OneMore ==
  ASSUME NEW q \in Nat, NEW b \in Nat, NEW s \in Nat, NEW k \in Nat, NEW d \in Nat
  PROVE  (q + 1) + b + s + k + d = (q + b + s + k + d) + 1
OBVIOUS

LEMMA BatchLeaves ==
  ASSUME NEW q \in Nat, NEW b \in Nat, NEW s \in Nat, NEW k \in Nat, NEW d \in Nat, NEW m \in 0 .. b
  PROVE  q + b + s + k + d = q + 0 + (s + m) + (k + (b - m)) + d
OBVIOUS

\* What was emitted is dropped, queued, in the batch, sent, left out of a message, or
\* discarded.
LEMMA EventStep ==
  ASSUME TypeOK, JoinOrder, EventsCounted, [Next]_vars
  PROVE  EventsCounted'
<1>0. /\ evtq \in Seq(Nat) /\ Len(evtq) \in Nat /\ batch \in Seq(Nat) /\ Len(batch) \in Nat
      /\ sent \in Seq(Nat) /\ Len(sent) \in Nat /\ pkt \in Nat
      /\ emitted \in Nat /\ evtOvf \in Nat /\ skipped \in Nat /\ discarded \in Nat
  BY LenProperties DEF TypeOK
<1> USE DEF EventsCounted, Pending
<1>1. CASE AnalysisEvent
  <2>2. Pending' = Pending /\ sent' = sent /\ skipped' = skipped /\ discarded' = discarded
    BY <1>1 DEF AnalysisEvent, publish
  <2>3. /\ evtOvf' + Len(evtq') = evtOvf + Len(evtq) + 1
        /\ evtOvf' \in Nat /\ Len(evtq') \in Nat /\ emitted' = emitted + 1
    BY <1>1, EventPushed
  <2>4. Len(Pending) \in Nat
    BY <1>0, EmptySeq
  <2> HIDE DEF Pending
  <2>5. evtOvf + Len(evtq) \in Nat
    BY <1>0
  <2>6. ((evtOvf + Len(evtq)) + 1) + Len(Pending) + Len(sent) + skipped + discarded
          = (evtOvf + Len(evtq) + Len(Pending) + Len(sent) + skipped + discarded) + 1
    BY <1>0, <2>4, <2>5, OneMore
  <2> QED BY <2>2, <2>3, <2>6
<1>2. CASE PublishPop
  <2>1. Head(evtq) \in Nat /\ Len(Tail(evtq)) = Len(evtq) - 1
    BY <1>0, <1>2, HeadTailProperties DEF PublishPop
  <2>2. Len(Append(batch, Head(evtq))) = Len(batch) + 1
    BY <1>0, <2>1, AppendProperties
  <2> QED BY <1>0, <1>2, <2>1, <2>2 DEF PublishPop, analysis
<1>3. CASE PublishSend
  <2>0. PICK message \in Written(batch) :
          sent' = sent \o message /\ skipped' = skipped + (Len(batch) - Len(message))
    BY <1>3 DEF PublishSend
  <2>1. Len(sent') = Len(sent) + Len(message) /\ Len(message) \in 0 .. Len(batch)
    BY <1>0, <2>0, MessageOfBatch, ConcatProperties
  <2>2. /\ Pending = batch /\ Pending' = <<>> /\ Len(Pending') = 0
        /\ UNCHANGED <<evtOvf, evtq, emitted, discarded>>
    BY <1>3, EmptySeq DEF PublishSend, rings, analysis
  <2>3. evtOvf + Len(evtq) \in Nat
    BY <1>0
  <2>4. (evtOvf + Len(evtq)) + Len(batch) + Len(sent) + skipped + discarded
          = (evtOvf + Len(evtq)) + 0 + (Len(sent) + Len(message))
              + (skipped + (Len(batch) - Len(message))) + discarded
    BY <1>0, <2>1, <2>3, BatchLeaves
  <2> HIDE DEF Pending
  <2> QED BY <2>0, <2>1, <2>2, <2>4
<1>4. CASE PublishDiscard
  BY <1>0, <1>4 DEF PublishDiscard, rings, analysis
<1>5. CASE PublishCountEvents
  BY <1>0, <1>5 DEF PublishCountEvents, rings, analysis
<1>6. CASE ~EventMoves
  BY <1>6, EventFrame
<1> QED BY <1>1, <1>2, <1>3, <1>4, <1>5, <1>6 DEF EventMoves

\* The same with g_events_sent in the place of what is sent: a batch stays in the
\* account until it is counted.
LEMMA ReportStep ==
  ASSUME TypeOK, JoinOrder, EventsReported, [Next]_vars
  PROVE  EventsReported'
<1>0. /\ evtq \in Seq(Nat) /\ Len(evtq) \in Nat /\ batch \in Seq(Nat) /\ Len(batch) \in Nat
      /\ eventsSent \in Nat /\ emitted \in Nat /\ evtOvf \in Nat /\ discarded \in Nat
  BY LenProperties DEF TypeOK
<1> USE DEF EventsReported
<1>1. CASE AnalysisEvent
  <2>1. batch' = batch /\ eventsSent' = eventsSent /\ discarded' = discarded
    BY <1>1 DEF AnalysisEvent, publish, counts
  <2>2. /\ evtOvf' + Len(evtq') = evtOvf + Len(evtq) + 1
        /\ evtOvf' \in Nat /\ Len(evtq') \in Nat /\ emitted' = emitted + 1
    BY <1>1, EventPushed
  <2> QED BY <1>0, <2>1, <2>2
<1>2. CASE PublishPop
  <2>1. Head(evtq) \in Nat /\ Len(Tail(evtq)) = Len(evtq) - 1
    BY <1>0, <1>2, HeadTailProperties DEF PublishPop
  <2>2. Len(Append(batch, Head(evtq))) = Len(batch) + 1
    BY <1>0, <2>1, AppendProperties
  <2> QED BY <1>0, <1>2, <2>1, <2>2 DEF PublishPop, analysis, counts
<1>3. CASE PublishSend
  BY <1>3 DEF PublishSend, rings, analysis, counts
<1>4. CASE PublishDiscard
  <2>1. discarded' = discarded + Len(batch) /\ Len(batch') = 0
    BY <1>4, EmptySeq DEF PublishDiscard
  <2> QED BY <1>0, <1>4, <2>1 DEF PublishDiscard, rings, analysis, counts
<1>5. CASE PublishCountEvents
  <2>1. eventsSent' = eventsSent + Len(batch) /\ Len(batch') = 0
    BY <1>5, EmptySeq DEF PublishCountEvents
  <2> QED BY <1>0, <1>5, <2>1 DEF PublishCountEvents, rings, analysis
<1>6. CASE ~EventMoves
  BY <1>6, EventFrame
<1> QED BY <1>1, <1>2, <1>3, <1>4, <1>5, <1>6 DEF EventMoves

\* A batch is begun after the thread was created, and the thread does not end with one.
LEMMA EmptiedStep ==
  ASSUME JoinOrder, Emptied, [Next]_vars
  PROVE  Emptied'
<1> USE DEF Emptied
<1>1. CASE PublishPop
  BY <1>1 DEF PublishPop
<1>2. CASE PublishSend \/ PublishDiscard \/ PublishCountEvents
  BY <1>2 DEF PublishSend, PublishDiscard, PublishCountEvents
<1>3. CASE PublishAlloc \/ PublishNoPop \/ PublishCheck \/ PublishRetry \/ PublishCountBatch
  BY <1>3 DEF PublishAlloc, PublishNoPop, PublishCheck, PublishRetry, PublishCountBatch
<1>4. CASE Main
  BY <1>4 DEF JoinOrder, Main, MainInitFails, MainStart, MainJoinCapture, MainJoinAnalysis,
              MainJoinPublish, MainStopMetrics, MainExit, MainJoin, publish
<1>5. CASE CaptureThread \/ CaptureLoopError \/ CapturePacket
  BY <1>5 DEF CaptureThread, CaptureOpen, CaptureOpenFails, CaptureBreak, CaptureClose,
              CaptureForget, CaptureEnd, CaptureLeaves, CaptureLoopError, CapturePacket, publish
<1>6. CASE AnalysisThread
  BY <1>6 DEF AnalysisThread, AnalysisPop, AnalysisSilent, AnalysisEvent, AnalysisEmpty,
              AnalysisCheck, AnalysisEnd, publish
<1>7. CASE MetricsThread \/ StopHandler \/ StopRunning
  BY <1>7 DEF MetricsThread, MetricsWake, MetricsSend, MetricsEnd, StopHandler, StopTest,
              StopBreak, StopBreakClosed, StopRunning, publish
<1>8. CASE BatchAges \/ BrokerDown \/ BrokerUp
  BY <1>8 DEF BatchAges, BrokerDown, BrokerUp, publish
<1>9. CASE Ended \/ UNCHANGED vars
  BY <1>9 DEF Ended, vars, publish
<1> QED BY <1>1, <1>2, <1>3, <1>4, <1>5, <1>6, <1>7, <1>8, <1>9 DEF Next, PublishThread

(***************************************************************************)
(* Order.                                                                  *)
(***************************************************************************)
\* A newer packet at the end keeps a line in order.
LEMMA OrderAppend ==
  ASSUME NEW s \in Seq(Nat), NEW n \in Nat, Increasing(s), UpTo(s, n)
  PROVE  /\ Increasing(s \o <<n + 1>>) /\ UpTo(s \o <<n + 1>>, n + 1)
         /\ UpTo(s, n + 1)
<1> DEFINE t == <<n + 1>>
<1>1. t \in Seq(Nat) /\ Len(t) = 1 /\ t[1] = n + 1 /\ Len(s) \in Nat
  BY LenProperties
<1>2. \A i \in 1 .. Len(s) : s[i] \in Nat
  BY ElementOfSeq
<1> HIDE DEF t
<1>3. /\ Len(s \o t) = Len(s) + 1
      /\ \A i \in 1 .. Len(s) + 1 : (s \o t)[i] = IF i <= Len(s) THEN s[i] ELSE n + 1
  <2>1. /\ Len(s \o t) = Len(s) + Len(t)
        /\ \A i \in 1 .. Len(s) + Len(t) :
             (s \o t)[i] = IF i <= Len(s) THEN s[i] ELSE t[i - Len(s)]
    BY <1>1, ConcatProperties
  <2>2. \A i \in 1 .. Len(s) + 1 : ~(i <= Len(s)) => i - Len(s) = 1
    BY <1>1
  <2> QED BY <1>1, <2>1, <2>2
<1>4. UpTo(s, n + 1)
  BY <1>2 DEF UpTo
<1>5. Increasing(s \o t)
  BY <1>1, <1>2, <1>3 DEF Increasing, UpTo
<1>6. UpTo(s \o t, n + 1)
  BY <1>1, <1>2, <1>3 DEF UpTo
<1> QED BY <1>4, <1>5, <1>6 DEF t

\* So does picking items of it in the order they have.
LEMMA OrderPick ==
  ASSUME NEW s \in Seq(Nat), NEW t \in Seq(Nat), NEW n \in Nat, Increasing(s), UpTo(s, n),
         NEW at \in [1 .. Len(t) -> 1 .. Len(s)],
         \A i, j \in 1 .. Len(t) : i < j => at[i] < at[j],
         \A i \in 1 .. Len(t) : t[i] = s[at[i]]
  PROVE  Increasing(t) /\ UpTo(t, n)
<1>1. \A i \in 1 .. Len(t) : at[i] \in 1 .. Len(s)
  OBVIOUS
<1>2. Increasing(t)
  <2> SUFFICES ASSUME NEW i \in 1 .. Len(t), NEW j \in 1 .. Len(t), i < j
               PROVE  t[i] < t[j]
    BY DEF Increasing
  <2>1. at[i] \in 1 .. Len(s) /\ at[j] \in 1 .. Len(s) /\ at[i] < at[j]
    BY <1>1
  <2>2. s[at[i]] < s[at[j]]
    BY <2>1 DEF Increasing
  <2> QED BY <2>2
<1>3. UpTo(t, n)
  <2> SUFFICES ASSUME NEW i \in 1 .. Len(t) PROVE t[i] \in 1 .. n
    BY DEF UpTo
  <2>1. s[at[i]] \in 1 .. n
    BY <1>1 DEF UpTo
  <2> QED BY <2>1
<1> QED BY <1>2, <1>3

\* The message of a batch goes to the far end in the place of the batch.
LEMMA OrderThin ==
  ASSUME NEW a \in Seq(Nat), NEW b \in Seq(Nat), NEW c \in Seq(Nat), NEW n \in Nat,
         NEW m \in Written(b), Increasing((a \o b) \o c), UpTo((a \o b) \o c, n)
  PROVE  Increasing((a \o m) \o c) /\ UpTo((a \o m) \o c, n)
<1> DEFINE s == (a \o b) \o c
           t == (a \o m) \o c
<1>0. m \in Seq(Nat)
  BY MessageOfBatch
<1>p. PICK at \in [1 .. Len(m) -> 1 .. Len(b)] :
        /\ \A i, j \in 1 .. Len(m) : i < j => at[i] < at[j]
        /\ \A i \in 1 .. Len(m) : m[i] = b[at[i]]
  BY MessageOfBatch
<1>q. \A i \in 1 .. Len(m) : at[i] \in 1 .. Len(b)
  BY <1>p
<1> DEFINE At == [i \in 1 .. Len(t) |->
                    IF i <= Len(a) THEN i
                    ELSE IF i <= Len(a) + Len(m) THEN Len(a) + at[i - Len(a)]
                    ELSE i - Len(m) + Len(b)]
<1>1. /\ Len(a) \in Nat /\ Len(b) \in Nat /\ Len(c) \in Nat /\ Len(m) \in Nat
      /\ a \o b \in Seq(Nat) /\ Len(a \o b) = Len(a) + Len(b)
      /\ a \o m \in Seq(Nat) /\ Len(a \o m) = Len(a) + Len(m)
      /\ \A i \in 1 .. Len(a) + Len(b) : (a \o b)[i] = IF i <= Len(a) THEN a[i] ELSE b[i - Len(a)]
      /\ \A i \in 1 .. Len(a) + Len(m) : (a \o m)[i] = IF i <= Len(a) THEN a[i] ELSE m[i - Len(a)]
  BY <1>0, LenProperties, ConcatProperties
<1>2. /\ s \in Seq(Nat) /\ Len(s) = Len(a) + Len(b) + Len(c)
      /\ \A i \in 1 .. Len(a) + Len(b) + Len(c) :
           s[i] = IF i <= Len(a) + Len(b) THEN (a \o b)[i] ELSE c[i - (Len(a) + Len(b))]
  BY <1>1, ConcatProperties
<1>3. /\ t \in Seq(Nat) /\ Len(t) = Len(a) + Len(m) + Len(c)
      /\ \A i \in 1 .. Len(a) + Len(m) + Len(c) :
           t[i] = IF i <= Len(a) + Len(m) THEN (a \o m)[i] ELSE c[i - (Len(a) + Len(m))]
  BY <1>0, <1>1, ConcatProperties
<1>n. Len(a) \in Nat /\ Len(b) \in Nat /\ Len(c) \in Nat /\ Len(m) \in Nat
  BY <1>1
<1> HIDE DEF s, t
<1>v. /\ \A i \in 1 .. Len(t) : i <= Len(a) => At[i] = i
      /\ \A i \in 1 .. Len(t) :
           ~(i <= Len(a)) /\ i <= Len(a) + Len(m) => At[i] = Len(a) + at[i - Len(a)]
      /\ \A i \in 1 .. Len(t) : ~(i <= Len(a) + Len(m)) => At[i] = (i + Len(b)) - Len(m)
  <2> SUFFICES ASSUME NEW i \in 1 .. Len(t)
               PROVE  /\ i <= Len(a) => At[i] = i
                      /\ ~(i <= Len(a)) /\ i <= Len(a) + Len(m) => At[i] = Len(a) + at[i - Len(a)]
                      /\ ~(i <= Len(a) + Len(m)) => At[i] = (i + Len(b)) - Len(m)
    OBVIOUS
  <2>1. ~(i <= Len(a) + Len(m)) => ~(i <= Len(a))
    BY <1>1
  <2> QED BY <2>1
<1>w. At = [i \in 1 .. Len(t) |-> At[i]]
  OBVIOUS
<1> HIDE DEF At
<1>4. ASSUME NEW i \in 1 .. Len(t)
      PROVE  At[i] \in 1 .. Len(s) /\ t[i] = s[At[i]]
  <2>0. i \in Nat /\ i >= 1 /\ i <= Len(a) + Len(m) + Len(c)
    BY <1>1, <1>3
  <2>1. CASE i <= Len(a)
    <3>1. At[i] = i
      BY <2>1, <1>v
    <3>2. /\ i \in 1 .. Len(a) + Len(m) /\ i \in 1 .. Len(a) + Len(m) + Len(c)
          /\ i \in 1 .. Len(a) + Len(b) /\ i \in 1 .. Len(a) + Len(b) + Len(c)
      BY <2>0, <2>1, <1>1
    <3>5. i <= Len(a) + Len(b) /\ i <= Len(a) + Len(m)
      BY <2>0, <2>1, <1>n
    <3>6. s[i] = (a \o b)[i]
      BY <3>2, <3>5, <1>2
    <3>7. t[i] = (a \o m)[i]
      BY <3>2, <3>5, <1>3
    <3>3. s[i] = (a \o b)[i] /\ t[i] = (a \o m)[i]
      BY <3>6, <3>7
    <3>4. (a \o b)[i] = a[i] /\ (a \o m)[i] = a[i]
      BY <2>1, <3>2, <1>1
    <3> QED BY <3>1, <3>2, <3>3, <3>4, <1>2
  <2>2. CASE ~(i <= Len(a)) /\ i <= Len(a) + Len(m)
    <3> DEFINE k == i - Len(a)
    <3>1. k \in 1 .. Len(m) /\ i \in 1 .. Len(a) + Len(m) /\ i \in 1 .. Len(a) + Len(m) + Len(c)
      BY <2>0, <2>2, <1>1
    <3>2. at[k] \in 1 .. Len(b) /\ m[k] = b[at[k]] /\ At[i] = Len(a) + at[k]
      BY <2>2, <3>1, <1>p, <1>q, <1>v
    <3>3. t[i] = m[k]
      <4>1. t[i] = (a \o m)[i]
        BY <2>2, <3>1, <1>3
      <4> QED BY <2>2, <3>1, <4>1, <1>1
    <3> HIDE DEF k
    <3>4. /\ At[i] \in 1 .. Len(a) + Len(b) /\ ~(At[i] <= Len(a)) /\ At[i] - Len(a) = at[k]
          /\ At[i] \in 1 .. Len(a) + Len(b) + Len(c) /\ At[i] <= Len(a) + Len(b)
      <4>1. \A x \in 1 .. Len(b) :
              /\ Len(a) + x \in 1 .. Len(a) + Len(b) /\ ~(Len(a) + x <= Len(a))
              /\ (Len(a) + x) - Len(a) = x /\ Len(a) + x \in 1 .. Len(a) + Len(b) + Len(c)
              /\ Len(a) + x <= Len(a) + Len(b)
        BY <1>n
      <4> QED BY <3>2, <4>1
    <3>5. s[At[i]] = (a \o b)[At[i]]
      BY <3>4, <1>2
    <3>6. (a \o b)[At[i]] = b[At[i] - Len(a)]
      BY <3>4, <1>1
    <3> QED BY <3>2, <3>3, <3>4, <3>5, <3>6, <1>2
  <2>3. CASE ~(i <= Len(a) + Len(m))
    <3>1. At[i] = (i + Len(b)) - Len(m)
      BY <2>3, <1>v
    <3>2. /\ At[i] \in 1 .. Len(a) + Len(b) + Len(c) /\ ~(At[i] <= Len(a) + Len(b))
          /\ At[i] - (Len(a) + Len(b)) = i - (Len(a) + Len(m))
          /\ i \in 1 .. Len(a) + Len(m) + Len(c)
      BY <2>0, <2>3, <3>1, <1>1
    <3>3. s[At[i]] = c[At[i] - (Len(a) + Len(b))]
      BY <3>2, <1>2
    <3>4. t[i] = c[i - (Len(a) + Len(m))]
      BY <2>3, <3>2, <1>3
    <3> QED BY <3>2, <3>3, <3>4, <1>2
  <2> QED BY <2>1, <2>2, <2>3
<1>5. ASSUME NEW i \in 1 .. Len(t), NEW j \in 1 .. Len(t), i < j
      PROVE  At[i] < At[j]
  <2>0. i \in Nat /\ j \in Nat /\ i >= 1 /\ i < j
    BY <1>1, <1>3, <1>5
  <2> DEFINE k == i - Len(a)
             l == j - Len(a)
  <2>1. /\ ~(i <= Len(a)) /\ i <= Len(a) + Len(m) =>
             k \in 1 .. Len(m) /\ at[k] \in 1 .. Len(b) /\ At[i] = Len(a) + at[k]
        /\ ~(j <= Len(a)) /\ j <= Len(a) + Len(m) =>
             l \in 1 .. Len(m) /\ at[l] \in 1 .. Len(b) /\ At[j] = Len(a) + at[l]
    <3>1. ~(i <= Len(a)) /\ i <= Len(a) + Len(m) => k \in 1 .. Len(m)
      BY <2>0, <1>1
    <3>2. ~(j <= Len(a)) /\ j <= Len(a) + Len(m) => l \in 1 .. Len(m)
      BY <2>0, <1>1
    <3> QED BY <3>1, <3>2, <1>q, <1>v
  <2>2. k < l
    BY <2>0, <1>1
  <2> HIDE DEF k, l
  <2>3. CASE i <= Len(a)
    <3>1. At[i] = i
      BY <2>3, <1>v
    <3>2. CASE j <= Len(a)
      <4>1. At[j] = j
        BY <3>2, <1>v
      <4> QED BY <3>1, <4>1, <2>0
    <3>3. CASE ~(j <= Len(a)) /\ j <= Len(a) + Len(m)
      <4>1. at[l] \in 1 .. Len(b) /\ At[j] = Len(a) + at[l]
        BY <2>1, <3>3
      <4>2. \A x \in 1 .. Len(b) : i < Len(a) + x
        BY <2>0, <2>3, <1>n
      <4> QED BY <3>1, <4>1, <4>2
    <3>4. CASE ~(j <= Len(a) + Len(m))
      <4>1. At[j] = (j + Len(b)) - Len(m)
        BY <3>4, <1>v
      <4> QED BY <3>1, <3>4, <4>1, <2>0, <2>3, <1>1
    <3> QED BY <3>2, <3>3, <3>4
  <2>4. CASE ~(i <= Len(a)) /\ i <= Len(a) + Len(m)
    <3>1. k \in 1 .. Len(m) /\ at[k] \in 1 .. Len(b) /\ At[i] = Len(a) + at[k]
      BY <2>1, <2>4
    <3>2. CASE j <= Len(a) + Len(m)
      <4>1. l \in 1 .. Len(m) /\ at[l] \in 1 .. Len(b) /\ At[j] = Len(a) + at[l]
        BY <2>0, <2>1, <2>4, <3>2, <1>1
      <4>2. at[k] < at[l]
        BY <2>2, <3>1, <4>1, <1>p
      <4> QED BY <3>1, <4>1, <4>2, <1>1
    <3>3. CASE ~(j <= Len(a) + Len(m))
      <4>1. At[j] = (j + Len(b)) - Len(m)
        BY <3>3, <1>v
      <4>2. At[j] > Len(a) + Len(b)
        BY <2>0, <3>3, <4>1, <1>1
      <4>3. At[i] <= Len(a) + Len(b)
        BY <3>1, <1>1
      <4>4. At[i] \in Int
        BY <3>1, <1>1
      <4>5. At[j] \in Int
        BY <2>0, <4>1, <1>1
      <4>6. Len(a) + Len(b) \in Int
        BY <1>1
      <4>7. \A x, y, z \in Int : y <= z /\ x > z => y < x
        OBVIOUS
      <4> QED BY <4>2, <4>3, <4>4, <4>5, <4>6, <4>7
    <3> QED BY <3>2, <3>3
  <2>5. CASE ~(i <= Len(a) + Len(m))
    <3>1. At[i] = (i + Len(b)) - Len(m)
      BY <2>5, <1>v
    <3>2. At[j] = (j + Len(b)) - Len(m)
      <4>1. ~(j <= Len(a) + Len(m))
        BY <2>0, <2>5, <1>1
      <4> QED BY <4>1, <1>v
    <3> QED BY <2>0, <3>1, <3>2, <1>1
  <2> QED BY <2>3, <2>4, <2>5
<1>6. At \in [1 .. Len(t) -> 1 .. Len(s)]
  BY <1>4, <1>w
<1>7. Increasing(s) /\ UpTo(s, n)
  BY DEF s
<1>8. Increasing(t) /\ UpTo(t, n)
  <2>1. s \in Seq(Nat) /\ t \in Seq(Nat)
    BY <1>2, <1>3
  <2>2. \A i, j \in 1 .. Len(t) : i < j => At[i] < At[j]
    BY <1>5
  <2>3. \A i \in 1 .. Len(t) : t[i] = s[At[i]]
    BY <1>4
  <2> HIDE DEF At
  <2> QED BY <2>1, <2>2, <2>3, <1>6, <1>7, OrderPick
<1> QED BY <1>8 DEF t

\* So does leaving out a part of the line, which is a message with nothing in it.
LEMMA OrderDrop ==
  ASSUME NEW a \in Seq(Nat), NEW b \in Seq(Nat), NEW c \in Seq(Nat), NEW n \in Nat,
         Increasing((a \o b) \o c), UpTo((a \o b) \o c, n)
  PROVE  Increasing(a \o c) /\ UpTo(a \o c, n)
<1>1. <<>> \in Written(b)
  <2>1. Len(b) \in Nat /\ 0 \in 0 .. Len(b) /\ 1 .. 0 = {}
    BY LenProperties
  <2> DEFINE none == [i \in 1 .. 0 |-> i]
             left == [i \in 1 .. 0 |-> b[none[i]]]
  <2>2. none \in [1 .. 0 -> 1 .. Len(b)] /\ \A i, j \in 1 .. 0 : i < j => none[i] < none[j]
    BY <2>1
  <2> DEFINE Places(k) == {f \in [1 .. k -> 1 .. Len(b)] : \A i, j \in 1 .. k : i < j => f[i] < f[j]}
             Parts(k)  == {[i \in 1 .. k |-> b[at[i]]] : at \in Places(k)}
  <2>3. left \in Parts(0)
    <3>1. none \in Places(0)
      BY <2>2
    <3> HIDE DEF none, Places
    <3> QED BY <3>1
  <2>5. DOMAIN left = {}
    BY <2>1
  <2> HIDE DEF left, none
  <2>4. left \in Written(b)
    <3>1. Written(b) = UNION {Parts(k) : k \in 0 .. Len(b)}
      BY DEF Written
    <3> HIDE DEF Parts
    <3> QED BY <2>1, <2>3, <3>1
  <2>6. left \in Seq(Nat) /\ Len(left) \in Nat /\ DOMAIN left = 1 .. Len(left)
    BY <2>4, MessageOfBatch, LenProperties
  <2>7. Len(left) = 0
    BY <2>5, <2>6
  <2>8. left = <<>>
    BY <2>6, <2>7, EmptySeq
  <2> QED BY <2>4, <2>8
<1>2. a \o <<>> = a
  BY ConcatEmptySeq
<1> QED BY <1>1, <1>2, OrderThin

\* A sequence is its head and its tail.
LEMMA HeadAndTail ==
  ASSUME NEW s \in Seq(Nat), s # <<>>
  PROVE  /\ Head(s) \in Nat /\ <<Head(s)>> \in Seq(Nat) /\ Tail(s) \in Seq(Nat)
         /\ s = <<Head(s)>> \o Tail(s)
<1> DEFINE h == <<Head(s)>>
           t == Tail(s)
<1>1. Head(s) = s[1] /\ Head(s) \in Nat /\ Len(s) \in Nat \ {0}
  BY HeadTailProperties, EmptySeq
<1>2. /\ t \in Seq(Nat) /\ Len(t) = Len(s) - 1
      /\ \A i \in 1 .. Len(t) : t[i] = s[i + 1]
  BY HeadTailProperties
<1>3. h \in Seq(Nat) /\ Len(h) = 1 /\ h[1] = s[1]
  BY <1>1
<1>4. h \in Seq(Nat) /\ t \in Seq(Nat)
  BY <1>2, <1>3
<1> HIDE DEF h, t
<1>5. /\ h \o t \in Seq(Nat) /\ Len(h \o t) = Len(h) + Len(t)
      /\ \A i \in 1 .. Len(h) + Len(t) : (h \o t)[i] = IF i <= Len(h) THEN h[i] ELSE t[i - Len(h)]
  BY <1>4, ConcatProperties
<1>6. ASSUME NEW i \in 1 .. Len(s) PROVE (h \o t)[i] = s[i]
  <2>0. Len(h) + Len(t) = Len(s)
    BY <1>1, <1>2, <1>3
  <2>1. CASE i = 1
    BY <2>0, <2>1, <1>1, <1>3, <1>5
  <2>2. CASE i # 1
    <3>1. i - 1 \in 1 .. Len(t) /\ (i - 1) + 1 = i
      BY <2>2, <1>1, <1>2
    <3>2. (h \o t)[i] = t[i - 1]
      <4>1. i \in 1 .. Len(h) + Len(t) /\ ~(i <= Len(h)) /\ i - Len(h) = i - 1
        BY <2>0, <2>2, <1>1, <1>3
      <4> QED BY <4>1, <1>5
    <3>3. t[i - 1] = s[i]
      BY <3>1, <1>2
    <3> QED BY <3>2, <3>3
  <2> QED BY <2>1, <2>2
<1>7. h \o t = s
  <2>1. h \o t \in Seq(Nat) /\ s \in Seq(Nat) /\ Len(h \o t) = Len(s)
    BY <1>1, <1>2, <1>3, <1>5
  <2> QED BY <1>6, <2>1, SeqEqual
<1> QED BY <1>1, <1>2, <1>3, <1>7 DEF h, t

\* Where a line is cut does not matter.
LEMMA Regroup ==
  ASSUME NEW a \in Seq(Nat), NEW b \in Seq(Nat), NEW c \in Seq(Nat)
  PROVE  (a \o b) \o c = a \o (b \o c)
BY ConcatAssociative

\* The head of a sequence goes to the end of the one before it: the line is the same.
LEMMA MoveHead ==
  ASSUME NEW a \in Seq(Nat), NEW s \in Seq(Nat), s # <<>>
  PROVE  (a \o <<Head(s)>>) \o Tail(s) = a \o s
<1> DEFINE h == <<Head(s)>>
           t == Tail(s)
<1>1. h \in Seq(Nat) /\ t \in Seq(Nat) /\ s = h \o t
  BY HeadAndTail
<1> HIDE DEF h, t
<1>2. (a \o h) \o t = a \o s
  BY <1>1, Regroup
<1> QED BY <1>2 DEF h, t

\* Events and packets move along the line, leave it, or join its end.
LEMMA OrderStep ==
  ASSUME TypeOK, JoinOrder, Ordered, [Next]_vars
  PROVE  Ordered'
<1> DEFINE Out   == sent \o Pending
           Done  == Out \o evtq
           Ahead == Done \o InHand
<1>0. /\ sent \in Seq(Nat) /\ batch \in Seq(Nat) /\ Pending \in Seq(Nat) /\ evtq \in Seq(Nat)
      /\ InHand \in Seq(Nat) /\ pktq \in Seq(Nat) /\ <<>> \in Seq(Nat)
      /\ arrived \in Nat /\ pkt \in Nat /\ <<pkt>> \in Seq(Nat)
  BY DEF TypeOK, Pending, InHand
<1>1. Out \in Seq(Nat) /\ Done \in Seq(Nat) /\ Ahead \in Seq(Nat) /\ Line \in Seq(Nat)
      /\ Line = Ahead \o pktq
  BY <1>0, ConcatProperties DEF Line
<1>2. CASE CapturePacket
  <2>1. UNCHANGED <<sent, Pending, evtq, InHand>> /\ arrived' = arrived + 1
    BY <1>2 DEF CapturePacket, publish, analysis, Pending, InHand
  <2>2. CASE pktq' = pktq
    BY <2>1, <2>2, <1>0, <1>1, OrderAppend DEF Ordered, Line
  <2>3. CASE pktq' = Append(pktq, arrived + 1)
    <3> DEFINE new == <<arrived + 1>>
    <3>1. pktq' = pktq \o new /\ new \in Seq(Nat)
      BY <1>0, <2>3, AppendIsConcat
    <3> HIDE DEF new
    <3>3. Line' = Ahead \o (pktq \o new)
      BY <2>1, <3>1 DEF Line
    <3>4. Line' = Line \o new
      <4>1. Ahead \in Seq(Nat) /\ pktq \in Seq(Nat) /\ Line = Ahead \o pktq
        BY <1>0, <1>1
      <4> HIDE DEF Ahead
      <4> QED BY <3>1, <3>3, <4>1, Regroup, Zenon
    <3>2. Line' = Line \o <<arrived + 1>>
      BY <3>4 DEF new
    <3> QED BY <1>0, <1>1, <2>1, <3>2, OrderAppend DEF Ordered
  <2> QED BY <1>2, <2>2, <2>3 DEF CapturePacket
<1>3. CASE AnalysisPop
  <2>1. /\ UNCHANGED <<sent, Pending, evtq, arrived>>
        /\ pktq # <<>> /\ InHand = <<>> /\ InHand' = <<Head(pktq)>> /\ pktq' = Tail(pktq)
    BY <1>3 DEF AnalysisPop, publish, world, Pending, InHand
  <2>2. Line = Done \o pktq
    BY <1>1, <2>1, ConcatEmptySeq
  <2>3. Line' = (Done \o <<Head(pktq)>>) \o Tail(pktq)
    BY <2>1 DEF Line
  <2>4. Line' = Line
    BY <1>0, <1>1, <2>1, <2>2, <2>3, MoveHead
  <2> QED BY <2>1, <2>4 DEF Ordered
<1>4. ASSUME UNCHANGED <<sent, Pending, evtq, pktq, arrived>>, InHand = <<pkt>>, InHand' = <<>>
      PROVE  Ordered'                    \* the packet in hand gave no event, or its event was dropped
  <2>1. Line = (Done \o <<pkt>>) \o pktq
    BY <1>1, <1>4
  <2>2. Line' = Done \o pktq
    BY <1>1, <1>4, ConcatEmptySeq DEF Line
  <2>3. Increasing((Done \o <<pkt>>) \o pktq) /\ UpTo((Done \o <<pkt>>) \o pktq, arrived)
    BY <2>1 DEF Ordered
  <2>4. Done \in Seq(Nat) /\ <<pkt>> \in Seq(Nat) /\ pktq \in Seq(Nat) /\ arrived \in Nat
    BY <1>0
  <2> HIDE DEF Done
  <2>5. Increasing(Done \o pktq) /\ UpTo(Done \o pktq, arrived)
    BY <2>3, <2>4, OrderDrop
  <2>6. Increasing(Line') /\ UpTo(Line', arrived)
    BY <2>2, <2>5
  <2> QED BY <1>4, <2>6 DEF Ordered
<1>5. CASE AnalysisSilent
  BY <1>4, <1>5 DEF AnalysisSilent, publish, rings, world, Pending, InHand
<1>6. CASE AnalysisEvent
  <2>1. UNCHANGED <<sent, Pending, pktq, arrived>> /\ InHand = <<pkt>> /\ InHand' = <<>>
    BY <1>6 DEF AnalysisEvent, publish, world, Pending, InHand
  <2>2. CASE evtq' = evtq
    BY <1>4, <2>1, <2>2
  <2>3. CASE evtq' = Append(evtq, pkt)
    <3>1. evtq' = evtq \o <<pkt>>
      BY <1>0, <2>3, AppendIsConcat
    <3>2. Line' = (Out \o (evtq \o <<pkt>>)) \o pktq
      <4>1. evtq \o <<pkt>> \in Seq(Nat)
        BY <1>0, ConcatProperties
      <4>2. Out \o (evtq \o <<pkt>>) \in Seq(Nat)
        BY <1>1, <4>1, ConcatProperties
      <4>3. (Out \o (evtq \o <<pkt>>)) \o <<>> = Out \o (evtq \o <<pkt>>)
        BY <4>2, ConcatEmptySeq
      <4> QED BY <2>1, <3>1, <4>3 DEF Line
    <3>3. Line = (Done \o <<pkt>>) \o pktq
      BY <1>1, <2>1
    <3>5. Out \o (evtq \o <<pkt>>) = Done \o <<pkt>>
      <4> DEFINE hand == <<pkt>>
      <4>1. Out \in Seq(Nat) /\ evtq \in Seq(Nat) /\ hand \in Seq(Nat)
        BY <1>0, <1>1
      <4> HIDE DEF Out, hand
      <4>2. (Out \o evtq) \o hand = Out \o (evtq \o hand)
        BY <4>1, Regroup, Zenon
      <4> QED BY <4>2 DEF hand
    <3>4. Line' = Line
      BY <3>2, <3>3, <3>5
    <3> QED BY <2>1, <3>4 DEF Ordered
  <2> QED BY <1>6, <2>2, <2>3 DEF AnalysisEvent
<1>7. CASE PublishPop
  <2>1. /\ UNCHANGED <<sent, InHand, pktq, arrived>>
        /\ evtq # <<>> /\ Pending = batch /\ Pending' = Append(batch, Head(evtq)) /\ evtq' = Tail(evtq)
    BY <1>7 DEF PublishPop, analysis, world, Pending, InHand
  <2>2. Pending' = batch \o <<Head(evtq)>>
    <3>1. batch \in Seq(Nat) /\ Head(evtq) \in Nat
      BY <1>0, <2>1, HeadAndTail
    <3> QED BY <2>1, <3>1, AppendIsConcat
  <2>3. (sent \o (batch \o <<Head(evtq)>>)) \o Tail(evtq) = Done
    <3>1. sent \o (batch \o <<Head(evtq)>>) = Out \o <<Head(evtq)>>
      <4> DEFINE head == <<Head(evtq)>>
      <4>1. sent \in Seq(Nat) /\ batch \in Seq(Nat) /\ head \in Seq(Nat)
        BY <1>0, <2>1, HeadAndTail
      <4> HIDE DEF head
      <4>2. (sent \o batch) \o head = sent \o (batch \o head)
        BY <4>1, Regroup, Zenon
      <4> QED BY <2>1, <4>2 DEF head
    <3>2. (Out \o <<Head(evtq)>>) \o Tail(evtq) = Out \o evtq
      BY <1>0, <1>1, <2>1, MoveHead
    <3> QED BY <3>1, <3>2
  <2>4. Line' = Line
    BY <2>1, <2>2, <2>3 DEF Line
  <2> QED BY <2>1, <2>4 DEF Ordered
<1> DEFINE Behind == (evtq \o InHand) \o pktq
<1>b. evtq \o InHand \in Seq(Nat) /\ Behind \in Seq(Nat)
  BY <1>0, ConcatProperties
<1>c. ASSUME NEW s \in Seq(Nat)
      PROVE  ((s \o evtq) \o InHand) \o pktq = s \o Behind
  <2> DEFINE near == evtq \o InHand
  <2>1. near \in Seq(Nat) /\ evtq \in Seq(Nat) /\ InHand \in Seq(Nat) /\ pktq \in Seq(Nat)
    BY <1>0, <1>b
  <2>2. (s \o evtq) \o InHand = s \o near
    BY <2>1, Regroup, Zenon
  <2> HIDE DEF near
  <2>3. (s \o near) \o pktq = s \o (near \o pktq)
    BY <2>1, Regroup, Zenon
  <2> QED BY <2>2, <2>3 DEF near
<1>d. Line = (sent \o Pending) \o Behind
  BY <1>1, <1>c DEF Line
<1>8. CASE PublishSend
  <2>0. PICK message \in Written(batch) : sent' = sent \o message
    BY <1>8 DEF PublishSend
  <2>1. /\ UNCHANGED <<evtq, InHand, pktq, arrived>>
        /\ Pending = batch /\ Pending' = <<>>
    BY <1>8 DEF PublishSend, rings, analysis, world, Pending, InHand
  <2>2. message \in Seq(Nat) /\ sent \o message \in Seq(Nat)
    BY <1>0, <2>0, MessageOfBatch, ConcatProperties
  <2>3. Line' = (((sent \o message) \o evtq) \o InHand) \o pktq
    BY <2>0, <2>1, <2>2, ConcatEmptySeq DEF Line
  <2>4. Line' = (sent \o message) \o Behind
    BY <2>2, <2>3, <1>c
  <2> HIDE DEF Behind
  <2>5. Increasing((sent \o batch) \o Behind) /\ UpTo((sent \o batch) \o Behind, arrived)
    BY <1>d, <2>1 DEF Ordered
  <2>6. Increasing(Line') /\ UpTo(Line', arrived)
    BY <1>0, <1>b, <2>0, <2>4, <2>5, OrderThin
  <2> QED BY <2>1, <2>6 DEF Ordered
<1>9. CASE PublishDiscard
  <2>1. UNCHANGED <<sent, evtq, InHand, pktq, arrived>> /\ Pending' = <<>>
    BY <1>9 DEF PublishDiscard, rings, analysis, world, Pending, InHand
  <2>2. Line' = sent \o Behind
    BY <1>0, <1>c, <2>1, ConcatEmptySeq DEF Line
  <2> HIDE DEF Behind
  <2> QED BY <1>0, <1>b, <1>d, <2>1, <2>2, OrderDrop DEF Ordered
<1>10. CASE PublishCountEvents
  BY <1>10 DEF PublishCountEvents, rings, analysis, world, Pending, InHand, Ordered, Line
<1>11. CASE ~PacketMoves /\ ~EventMoves
  BY <1>11, PacketFrame, EventFrame DEF Ordered, Line
<1> QED BY <1>2, <1>3, <1>5, <1>6, <1>7, <1>8, <1>9, <1>10, <1>11 DEF PacketMoves, EventMoves

(***************************************************************************)
(* The lossy line.                                                         *)
(***************************************************************************)
\* What was given to the broker is an increasing part of what arrived, because
\* it is the far end of the line.
LEMMA SentInOrder ==
  ASSUME TypeOK, Ordered
  PROVE  Lossy!InOrderUpTo(sent, arrived)
<1> DEFINE Behind == ((Pending \o evtq) \o InHand) \o pktq
<1>0. /\ sent \in Seq(Nat) /\ Pending \in Seq(Nat) /\ evtq \in Seq(Nat)
      /\ InHand \in Seq(Nat) /\ pktq \in Seq(Nat)
  BY DEF TypeOK, Pending, InHand
<1>1. Behind \in Seq(Nat) /\ Line = sent \o Behind
  <2> DEFINE near == Pending \o evtq
             mid  == near \o InHand
  <2>1. near \in Seq(Nat)
    BY <1>0, ConcatProperties
  <2>2. (sent \o Pending) \o evtq = sent \o near
    <3>1. sent \in Seq(Nat) /\ Pending \in Seq(Nat) /\ evtq \in Seq(Nat)
      BY <1>0
    <3> HIDE DEF mid, Behind
    <3> QED BY <3>1, Regroup, Zenon
  <2> HIDE DEF near
  <2>3. mid \in Seq(Nat) /\ (sent \o near) \o InHand = sent \o mid
    <3>1. mid \in Seq(Nat)
      BY <1>0, <2>1, ConcatProperties
    <3>2. (sent \o near) \o InHand = sent \o (near \o InHand)
      <4>1. sent \in Seq(Nat) /\ near \in Seq(Nat) /\ InHand \in Seq(Nat)
        BY <1>0, <2>1
      <4> HIDE DEF mid, Behind
      <4> QED BY <4>1, Regroup, Zenon
    <3> QED BY <3>1, <3>2
  <2>4. Line = (sent \o mid) \o pktq
    BY <2>2, <2>3 DEF Line
  <2>5. Behind = mid \o pktq
    BY DEF near
  <2> HIDE DEF mid, Behind
  <2>6. mid \o pktq \in Seq(Nat) /\ (sent \o mid) \o pktq = sent \o (mid \o pktq)
    <3>1. mid \o pktq \in Seq(Nat)
      BY <1>0, <2>3, ConcatProperties
    <3>2. (sent \o mid) \o pktq = sent \o (mid \o pktq)
      <4>1. sent \in Seq(Nat) /\ mid \in Seq(Nat) /\ pktq \in Seq(Nat)
        BY <1>0, <2>3
      <4> QED BY <4>1, Regroup, Zenon
    <3> QED BY <3>1, <3>2
  <2> QED BY <2>4, <2>5, <2>6
<1> HIDE DEF Behind
<1>2. /\ Len(sent) \in Nat /\ Len(Behind) \in Nat /\ Len(Line) = Len(sent) + Len(Behind)
      /\ \A i \in 1 .. Len(sent) : i \in 1 .. Len(Line) /\ Line[i] = sent[i]
  BY <1>0, <1>1, LenProperties, ConcatProperties
<1> QED BY <1>2 DEF Ordered, Increasing, UpTo, Lossy!InOrderUpTo

\* At the start nothing has arrived and nothing was sent.
LEMMA InitLossy == Init => Lossy!LInit
BY DEF Init, Lossy!LInit

\* A packet is offered when pcap hands it over and its event delivered by
\* publisher_send_batch; no other step of any thread shows on the line.
LEMMA NextLossy == IInv /\ IInv' /\ [Next]_vars => [Lossy!LNext]_(Lossy!lvars)
<1> SUFFICES ASSUME IInv, IInv', [Next]_vars
             PROVE  Lossy!LNext \/ UNCHANGED Lossy!lvars
  OBVIOUS
<1> USE DEF Lossy!lvars
<1>0. sent \in Seq(Nat) /\ batch \in Seq(Nat)
  BY DEF IInv, TypeOK
<1>1. CASE CapturePacket
  BY <1>1 DEF CapturePacket, publish, Lossy!LNext, Lossy!Offer
<1>2. CASE PublishSend
  <2>0. UNCHANGED arrived
    BY <1>2 DEF PublishSend, world
  <2>1. PICK message \in Written(batch) : sent' = sent \o message
    BY <1>2 DEF PublishSend
  <2>4. message \in Seq(Nat)
    BY <1>0, <2>1, MessageOfBatch
  <2>2. CASE message = <<>>
    BY <1>0, <2>0, <2>1, <2>2, ConcatEmptySeq
  <2>3. CASE message # <<>>
    <3>1. Len(sent) \in Nat /\ Len(message) \in Nat \ {0}
      BY <1>0, <2>3, <2>4, EmptySeq, LenProperties
    <3>2. Len(sent') = Len(sent) + Len(message) /\ \A i \in 1 .. Len(sent) : sent'[i] = sent[i]
      BY <1>0, <2>1, <2>4, <3>1, ConcatProperties
    <3>3. (TypeOK /\ Ordered)'
      BY DEF IInv
    <3>4. Lossy!InOrderUpTo(sent, arrived)'
      BY <3>3, SentInOrder, PTL
    <3>5. Lossy!InOrderUpTo(sent', arrived)
      BY <2>0, <3>4 DEF Lossy!InOrderUpTo
    <3> QED BY <2>0, <3>1, <3>2, <3>5 DEF Lossy!LNext, Lossy!Deliver
  <2> QED BY <2>2, <2>3
<1>3. CASE ~CapturePacket /\ ~PublishSend
  <2>1. CASE Main \/ CaptureThread \/ CaptureLoopError
    BY <2>1 DEF Main, MainInitFails, MainStart, MainJoinCapture, MainJoinAnalysis, MainJoinPublish,
                MainStopMetrics, MainExit, MainJoin, CaptureThread, CaptureOpen, CaptureOpenFails,
                CaptureBreak, CaptureClose, CaptureForget, CaptureEnd, CaptureLeaves,
                CaptureLoopError, publish, world
  <2>2. CASE AnalysisThread
    BY <2>2 DEF AnalysisThread, AnalysisPop, AnalysisSilent, AnalysisEvent, AnalysisEmpty,
                AnalysisCheck, AnalysisEnd, publish, world
  <2>3. CASE PublishThread
    BY <1>3, <2>3 DEF PublishThread, PublishAlloc, PublishPop, PublishNoPop, PublishCheck,
                      PublishRetry, PublishDiscard, PublishCountBatch, PublishCountEvents, world
  <2>4. CASE MetricsThread \/ StopHandler \/ StopRunning
    BY <2>4 DEF MetricsThread, MetricsWake, MetricsSend, MetricsEnd, StopHandler, StopTest,
                StopBreak, StopBreakClosed, StopRunning, publish, world
  <2>5. CASE BatchAges \/ BrokerDown \/ BrokerUp
    BY <2>5 DEF BatchAges, BrokerDown, BrokerUp, publish, world
  <2>6. CASE Ended \/ UNCHANGED vars
    BY <2>6 DEF Ended, vars, publish, world
  <2> QED BY <1>3, <2>1, <2>2, <2>3, <2>4, <2>5, <2>6 DEF Next
<1> QED BY <1>1, <1>2, <1>3

(***************************************************************************)
(* The rings.  Pipeline takes an rb_push or rb_pop as one step on a        *)
(* sequence; RingBuf shows what the real one does step by step.  Both      *)
(* keep to BoundedFifo, which is what lets the one stand for the other.    *)
(* Pipeline does not keep the answer of the last rb_pop, so two history    *)
(* variables do: the item, or 0 for "empty".                               *)
(***************************************************************************)
CONSTANT OvfMod                 \* overflow_count is a uint64_t
VARIABLES gotPkt, gotEvt        \* last answers of analysis_thread's and publish_thread's rb_pop

hvars == <<vars, gotPkt, gotEvt>>

HInit == Init /\ gotPkt = 0 /\ gotEvt = 0

HNext ==
  /\ Next
  /\ gotPkt' = IF AnalysisPop THEN Head(pktq) ELSE IF AnalysisEmpty THEN 0 ELSE gotPkt
  /\ gotEvt' = IF PublishPop THEN Head(evtq)
               ELSE IF PublishNoPop /\ Len(batch) < BatchSize THEN 0  \* evtq is empty
               ELSE gotEvt

HSpec == HInit /\ [][HNext]_hvars

Packets == INSTANCE BoundedFifo WITH Values <- Nat \ {0}, NoItem <- 0, queue <- pktq,
                                     overflow <- pktOvf % OvfMod, got <- gotPkt
Events  == INSTANCE BoundedFifo WITH Values <- Nat \ {0}, NoItem <- 0, queue <- evtq,
                                     overflow <- evtOvf % OvfMod, got <- gotEvt

\* What a thread works on is what its ring answered: the packet under analysis,
\* and the event that joined the batch last.
AnswersUsed ==
  /\ apc = "analyze" => pkt = gotPkt
  /\ batch # <<>> /\ gotEvt # 0 => batch[Len(batch)] = gotEvt

\* A natural number and its remainder.
LEMMA Division ==
  ASSUME NEW a \in Nat, NEW m \in Nat \ {0}
  PROVE  a % m \in 0 .. m - 1 /\ \E q \in Int : a = q * m + (a % m)
<1>1. a % m \in 0 .. m - 1
  OBVIOUS
<1>2. a \div m \in Int /\ a = m * (a \div m) + (a % m)
  OBVIOUS
<1>3. m * (a \div m) = (a \div m) * m
  BY <1>2
<1> QED BY <1>1, <1>2, <1>3

\* The remainder is the only one in its range.
LEMMA Remainder ==
  ASSUME NEW a \in Nat, NEW m \in Nat \ {0}, NEW q \in Int, NEW r \in 0 .. m - 1, a = q * m + r
  PROVE  a % m = r
<1>1. PICK p \in Int : a = p * m + (a % m)
  BY Division
<1>2. a % m \in 0 .. m - 1
  BY Division
<1>3. (p - q) * m = r - (a % m)
  BY <1>1, <1>2
<1>4. ~(p - q >= 1)
  <2> SUFFICES ASSUME p - q >= 1 PROVE FALSE
    OBVIOUS
  <2>1. (p - q) * m >= m
    OBVIOUS
  <2> QED BY <2>1, <1>2, <1>3
<1>5. ~(p - q <= -1)
  <2> SUFFICES ASSUME p - q <= -1 PROVE FALSE
    OBVIOUS
  <2>1. (p - q) * m <= -m
    OBVIOUS
  <2> QED BY <2>1, <1>2, <1>3
<1>6. p - q = 0
  BY <1>4, <1>5
<1> QED BY <1>2, <1>3, <1>6

\* A counter that wraps counts on from its remainder.
LEMMA CountsOn ==
  ASSUME NEW n \in Nat, NEW m \in Nat \ {0}
  PROVE  (n + 1) % m = ((n % m) + 1) % m
<1>1. n % m \in 0 .. m - 1
  BY Division
<1>2. PICK q \in Int : n = q * m + (n % m)
  BY Division
<1>3. CASE (n % m) + 1 < m
  <2>1. (n % m) + 1 \in 0 .. m - 1 /\ n + 1 = q * m + ((n % m) + 1) /\ n + 1 \in Nat
    BY <1>1, <1>2, <1>3
  <2>2. (n + 1) % m = (n % m) + 1
    BY <2>1, Remainder
  <2>3. (n % m) + 1 = 0 * m + ((n % m) + 1) /\ (n % m) + 1 \in Nat
    BY <1>1
  <2>4. ((n % m) + 1) % m = (n % m) + 1
    BY <2>1, <2>3, Remainder
  <2> QED BY <2>2, <2>4
<1>4. CASE (n % m) + 1 = m
  <2>1. (q + 1) * m = q * m + m
    OBVIOUS
  <2>2. n + 1 = (q + 1) * m + 0 /\ q + 1 \in Int /\ 0 \in 0 .. m - 1 /\ n + 1 \in Nat
    BY <1>1, <1>2, <1>4, <2>1
  <2>5. (n + 1) % m = 0
    BY <2>2, Remainder
  <2>3. m = 1 * m + 0
    OBVIOUS
  <2>4. m % m = 0
    BY <2>3, Remainder
  <2> QED BY <1>4, <2>4, <2>5
<1> QED BY <1>1, <1>3, <1>4

\* The packet under analysis has arrived.
LEMMA InHandArrived ==
  ASSUME TypeOK, Ordered, apc = "analyze"
  PROVE  pkt \in Nat \ {0}
<1> DEFINE Done == sent \o Pending \o evtq
<1>0. /\ sent \in Seq(Nat) /\ Pending \in Seq(Nat) /\ evtq \in Seq(Nat)
      /\ InHand = <<pkt>> /\ <<pkt>> \in Seq(Nat) /\ Len(<<pkt>>) = 1 /\ <<pkt>>[1] = pkt
      /\ pktq \in Seq(Nat) /\ arrived \in Nat
  BY DEF TypeOK, Pending, InHand
<1>1. Done \in Seq(Nat) /\ Line = (Done \o <<pkt>>) \o pktq
  BY <1>0, ConcatProperties DEF Line
<1> HIDE DEF Done
<1>2. /\ Done \o <<pkt>> \in Seq(Nat) /\ Len(Done) \in Nat /\ Len(pktq) \in Nat
      /\ Len(Done \o <<pkt>>) = Len(Done) + 1
      /\ (Done \o <<pkt>>)[Len(Done) + 1] = pkt
  BY <1>0, <1>1, LenProperties, ConcatProperties
<1>3. /\ Len(Line) = Len(Done) + 1 + Len(pktq)
      /\ Line[Len(Done) + 1] = pkt
  BY <1>0, <1>1, <1>2, ConcatProperties
<1>4. Len(Done) + 1 \in 1 .. Len(Line)
  BY <1>2, <1>3
<1>5. pkt \in 1 .. arrived
  BY <1>3, <1>4 DEF Ordered, UpTo
<1> QED BY <1>0, <1>5

\* The steps on the ring of packets: packet_handler and analysis_thread.
LEMMA PacketRingStep ==
  ASSUME OvfMod \in Nat \ {0}, IInv, [HNext]_hvars
  PROVE  [Packets!FNext]_(Packets!fvars)
<1> SUFFICES Packets!FNext \/ UNCHANGED Packets!fvars
  OBVIOUS
<1> USE DEF Packets!fvars
<1>0. TypeOK /\ JoinOrder /\ [Next]_vars
  BY DEF IInv, HNext, hvars
<1>1. CASE UNCHANGED hvars
  BY <1>1 DEF hvars, vars, rings
<1> SUFFICES ASSUME HNext PROVE Packets!FNext \/ UNCHANGED Packets!fvars
  BY <1>1
<1>g. gotPkt' = IF AnalysisPop THEN Head(pktq) ELSE IF AnalysisEmpty THEN 0 ELSE gotPkt
  BY DEF HNext
<1>2. CASE CapturePacket
  <2>1. UNCHANGED <<apc, gotPkt>>
    BY <1>2, <1>g DEF CapturePacket, analysis, AnalysisPop, AnalysisEmpty
  <2>2. CASE Len(pktq) < Cap
    <3>1. arrived + 1 \in Nat \ {0}
      BY <1>0, TypeParts DEF NumbersOK
    <3>2. pktq' = Append(pktq, arrived + 1) /\ UNCHANGED pktOvf
      BY <1>2, <2>2 DEF CapturePacket
    <3>3. Packets!Put(arrived + 1)
      BY <2>1, <2>2, <3>2 DEF Packets!Put
    <3> QED BY <3>1, <3>3 DEF Packets!FNext
  <2>3. CASE ~(Len(pktq) < Cap)
    <3>1. pktOvf' = pktOvf + 1 /\ UNCHANGED pktq
      BY <1>2, <2>3 DEF CapturePacket
    <3>2. Len(pktq) = Cap /\ pktOvf \in Nat
      BY <1>0, <2>3, CapAssumption DEF TypeOK
    <3>3. pktOvf' % OvfMod = ((pktOvf % OvfMod) + 1) % OvfMod
      BY <3>1, <3>2, CountsOn
    <3>4. Packets!Refuse
      BY <2>1, <3>1, <3>2, <3>3 DEF Packets!Refuse
    <3> QED BY <3>4 DEF Packets!FNext
  <2> QED BY <2>2, <2>3
<1>3. CASE AnalysisPop
  <2>1. Packets!Take
    BY <1>3, <1>g DEF AnalysisPop, Packets!Take
  <2> QED BY <2>1 DEF Packets!FNext
<1>4. CASE AnalysisEmpty
  <2>1. ~AnalysisPop
    BY <1>4 DEF AnalysisEmpty, AnalysisPop
  <2>2. Packets!TakeNothing
    BY <1>4, <1>g, <2>1 DEF AnalysisEmpty, rings, Packets!TakeNothing
  <2> QED BY <2>2 DEF Packets!FNext
<1>5. CASE ~CapturePacket /\ ~AnalysisPop /\ ~AnalysisEmpty
  <2>1. UNCHANGED gotPkt
    BY <1>5, <1>g
  <2>2. CASE AnalysisSilent \/ AnalysisEvent
    BY <2>1, <2>2 DEF AnalysisSilent, AnalysisEvent, rings
  <2>3. CASE ~AnalysisSilent /\ ~AnalysisEvent
    <3>1. UNCHANGED <<pktOvf, pktq>>
      BY <1>0, <1>5, <2>3, PacketFrame DEF PacketMoves
    <3> QED BY <2>1, <3>1
  <2> QED BY <2>2, <2>3
<1> QED BY <1>2, <1>3, <1>4, <1>5

\* The steps on the ring of events: publish_packet and publish_thread.
LEMMA EventRingStep ==
  ASSUME OvfMod \in Nat \ {0}, IInv, [HNext]_hvars
  PROVE  [Events!FNext]_(Events!fvars)
<1> SUFFICES Events!FNext \/ UNCHANGED Events!fvars
  OBVIOUS
<1> USE DEF Events!fvars
<1>0. TypeOK /\ JoinOrder /\ Ordered /\ [Next]_vars
  BY DEF IInv, HNext, hvars
<1>1. CASE UNCHANGED hvars
  BY <1>1 DEF hvars, vars, rings
<1> SUFFICES ASSUME HNext PROVE Events!FNext \/ UNCHANGED Events!fvars
  BY <1>1
<1>g. gotEvt' = IF PublishPop THEN Head(evtq)
                ELSE IF PublishNoPop /\ Len(batch) < BatchSize THEN 0
                ELSE gotEvt
  BY DEF HNext
<1>2. CASE AnalysisEvent
  <2>1. UNCHANGED gotEvt
    <3>1. ~PublishPop /\ ~PublishNoPop
      BY <1>2 DEF AnalysisEvent, publish, PublishPop, PublishNoPop, analysis
    <3> QED BY <1>g, <3>1
  <2>2. CASE Len(evtq) < Cap
    <3>1. pkt \in Nat \ {0}
      BY <1>0, <1>2, InHandArrived DEF AnalysisEvent
    <3>2. evtq' = Append(evtq, pkt) /\ UNCHANGED evtOvf
      BY <1>2, <2>2 DEF AnalysisEvent
    <3>3. Events!Put(pkt)
      BY <2>1, <2>2, <3>2 DEF Events!Put
    <3> QED BY <3>1, <3>3 DEF Events!FNext
  <2>3. CASE ~(Len(evtq) < Cap)
    <3>1. evtOvf' = evtOvf + 1 /\ UNCHANGED evtq
      BY <1>2, <2>3 DEF AnalysisEvent
    <3>2. Len(evtq) = Cap /\ evtOvf \in Nat
      BY <1>0, <2>3, CapAssumption DEF TypeOK
    <3>3. evtOvf' % OvfMod = ((evtOvf % OvfMod) + 1) % OvfMod
      BY <3>1, <3>2, CountsOn
    <3>4. Events!Refuse
      BY <2>1, <3>1, <3>2, <3>3 DEF Events!Refuse
    <3> QED BY <3>4 DEF Events!FNext
  <2> QED BY <2>2, <2>3
<1>3. CASE PublishPop
  <2>1. Events!Take
    BY <1>3, <1>g DEF PublishPop, Events!Take
  <2> QED BY <2>1 DEF Events!FNext
<1>4. CASE PublishNoPop
  <2>1. ~PublishPop
    BY <1>4 DEF PublishNoPop, PublishPop
  <2>2. CASE Len(batch) < BatchSize
    <3>1. Len(batch) # BatchSize
      BY <1>0, <2>2, BatchAssumption DEF TypeOK
    <3>2. Events!TakeNothing
      BY <1>4, <1>g, <2>1, <2>2, <3>1 DEF PublishNoPop, rings, Events!TakeNothing
    <3> QED BY <3>2 DEF Events!FNext
  <2>3. CASE ~(Len(batch) < BatchSize)
    BY <1>4, <1>g, <2>1, <2>3 DEF PublishNoPop, rings
  <2> QED BY <2>2, <2>3
<1>5. CASE ~AnalysisEvent /\ ~PublishPop /\ ~PublishNoPop
  <2>1. UNCHANGED gotEvt
    BY <1>5, <1>g
  <2>2. CASE PublishSend \/ PublishDiscard \/ PublishCountEvents
    BY <2>1, <2>2 DEF PublishSend, PublishDiscard, PublishCountEvents, rings
  <2>3. CASE ~PublishSend /\ ~PublishDiscard /\ ~PublishCountEvents
    <3>1. UNCHANGED <<evtOvf, evtq>>
      BY <1>0, <1>5, <2>3, EventFrame DEF EventMoves
    <3> QED BY <2>1, <3>1
  <2> QED BY <2>2, <2>3
<1> QED BY <1>2, <1>3, <1>4, <1>5

\* The history follows what the threads hold.
LEMMA AnswersStep ==
  ASSUME IInv, AnswersUsed, [HNext]_hvars
  PROVE  AnswersUsed'
<1>0. TypeOK /\ JoinOrder /\ [Next]_vars
  BY DEF IInv, HNext, hvars
<1>1. CASE UNCHANGED hvars
  BY <1>1 DEF hvars, vars, analysis, publish, AnswersUsed
<1> SUFFICES ASSUME HNext PROVE AnswersUsed'
  BY <1>1
<1>2. (apc = "analyze" => pkt = gotPkt)'
  <2>g. gotPkt' = IF AnalysisPop THEN Head(pktq) ELSE IF AnalysisEmpty THEN 0 ELSE gotPkt
    BY DEF HNext
  <2>1. CASE AnalysisPop
    BY <2>g, <2>1 DEF AnalysisPop
  <2>2. CASE AnalysisSilent \/ AnalysisEvent \/ AnalysisEmpty
    BY <2>2 DEF AnalysisSilent, AnalysisEvent, AnalysisEmpty
  <2>3. CASE ~AnalysisPop /\ ~AnalysisSilent /\ ~AnalysisEvent /\ ~AnalysisEmpty
    <3>1. UNCHANGED <<InHand, gotPkt>>
      <4>1. CASE CapturePacket
        BY <2>3, <2>g, <4>1 DEF CapturePacket, analysis, InHand
      <4>2. CASE ~CapturePacket
        BY <1>0, <2>3, <2>g, <4>2, PacketFrame DEF PacketMoves
      <4> QED BY <4>1, <4>2
    <3>2. apc' = "analyze" => apc = "analyze" /\ pkt' = pkt
      BY <3>1 DEF InHand
    <3> QED BY <3>1, <3>2 DEF AnswersUsed
  <2> QED BY <2>1, <2>2, <2>3
<1>3. (batch # <<>> /\ gotEvt # 0 => batch[Len(batch)] = gotEvt)'
  <2>g. gotEvt' = IF PublishPop THEN Head(evtq)
                  ELSE IF PublishNoPop /\ Len(batch) < BatchSize THEN 0
                  ELSE gotEvt
    BY DEF HNext
  <2>1. CASE PublishPop
    <3>1. /\ batch \in Seq(Nat) /\ Head(evtq) \in Nat
          /\ batch' = Append(batch, Head(evtq)) /\ gotEvt' = Head(evtq)
      BY <1>0, <2>1, <2>g, HeadAndTail DEF PublishPop, TypeOK
    <3> QED BY <3>1, AppendProperties
  <2>2. CASE PublishDiscard \/ PublishCountEvents
    BY <2>2 DEF PublishDiscard, PublishCountEvents
  <2>3. CASE ~PublishPop /\ ~PublishDiscard /\ ~PublishCountEvents
    <3>1. UNCHANGED batch
      <4>1. CASE AnalysisEvent \/ PublishSend
        BY <4>1 DEF AnalysisEvent, PublishSend, publish
      <4>2. CASE ~AnalysisEvent /\ ~PublishSend
        BY <1>0, <2>3, <4>2, EventFrame DEF EventMoves
      <4> QED BY <4>1, <4>2
    <3>2. gotEvt' = gotEvt \/ gotEvt' = 0
      BY <2>3, <2>g
    <3> QED BY <3>1, <3>2 DEF AnswersUsed
  <2> QED BY <2>1, <2>2, <2>3
<1> QED BY <1>2, <1>3 DEF AnswersUsed

(***************************************************************************)
(* The theorems.                                                           *)
(***************************************************************************)
\* The parts of IInv hold together from the start on.
THEOREM PipelineInvariant == Spec => []IInv
<1>1. Init => IInv
  <2> SUFFICES ASSUME Init PROVE IInv
    OBVIOUS
  <2>1. TypeOK
    BY TypeInit
  <2>2. JoinOrder /\ ThreadsOutlived
    BY DEF Init, JoinOrder, ThreadsOutlived
  <2>3. NothingVanishes
    BY EmptySeq DEF Init, NothingVanishes, InHand, Pending
  <2>4. Ordered
    <3>1. Line = <<>> /\ Len(Line) = 0
      BY ConcatEmptySeq, EmptySeq DEF Init, Line, InHand, Pending
    <3> QED BY <3>1 DEF Ordered, Increasing, UpTo
  <2>5. Emptied
    BY DEF Init, Emptied
  <2> QED BY <2>1, <2>2, <2>3, <2>4, <2>5 DEF IInv
<1>2. IInv /\ [Next]_vars => IInv'
  <2> SUFFICES ASSUME IInv, [Next]_vars PROVE IInv'
    OBVIOUS
  <2>1. TypeOK /\ JoinOrder /\ ThreadsOutlived /\ Ordered /\ Emptied
        /\ PacketsCounted /\ EventsCounted /\ EventsReported
    BY DEF IInv, NothingVanishes, PacketsCounted, EventsCounted, EventsReported
  <2>2. TypeOK' /\ JoinOrder' /\ ThreadsOutlived' /\ Ordered' /\ Emptied'
    BY <2>1, TypeStep, JoinStep, OrderStep, EmptiedStep
  <2>3. PacketsCounted' /\ EventsCounted' /\ EventsReported'
    BY <2>1, PacketStep, EventStep, ReportStep
  <2> QED BY <2>2, <2>3 DEF IInv, NothingVanishes, PacketsCounted, EventsCounted, EventsReported
<1> QED BY <1>1, <1>2, PTL DEF Spec

\* Values every variable keeps to; the rings and the batch keep to their sizes.
THEOREM TypeCorrect == Spec => []TypeOK
<1>1. IInv => TypeOK
  BY DEF IInv
<1> QED BY <1>1, PipelineInvariant, PTL

\* No packet and no event vanishes on its way through the threads of pipeline.c.
THEOREM NothingLost == Spec => []NothingVanishes
<1>1. IInv => NothingVanishes
  BY DEF IInv
<1> QED BY <1>1, PipelineInvariant, PTL

\* The books balance when pipeline_run has returned, in terms of the counters the
\* agent itself keeps and of what the shutdown left in the rings: nothing is in a
\* thread's hands any more.  g_events_sent is what the broker was given and, on top of
\* it, the events that had no memory for their JSON: the agent cannot tell the two apart.
BooksBalance ==
  mpc = "exited" =>
    /\ arrived = pktOvf + Len(pktq) + analysed
    /\ emitted = evtOvf + Len(evtq) + eventsSent + discarded
    /\ eventsSent = Len(sent) + skipped

\* What the agent has counted at its end accounts for every packet and every event.
THEOREM BooksClosed == Spec => []BooksBalance
<1>1. IInv => BooksBalance
  <2> SUFFICES ASSUME IInv, mpc = "exited"
               PROVE  /\ arrived = pktOvf + Len(pktq) + analysed
                      /\ emitted = evtOvf + Len(evtq) + eventsSent + discarded
                      /\ eventsSent = Len(sent) + skipped
    BY DEF BooksBalance
  <2>1. apc \in {"none", "end"} /\ ppc \in {"none", "end"}
    BY DEF IInv, ThreadsOutlived
  <2>2. batch = <<>> /\ Len(batch) = 0 /\ Len(InHand) = 0 /\ Len(Pending) = 0
    BY <2>1, EmptySeq DEF IInv, Emptied, InHand, Pending
  <2>3. /\ arrived \in Nat /\ pktOvf \in Nat /\ analysed \in Nat /\ emitted \in Nat
        /\ evtOvf \in Nat /\ eventsSent \in Nat /\ skipped \in Nat /\ discarded \in Nat
    BY TypeParts DEF IInv, NumbersOK
  <2>4. Len(pktq) \in Nat /\ Len(evtq) \in Nat /\ Len(sent) \in Nat
    BY LenProperties DEF IInv, TypeOK
  <2>5. /\ arrived = pktOvf + Len(pktq) + 0 + analysed
        /\ emitted = evtOvf + Len(evtq) + 0 + Len(sent) + skipped + discarded
        /\ emitted = evtOvf + Len(evtq) + 0 + eventsSent + discarded
    BY <2>2 DEF IInv, NothingVanishes
  <2> QED BY <2>3, <2>4, <2>5
<1> QED BY <1>1, PipelineInvariant, PTL

\* What publish_thread sends is in the order of capture, without repetition.
THEOREM OrderKept == Spec => []InOrder
<1>1. IInv => InOrder
  BY DEF IInv, Ordered, Increasing, InOrder, Line
<1> QED BY <1>1, PipelineInvariant, PTL

\* pipeline_run returns only after every thread it created.
THEOREM MainLast == Spec => []ThreadsOutlived
<1>1. IInv => ThreadsOutlived
  BY DEF IInv
<1> QED BY <1>1, PipelineInvariant, PTL

\* From the capture to the broker the pipeline is a lossy line: what it does not
\* drop it delivers once and in order, whatever the threads and the broker do.
THEOREM Refinement == Spec => ImplementsLossyLine
BY InitLossy, NextLossy, PipelineInvariant, PTL DEF Spec, ImplementsLossyLine, Lossy!LSpec

\* The history variables take nothing from the pipeline: its invariant holds with them.
LEMMA HistoryInvariant == HSpec => []IInv
<1>1. HInit => Init
  BY DEF HInit
<1>2. [HNext]_hvars => [Next]_vars
  BY DEF HNext, hvars
<1>3. HSpec => Spec
  BY <1>1, <1>2, PTL DEF HSpec, Spec
<1> QED BY <1>3, PipelineInvariant, PTL

\* rb_pkt as packet_handler and analysis_thread use it, and rb_evt as publish_packet
\* and publish_thread use it, keep to what ringbuf.h promises, which is what the ring
\* of ringbuf.c is proved to keep.
THEOREM RingsCompose ==
  ASSUME OvfMod \in Nat \ {0}
  PROVE  HSpec => Packets!FSpec /\ Events!FSpec
<1>1. HInit => Packets!FInit /\ Events!FInit
  <2>1. 0 = 0 * OvfMod + 0 /\ 0 \in 0 .. OvfMod - 1
    OBVIOUS
  <2>2. 0 % OvfMod = 0
    BY <2>1, Remainder
  <2> QED BY <2>2 DEF HInit, Init, Packets!FInit, Events!FInit
<1>2. IInv /\ [HNext]_hvars => [Packets!FNext]_(Packets!fvars)
  BY PacketRingStep
<1>3. IInv /\ [HNext]_hvars => [Events!FNext]_(Events!fvars)
  BY EventRingStep
<1> QED BY <1>1, <1>2, <1>3, HistoryInvariant, PTL DEF HSpec, Packets!FSpec, Events!FSpec

\* The packet under analysis and the newest event of a batch are what the rings gave out.
THEOREM AnswersReachThreads == HSpec => []AnswersUsed
<1>1. HInit => AnswersUsed
  BY DEF HInit, Init, AnswersUsed
<1>2. IInv /\ AnswersUsed /\ [HNext]_hvars => AnswersUsed'
  BY AnswersStep
<1> QED BY <1>1, <1>2, HistoryInvariant, PTL DEF HSpec
=============================================================================

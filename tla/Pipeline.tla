------------------------------ MODULE Pipeline ------------------------------
(***************************************************************************)
(* The live pipeline of the agent, core/pipeline.c: four threads           *)
(*                                                                         *)
(*    capture --pktq--> analysis --evtq--> publish       metrics           *)
(*                                                                         *)
(* the main thread that creates and joins them, and the signal handler     *)
(* that asks for a shutdown.  The rings are bounded queues with one step   *)
(* per push or pop (module RingBuf shows that they are); every other       *)
(* access to a variable that another thread writes is a step of its own.   *)
(*                                                                         *)
(* A packet is its number in order of arrival; the event analyze_packet    *)
(* may emit for it (it emits at most one) carries the packet's number.     *)
(***************************************************************************)
EXTENDS Naturals, Sequences

CONSTANTS Cap,          \* slots of each ring (AGENT_BUFFER_SIZE, rounded up)
          BatchSize,    \* AGENT_BATCH_SIZE
          MaxPackets,   \* bound: packets that arrive
          MaxSignals,   \* bound: SIGINT/SIGTERM received
          MaxOutages    \* bound: times the broker goes down

ASSUME CapAssumption == Cap \in Nat \ {0}
ASSUME BatchAssumption == BatchSize \in Nat \ {0}
ASSUME BoundsAssumption ==
  MaxPackets \in Nat /\ MaxSignals \in Nat /\ MaxOutages \in Nat

VARIABLES
  \* globals of pipeline.c
  running, captureDone, analysisDone, captureError,
  handle,                  \* g_pcap_handle: "null", "open", "closed" (dangling)
  pktq, pktOvf, evtq, evtOvf,
  batchesSent, eventsSent,
  \* threads
  mpc,                     \* pipeline_run
  cpc,                     \* capture_thread
  apc, pkt,                \* analysis_thread and the packet in its slot
  ppc, batch, aged, drained, \* publish_thread, its batch, "batch timeout reached", its local flag
  xpc,                     \* metrics_thread
  spc,                     \* pipeline_request_stop in a signal handler
  \* surroundings
  breakFlag,               \* pcap's own "break the loop" flag
  broker, outages, signals, arrived,
  \* what became of packets and events
  analysed, emitted, sent, skipped, discarded

flags   == <<running, captureDone, analysisDone, captureError>>
rings   == <<pktq, pktOvf, evtq, evtOvf>>
counts  == <<batchesSent, eventsSent>>
capture == <<cpc, handle, breakFlag>>
analysis == <<apc, pkt, analysed, emitted>>
publish == <<ppc, batch, aged, drained, sent, skipped, discarded>>
signal  == <<spc, signals>>
world   == <<broker, outages, arrived>>
vars == <<flags, rings, counts, mpc, capture, analysis, publish, xpc, signal, world>>

Init ==
  /\ running = TRUE /\ captureDone = FALSE /\ analysisDone = FALSE /\ captureError = FALSE
  /\ pktq = <<>> /\ pktOvf = 0 /\ evtq = <<>> /\ evtOvf = 0
  /\ batchesSent = 0 /\ eventsSent = 0
  /\ mpc = "init"
  /\ cpc = "none" /\ handle = "null" /\ breakFlag = FALSE
  /\ apc = "none" /\ pkt = 0 /\ analysed = 0 /\ emitted = 0
  /\ ppc = "none" /\ batch = <<>> /\ aged = FALSE /\ drained = FALSE
  /\ sent = <<>> /\ skipped = 0 /\ discarded = 0
  /\ xpc = "none"
  /\ spc = "idle" /\ signals = 0
  /\ broker \in {"up", "down"} /\ outages = 0 /\ arrived = 0

Alive == mpc \notin {"exited", "killed"}   \* the process is still in pipeline_run

(***************************************************************************)
(* Bugs that mutation runs plant in the definitions below.                 *)
(***************************************************************************)
MutCapturePacketUnchecked ==
  /\ Alive
  /\ cpc = "loop" /\ ~breakFlag
  /\ arrived < MaxPackets
  /\ arrived' = arrived + 1
  /\ pktq' = Append(pktq, arrived + 1)
  /\ UNCHANGED <<flags, pktOvf, evtq, evtOvf, counts, mpc, capture, analysis, publish, xpc,
                 signal, broker, outages>>

MutPublishCheckNoTimeout ==
  /\ Alive
  /\ ppc = "check"
  /\ drained' = analysisDone
  /\ ppc' = IF batch # <<>> /\ (Len(batch) = BatchSize \/ analysisDone) THEN "send"
            ELSE IF analysisDone /\ batch = <<>> THEN "end"
            ELSE "pop"
  /\ UNCHANGED <<flags, rings, counts, mpc, capture, analysis, batch, aged, sent, skipped, discarded,
                 xpc, signal, world>>

MutPublishRetryDrops ==
  /\ Alive
  /\ ppc = "send" /\ broker = "down" /\ ~drained
  /\ batch' = <<>>
  /\ ppc' = "pop"
  /\ UNCHANGED <<flags, rings, counts, mpc, capture, analysis, aged, drained, sent, skipped, discarded,
                 xpc, signal, world>>

MutPublishDiscardRetries ==
  /\ Alive
  /\ ppc = "send" /\ broker = "down" /\ drained
  /\ ppc' = "pop"
  /\ UNCHANGED <<flags, rings, counts, mpc, capture, analysis, batch, aged, drained, sent, skipped,
                 discarded, xpc, signal, world>>

MutPublishCountEventsKeeps ==
  /\ Alive
  /\ ppc = "countEvents"
  /\ eventsSent' = eventsSent + Len(batch)
  /\ ppc' = "pop"
  /\ UNCHANGED <<flags, rings, batchesSent, mpc, capture, analysis, batch, aged, drained, sent, skipped,
                 discarded, xpc, signal, world>>

MutMainStopMetricsNoJoin ==
  /\ mpc = "stopMetrics"
  /\ running' = FALSE
  /\ mpc' = "exited"
  /\ UNCHANGED <<captureDone, analysisDone, captureError, rings, counts, capture, analysis,
                 publish, xpc, signal, world>>

(***************************************************************************)
(* pipeline_run                                                            *)
(***************************************************************************)
\* Either rb_init fails: return -1 with no thread created.
MainInitFails ==
  /\ mpc = "init"
  /\ mpc' = "exited"
  /\ UNCHANGED <<flags, rings, counts, capture, analysis, publish, xpc, signal, world>>

\* Rings ready, init_queue (which tolerates a broker that is down), four threads.
MainStart ==
  /\ mpc = "init"
  /\ mpc' = "joinCapture"
  /\ cpc' = "open" /\ apc' = "pop" /\ ppc' = "alloc" /\ xpc' = "sleep"
  /\ UNCHANGED <<flags, rings, counts, handle, breakFlag, pkt, analysed, emitted, batch, aged,
                 drained, sent, skipped, discarded, signal, world>>

MainJoin(at, thread, next) ==
  /\ mpc = at
  /\ thread = "end"
  /\ mpc' = next
  /\ UNCHANGED <<flags, rings, counts, capture, analysis, publish, xpc, signal, world>>

MainJoinCapture  == MainJoin("joinCapture", cpc, "joinAnalysis")
MainJoinAnalysis == MainJoin("joinAnalysis", apc, "joinPublish")
MainJoinPublish  == MainJoin("joinPublish", ppc, "stopMetrics")

MainStopMetrics ==
  /\ mpc = "stopMetrics"
  /\ running' = FALSE
  /\ mpc' = "joinMetrics"
  /\ UNCHANGED <<captureDone, analysisDone, captureError, rings, counts, capture, analysis,
                 publish, xpc, signal, world>>

\* Join of the metrics thread, close_queue, rb_destroy of both rings, return.
MainExit == MainJoin("joinMetrics", xpc, "exited")

(***************************************************************************)
(* capture_thread                                                          *)
(***************************************************************************)
CaptureOpen ==
  /\ Alive
  /\ cpc = "open"
  /\ handle' = "open" /\ breakFlag' = FALSE
  /\ cpc' = "loop"
  /\ UNCHANGED <<flags, rings, counts, mpc, analysis, publish, xpc, signal, world>>

CaptureOpenFails ==
  /\ Alive
  /\ cpc = "open"
  /\ running' = FALSE /\ captureError' = TRUE
  /\ cpc' = "done"
  /\ UNCHANGED <<captureDone, analysisDone, rings, counts, mpc, handle, breakFlag, analysis,
                 publish, xpc, signal, world>>

\* pcap_loop hands a packet to packet_handler, which copies it into rb_pkt;
\* a full ring counts the packet and drops it.
CapturePacket ==
  /\ Alive
  /\ cpc = "loop" /\ ~breakFlag
  /\ arrived < MaxPackets
  /\ arrived' = arrived + 1
  /\ IF Len(pktq) < Cap
       THEN pktq' = Append(pktq, arrived + 1) /\ UNCHANGED pktOvf
       ELSE pktOvf' = pktOvf + 1 /\ UNCHANGED pktq
  /\ UNCHANGED <<flags, evtq, evtOvf, counts, mpc, capture, analysis, publish, xpc, signal,
                 broker, outages>>

CaptureLeaves ==
  /\ cpc' = "close"
  /\ UNCHANGED <<flags, rings, counts, mpc, handle, breakFlag, analysis, publish, xpc, signal, world>>

CaptureBreak == Alive /\ cpc = "loop" /\ breakFlag /\ CaptureLeaves

\* pcap_loop returns on an error of the interface; its result is not looked at.
CaptureLoopError == Alive /\ cpc = "loop" /\ CaptureLeaves

CaptureClose ==
  /\ Alive
  /\ cpc = "close"
  /\ handle' = "closed"
  /\ cpc' = "null"
  /\ UNCHANGED <<flags, rings, counts, mpc, breakFlag, analysis, publish, xpc, signal, world>>

CaptureForget ==
  /\ Alive
  /\ cpc = "null"
  /\ handle' = "null"
  /\ cpc' = "done"
  /\ UNCHANGED <<flags, rings, counts, mpc, breakFlag, analysis, publish, xpc, signal, world>>

CaptureEnd ==
  /\ Alive
  /\ cpc = "done"
  /\ captureDone' = TRUE
  /\ cpc' = "end"
  /\ UNCHANGED <<running, analysisDone, captureError, rings, counts, mpc, handle, breakFlag,
                 analysis, publish, xpc, signal, world>>

(***************************************************************************)
(* analysis_thread                                                         *)
(***************************************************************************)
AnalysisPop ==
  /\ Alive
  /\ apc = "pop" /\ pktq # <<>>
  /\ pkt' = Head(pktq) /\ pktq' = Tail(pktq)
  /\ apc' = "analyze"
  /\ UNCHANGED <<flags, pktOvf, evtq, evtOvf, counts, mpc, capture, analysed, emitted, publish,
                 xpc, signal, world>>

\* analyze_packet returns without an event: truncated, home net, table full...
AnalysisSilent ==
  /\ Alive
  /\ apc = "analyze"
  /\ analysed' = analysed + 1
  /\ pkt' = 0
  /\ apc' = "pop"
  /\ UNCHANGED <<flags, rings, counts, mpc, capture, emitted, publish, xpc, signal, world>>

\* analyze_packet ends in publish_packet, which copies an event into rb_evt.
AnalysisEvent ==
  /\ Alive
  /\ apc = "analyze"
  /\ analysed' = analysed + 1 /\ emitted' = emitted + 1
  /\ IF Len(evtq) < Cap
       THEN evtq' = Append(evtq, pkt) /\ UNCHANGED evtOvf
       ELSE evtOvf' = evtOvf + 1 /\ UNCHANGED evtq
  /\ pkt' = 0
  /\ apc' = "pop"
  /\ UNCHANGED <<flags, pktq, pktOvf, counts, mpc, capture, publish, xpc, signal, world>>

AnalysisEmpty ==
  /\ Alive
  /\ apc = "pop" /\ pktq = <<>>
  /\ apc' = "check"
  /\ UNCHANGED <<flags, rings, counts, mpc, capture, pkt, analysed, emitted, publish, xpc,
                 signal, world>>

AnalysisCheck ==
  /\ Alive
  /\ apc = "check"
  /\ apc' = IF captureDone THEN "done" ELSE "pop"
  /\ UNCHANGED <<flags, rings, counts, mpc, capture, pkt, analysed, emitted, publish, xpc,
                 signal, world>>

AnalysisEnd ==
  /\ Alive
  /\ apc = "done"
  /\ analysisDone' = TRUE
  /\ apc' = "end"
  /\ UNCHANGED <<running, captureDone, captureError, rings, counts, mpc, capture, pkt, analysed,
                 emitted, publish, xpc, signal, world>>

(***************************************************************************)
(* publish_thread                                                          *)
(***************************************************************************)
PublishAlloc ==
  /\ Alive
  /\ ppc = "alloc"
  /\ ppc' \in {"pop", "end"}          \* calloc of the batch succeeds, or the thread returns
  /\ UNCHANGED <<flags, rings, counts, mpc, capture, analysis, batch, aged, drained, sent, skipped,
                 discarded, xpc, signal, world>>

PublishPop ==
  /\ Alive
  /\ ppc = "pop" /\ Len(batch) < BatchSize /\ evtq # <<>>
  /\ batch' = Append(batch, Head(evtq)) /\ evtq' = Tail(evtq)
  /\ UNCHANGED <<flags, pktq, pktOvf, evtOvf, counts, mpc, capture, analysis, ppc, aged, drained,
                 sent, skipped, discarded, xpc, signal, world>>

\* The batch is full or rb_evt is empty: go on to the flush conditions.
PublishNoPop ==
  /\ Alive
  /\ ppc = "pop" /\ (Len(batch) = BatchSize \/ evtq = <<>>)
  /\ ppc' = "check"
  /\ UNCHANGED <<flags, rings, counts, mpc, capture, analysis, batch, aged, drained, sent, skipped,
                 discarded, xpc, signal, world>>

\* g_analysis_done is read here, after the pop that found nothing.
PublishCheck ==
  /\ Alive
  /\ ppc = "check"
  /\ drained' = analysisDone
  /\ ppc' = IF batch # <<>> /\ (Len(batch) = BatchSize \/ aged \/ analysisDone) THEN "send"
            ELSE IF analysisDone /\ batch = <<>> THEN "end"
            ELSE "pop"
  /\ UNCHANGED <<flags, rings, counts, mpc, capture, analysis, batch, aged, sent, skipped, discarded,
                 xpc, signal, world>>

\* What the message of a batch can hold: an event for which cJSON_CreateObject fails
\* is left out, and the others keep their order.
Written(events) ==
  UNION {{[i \in 1 .. n |-> events[at[i]]] :
             at \in {f \in [1 .. n -> 1 .. Len(events)] : \A i, j \in 1 .. n : i < j => f[i] < f[j]}} :
         n \in 0 .. Len(events)}

\* "up" is all publisher_send_batch needs to return 0: the connection, and memory
\* for the array and its text.  It does not tell its caller what it left out.
PublishSend ==
  /\ Alive
  /\ ppc = "send" /\ broker = "up"
  /\ \E message \in Written(batch) :
       /\ sent' = sent \o message
       /\ skipped' = skipped + (Len(batch) - Len(message))
  /\ ppc' = "countBatch"
  /\ UNCHANGED <<flags, rings, counts, mpc, capture, analysis, batch, aged, drained, discarded,
                 xpc, signal, world>>

\* Broker down: keep the batch and try again, unless the analysis is over.
PublishRetry ==
  /\ Alive
  /\ ppc = "send" /\ broker = "down" /\ ~drained
  /\ ppc' = "pop"
  /\ UNCHANGED <<flags, rings, counts, mpc, capture, analysis, batch, aged, drained, sent, skipped,
                 discarded, xpc, signal, world>>

PublishDiscard ==
  /\ Alive
  /\ ppc = "send" /\ broker = "down" /\ drained
  /\ discarded' = discarded + Len(batch)
  /\ batch' = <<>>
  /\ ppc' = "end"
  /\ UNCHANGED <<flags, rings, counts, mpc, capture, analysis, aged, drained, sent, skipped, xpc,
                 signal, world>>

PublishCountBatch ==
  /\ Alive
  /\ ppc = "countBatch"
  /\ batchesSent' = batchesSent + 1
  /\ ppc' = "countEvents"
  /\ UNCHANGED <<flags, rings, eventsSent, mpc, capture, analysis, batch, aged, drained, sent, skipped,
                 discarded, xpc, signal, world>>

PublishCountEvents ==
  /\ Alive
  /\ ppc = "countEvents"
  /\ eventsSent' = eventsSent + Len(batch)
  /\ batch' = <<>> /\ aged' = FALSE
  /\ ppc' = "pop"
  /\ UNCHANGED <<flags, rings, batchesSent, mpc, capture, analysis, drained, sent, skipped,
                 discarded, xpc, signal, world>>

(***************************************************************************)
(* metrics_thread                                                          *)
(***************************************************************************)
MetricsWake ==                        \* the interval is over: the counters are read
  /\ Alive
  /\ xpc = "sleep" /\ running
  /\ xpc' = "snapshot"
  /\ UNCHANGED <<flags, rings, counts, mpc, capture, analysis, publish, signal, world>>

MetricsSend ==                        \* publisher_send_metrics has returned
  /\ Alive
  /\ xpc = "snapshot"
  /\ xpc' = "sleep"
  /\ UNCHANGED <<flags, rings, counts, mpc, capture, analysis, publish, signal, world>>

MetricsEnd ==
  /\ Alive
  /\ xpc = "sleep" /\ ~running
  /\ xpc' = "end"
  /\ UNCHANGED <<flags, rings, counts, mpc, capture, analysis, publish,
                 signal, world>>

(***************************************************************************)
(* pipeline_request_stop, called by the signal handler of main.c           *)
(***************************************************************************)
StopRunning ==                        \* g_running = 0
  /\ Alive
  /\ spc = "idle" /\ signals < MaxSignals
  /\ signals' = signals + 1
  /\ running' = FALSE
  /\ spc' = "test"
  /\ UNCHANGED <<captureDone, analysisDone, captureError, rings, counts, mpc, capture, analysis,
                 publish, xpc, world>>

StopTest ==                           \* if (g_pcap_handle)
  /\ Alive
  /\ spc = "test"
  /\ spc' = IF handle = "null" THEN "idle" ELSE "break"
  /\ UNCHANGED <<flags, rings, counts, mpc, capture, analysis, publish, xpc, signals, world>>

StopBreak ==                          \* pcap_breakloop(g_pcap_handle)
  /\ Alive
  /\ spc = "break"
  /\ handle = "open"
  /\ breakFlag' = TRUE
  /\ spc' = "idle"
  /\ UNCHANGED <<flags, rings, counts, mpc, cpc, handle, analysis, publish, xpc, signals, world>>

\* The handle was closed or forgotten since the test.  What pcap_breakloop does
\* with it is undefined: nothing that is seen, or the end of the process.
StopBreakClosed ==
  /\ Alive
  /\ spc = "break"
  /\ handle # "open"
  /\ mpc' \in {mpc, "killed"}
  /\ spc' = "idle"
  /\ UNCHANGED <<flags, rings, counts, capture, analysis, publish, xpc, signals, world>>

(***************************************************************************)
(* Surroundings: time passes, the broker comes and goes.                   *)
(***************************************************************************)
BatchAges ==
  /\ Alive
  /\ batch # <<>> /\ ~aged
  /\ aged' = TRUE
  /\ UNCHANGED <<flags, rings, counts, mpc, capture, analysis, ppc, batch, drained, sent, skipped,
                 discarded, xpc, signal, world>>

BrokerDown ==
  /\ Alive
  /\ broker = "up" /\ outages < MaxOutages
  /\ broker' = "down" /\ outages' = outages + 1
  /\ UNCHANGED <<flags, rings, counts, mpc, capture, analysis, publish, xpc, signal, arrived>>

BrokerUp ==
  /\ Alive
  /\ broker = "down"
  /\ broker' = "up"
  /\ UNCHANGED <<flags, rings, counts, mpc, capture, analysis, publish, xpc, signal, outages,
                 arrived>>

Ended == ~Alive /\ UNCHANGED vars

Main == MainInitFails \/ MainStart \/ MainJoinCapture \/ MainJoinAnalysis \/ MainJoinPublish
        \/ MainStopMetrics \/ MainExit
CaptureThread == CaptureOpen \/ CaptureOpenFails \/ CaptureBreak \/ CaptureClose
                 \/ CaptureForget \/ CaptureEnd
AnalysisThread == AnalysisPop \/ AnalysisSilent \/ AnalysisEvent \/ AnalysisEmpty
                  \/ AnalysisCheck \/ AnalysisEnd
PublishThread == PublishAlloc \/ PublishPop \/ PublishNoPop \/ PublishCheck \/ PublishSend
                 \/ PublishRetry \/ PublishDiscard \/ PublishCountBatch \/ PublishCountEvents
MetricsThread == MetricsWake \/ MetricsSend \/ MetricsEnd
StopHandler == StopTest \/ StopBreak \/ StopBreakClosed

Next == \/ Main \/ CaptureThread \/ AnalysisThread \/ PublishThread \/ MetricsThread \/ StopHandler
        \/ CapturePacket \/ CaptureLoopError \/ StopRunning
        \/ BatchAges \/ BrokerDown \/ BrokerUp \/ Ended

Spec == Init /\ [][Next]_vars

\* The scheduler runs every thread that can run, and clocks advance.  Nothing is
\* assumed of packets, signals, interface errors or the broker.
Fairness ==
  /\ WF_vars(Main) /\ WF_vars(CaptureThread) /\ WF_vars(AnalysisThread)
  /\ WF_vars(PublishThread) /\ WF_vars(MetricsThread) /\ WF_vars(StopHandler)
  /\ WF_vars(BatchAges)

FairSpec == Spec /\ Fairness

(***************************************************************************)
(* Properties.                                                             *)
(***************************************************************************)
\* Values every variable keeps to; the rings and the batch keep to their sizes.
TypeOK ==
  /\ running \in BOOLEAN /\ captureDone \in BOOLEAN /\ analysisDone \in BOOLEAN
  /\ captureError \in BOOLEAN /\ breakFlag \in BOOLEAN
  /\ aged \in BOOLEAN /\ drained \in BOOLEAN
  /\ handle \in {"null", "open", "closed"} /\ broker \in {"up", "down"}
  /\ pktq \in Seq(Nat) /\ Len(pktq) <= Cap /\ evtq \in Seq(Nat) /\ Len(evtq) <= Cap
  /\ batch \in Seq(Nat) /\ Len(batch) <= BatchSize /\ sent \in Seq(Nat)
  /\ mpc \in {"init", "joinCapture", "joinAnalysis", "joinPublish", "stopMetrics",
              "joinMetrics", "exited", "killed"}
  /\ cpc \in {"none", "open", "loop", "close", "null", "done", "end"}
  /\ apc \in {"none", "pop", "analyze", "check", "done", "end"}
  /\ ppc \in {"none", "alloc", "pop", "check", "send", "countBatch", "countEvents", "end"}
  /\ xpc \in {"none", "sleep", "snapshot", "end"} /\ spc \in {"idle", "test", "break"}
  /\ {pktOvf, evtOvf, batchesSent, eventsSent, pkt, outages, signals,
      arrived, analysed, emitted, skipped, discarded} \subseteq Nat

\* The packet the analysis thread holds and the events the publish thread holds.
InHand  == IF apc = "analyze" THEN <<pkt>> ELSE <<>>
Pending == IF ppc \in {"countBatch", "countEvents"} THEN <<>> ELSE batch

\* No packet and no event vanishes uncounted but for want of memory: each is queued,
\* in a thread's hands, done with, counted by rb_overflow or by the discard at
\* shutdown, or left out of the message of its batch, whatever the threads, the
\* broker and the signals do.  g_events_sent, which metrics_thread reports, has
\* every event of a batch that left, once: those in the message and those left out.
NothingVanishes ==
  /\ arrived = pktOvf + Len(pktq) + Len(InHand) + analysed
  /\ emitted = evtOvf + Len(evtq) + Len(Pending) + Len(sent) + skipped + discarded
  /\ emitted = evtOvf + Len(evtq) + Len(batch) + eventsSent + discarded

\* Events reach the broker in the order of capture and never twice, across
\* retries, full rings and the shutdown: the whole pipeline, read from its far
\* end, is in order of arrival without repetition.
InOrder ==
  LET line == sent \o Pending \o evtq \o InHand \o pktq
  IN  \A i, j \in 1 .. Len(line) : i < j => line[i] < line[j]

\* What publish_thread gives to publisher_send_batch is part of what arrived, in
\* order: nothing that was sent is taken back, repeated or sent late.
Lossy == INSTANCE LossyLine WITH offered <- arrived, delivered <- sent

ImplementsLossyLine == Lossy!LSpec

\* pipeline_run closes the connection and frees the rings only when no thread
\* can touch them any more.
ThreadsOutlived ==
  mpc = "exited" => {cpc, apc, ppc, xpc} \subseteq {"none", "end"}

\* Once the capture loop is told to break, or the capture thread fails or ends
\* by itself, the agent does stop, with the broker up or down.
ShutdownCompletes == (breakFlag \/ captureError \/ captureDone) ~> ~Alive

\* The batch timeout works: events in a batch do not wait for the batch to fill
\* as long as the broker stays up.
BatchesLeave == <>[](broker = "up") => ((batch # <<>>) ~> (batch = <<>> \/ mpc = "killed"))

(***************************************************************************)
(* What the documentation says of the shutdown.                            *)
(***************************************************************************)
\* "threads drenam a pipeline e fazem flush final": after a shutdown in which the
\* publish thread saw the end of the analysis and the broker took all it was
\* given, no packet is left in rb_pkt and no event in rb_evt.
PipelineDrains ==
  mpc = "exited" /\ drained /\ discarded = 0 => pktq = <<>> /\ evtq = <<>>

\* "SIGINT/SIGTERM -> pcap_breakloop -> threads drain": a signal stops the agent.
SignalStops == (signals > 0) ~> ~Alive
=============================================================================

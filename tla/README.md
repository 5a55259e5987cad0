# Formal models of the Network Traffic Analyzer

TLA+ models of the agent (`src/src/agent`) and of the server (`src/src/server`),
checked with TLC on small instances; all but replay mode is also proved, its safety
for every size, with TLAPS. Line numbers refer to the sources of this commit;
`PROJECT.json` maps every definition to the lines it models.

## The system

```
  NIC --pcap--> capture --rb_pkt--> analysis --rb_evt--> publish --AMQP--> RabbitMQ
                (agent: four threads in one process; metrics thread reports)   |
                                                                               v
  InfluxDB <-- workers (pool 1..max, scaled on the backlog) <-- traffic_queue, traffic_metrics
      ^            |  geoip / ioc / abuse caches                    |
      +-- narrator worker <------------- narrator_queue <-----------+
```

| part | state | operations | interacts through |
|---|---|---|---|
| ring buffer `core/ringbuf.c` | `head`, `tail`, `overflow_count`, slots | `rb_push`, `rb_pop`, `rb_size`, `rb_overflow` | two atomics, one producer, one consumer, an observer |
| live pipeline `core/pipeline.c`, `capture/capture.c`, `main.c` | `g_running`, `g_capture_done`, `g_analysis_done`, `g_capture_error`, `g_pcap_handle`, counters | the four thread functions, `pipeline_run`, `pipeline_request_stop` | flags, rings, joins, signal handler |
| suspect table and correlator `analysis/analyzer.c` | `suspects`, `suspect_count`, `last_cleanup`, ARP table | `analyze_packet` and what it calls | one thread; packets in, `publish_packet` out |
| detectors `analysis/analyzer.c` | counters, windows and baseline of a `Suspect` | nine `detect_*`, `update_baseline` | the order in `analyze_packet` |
| publisher `output/publisher.c` | `conn`, `g_connected`, `g_backoff_ms`, `g_next_retry_ms` | `init_queue`, `publisher_send_batch`, `publisher_send_metrics`, `close_queue` | `amqp_mutex`, two threads, broker |
| worker pool and scaler `nta_server.c`, `nta_scaler.c` | `TrafficPool`, `g_nta_stop`, `g_nta_pool_size`, `idle_since` | spawn, up, down, join all, destroy | `pool.mu`, joins outside it, stop flags |
| consumer and handlers `nta_consumer.c`, `nta_server.c` | a connection per worker, `g_nta_amqp_connected` | open with retry, consume loop, publish, close; traffic, metrics and narrator handlers | broker, InfluxDB, caches |
| InfluxDB writer `nta_influx.c` | a curl handle, a buffer per call | write traffic, metrics, narrative | HTTP |
| enrichment `nta_geoip.c`, `nta_abuse.c`, used by `nta_influx.c` and `republish_if_high` | a hash table each, with expiry in AbuseIPDB; the line-protocol buffer of a call | `nta_geo_lookup`, `nta_abuse_score`, `build_traffic_point` | a mutex each, all traffic workers, HTTP, mmdb |
| replay `replay.c`, `collector.c`, `main.c` | sheet and results; `g_events`, `g_replay_mode`; the analyzer's tables | one file, a directory, scoring, exit code | one thread, pcap files, the CI |
| narrator, WHOIS, health, IoC, configuration | little or immutable | see `PROJECT.json` | - |

What is hard here: lock-free hand-over between threads; a shutdown that is a
chain of flags polled in loops; a signal handler that shares a pointer with a
thread; a connection two threads use, lose and re-open; time windows that
restart inside the traffic they judge; a pool that main and the scaler change
at the same time, each leaving the lock to join a thread; caches shared by workers, one
with a request under its mutex, one that leaves its mutex to search; state that
outlives a replayed file. The hazards in
`PROJECT.json` list them line by line.

What makes each part correct: the ring is a FIFO that loses nothing it accepted;
the pipeline accounts for every packet, keeps order, and stops; the correlator's
stage says what the incident has seen and is forgotten only for a reason; the
detectors raise no false alarm and miss no sustained burst; the publisher's
flag tells the truth about the connection, a batch is sent once, and the agent
recovers; the pool's books are right and a shutdown ends; a message in the server is
handled at most once, an outage shows in `/health`, and consumers come back from it;
enrichment gives whole and agreeing answers and spares the service; replay judges
each file by itself and its gate tells the truth.

## Modules

| module | models | extends |
|---|---|---|
| `BoundedFifo` | what `ringbuf.h` promises: a bounded queue that refuses and counts | - |
| `LossyLine` | what the agent promises of the way to its broker: items are delivered once and in order, or lost | - |
| `RingBuf` | `ringbuf.c`, one step per access to shared memory | `BoundedFifo` by refinement |
| `Pipeline` | the agent's threads, main thread and signal handler | `LossyLine` by refinement |
| `Analyzer` | suspect table, cleanup, kill chain, ARP table | - |
| `Detectors` | all detectors of one source and their order | - |
| `Publisher` | the shared AMQP connection | `LossyLine` by refinement |
| `WorkerPool` | pool, scaler and shutdown of the server | - |
| `Consumer` | a message's way through the server's threads; the gauge behind `/health` | - |
| `Enrichment` | the GeoIP and AbuseIPDB caches, and the points built with their answers | - |
| `Replay` | replay of files, collector, scoring, exit code | - |
| `MC...` | the instances TLC runs | each the module of its name |
| `...Proofs` | the theorems about a module (there is none for `Replay`) | each the module of its name |

Definitions named `Mut...` are planted bugs: each is a wrong version of a
definition that follows it, kept to show that a property would notice it. No
specification uses them.

### RingBuf
`head` and `tail` count modulo `CtrMod` (2^64 in the build) and index with a mask,
here `% Cap`; `CtrModAssumption` says that the capacity divides the modulus at
least twice, which `next_pow2` guarantees. A `memcpy` is two steps, between which
the slot holds `NoItem`: a consumer that could see the slot then would see
no whole item. A thread's relaxed load of its own counter is merged with its
acquire load of the other's. Release/acquire pairs are modelled as sequentially
consistent: each location has one writer and every reader synchronises with the
store it reads, so no weaker outcome is visible to the push and pop code.

### Pipeline
A packet is its number of arrival. Rings are queues with atomic push and pop,
which `RingBuf` justifies. Flags, the handle and the counters are read and
written in separate steps, in the code's order: the pop that finds nothing and
the test of the done flag are two steps, as are `pcap_close` and the reset of
`g_pcap_handle`, the test of the handle in the signal handler and its use, and
the two counters of `publish_thread`. The relaxed counters are read in program
order, as the x86-64 targets of the build do. The broker is up or down:
`Publisher` looks inside. "Down" stands for every reason for which a send fails: the
broker is unreachable, the retry window of the publisher is still open, or there is no memory
for the array or its text. A send that succeeds need not carry the whole batch:
`publisher_send_batch` goes past an event for which `cJSON_CreateObject` fails (`publisher.c:287`), so
what is sent is any selection of the batch in its order (`Written`). The program does not count
such events; `skipped`, a history variable, does.
`pcap_breakloop` on a handle that is already closed is undefined behaviour:
`StopBreakClosed` lets it do nothing or end the process.

### Analyzer and Detectors
Both model `analyze_packet`, which runs in one thread. `Analyzer` follows several
sources and leaves the verdict of the IP detectors open; `Detectors` follows one
source and computes it. `kc_mitre` is left out (written, never published). The cleanup compacts
`suspects` in place (`analyzer.c:420`); here the table is a set of addresses, which is the
same because the loop writes no entry it has yet to read. Packet
time is taken not to step back, as a live capture on a steady clock has it.

In `Detectors`, counters that are only compared stop just over their threshold. The
EWMA arithmetic is abstracted to "a calibrated source may have the fixed threshold, or any from
the floor up": the code clamps the adaptive one from below only (`analyzer.c:520`, `:711`), so that
a source calibrated on heavy traffic can send many times the fixed 100 SYNs without a
SYN_FLOOD. The highest threshold of the model (`SynCap`, `IcmpCap`) is where the counter stops,
and stands for all that are never reached. DNS entropy and labels are
abstracted to "the name looks suspicious or not".

### Publisher
Time is relative to the clock. An attempt to connect has two parts, both with the mutex held:
opening the socket, which CONNECT_TIMEOUT_SEC bounds (`publisher.c:116`), and the login, the
channel and the two queues (`:123` to `:144`), which nothing in the program bounds. A link that breaks is
"dead", and the next call on it fails, or "silent", and then nothing makes the call return. `PublishOk` on
such a link loses the batch, as a write to a TCP socket without publisher
confirms does. A batch may be built whole, short of an event, or not at all.

### WorkerPool
A critical section of `pool.mu` is a step; `pthread_join` is a call and a return.
Joining a thread twice is undefined: the model lets either call return at any
time. What a worker does with messages is left out; it may fail to open InfluxDB
and end at once, as `worker_main` does.

### Consumer
A thread per consumer with its own connection, as in `worker_main`,
`metrics_worker_main` and `narrator_worker_main`. With `auto_ack` the broker forgets a
message when it delivers it: `inbox` is what was delivered and not read, and it
goes with the connection. Breaks of one link, broker outages and crashes of
the server with a restart may happen at any step. The connection has no heartbeat
(`nta_consumer.c:84`) and its calls no timeout, so a break can have two faces. A "dead" link fails at its next
use. On a silent one ("cut" while the broker still sends into it, "gone" when the broker has
dropped it) the consume loop sees timeouts only (`:167`) and goes on, and every call that wants an
answer waits; TCP may show it as dead one day, or a cut one be mended, and nothing says when. Opening
a connection may hang in the same way (`OpenHangs`). Writes to InfluxDB and calls of the language model
succeed or fail; what they write is left out. The scaler may tell a traffic
worker to stop at any time and start one again in its place, which
`WorkerPool` looks at in detail. `done`, `discarded`, `lost` and `unroutable` record
what became of each message, `<<m, i>>` being the i-th event of message m.

### Enrichment
A traffic worker goes through a message event by event, as `nta_influx_write_traffic` and
then `republish_if_high` do, and its steps interleave with those of the other worker.
A critical section is a step, except that AbuseIPDB holds its mutex (`holder`) while a
request is under way; `AbuseCall` reads the clock before the wait for the mutex. GeoIP
looks up (`GeoHit`, `GeoMiss`) and inserts (`GeoPut`) in separate steps. One bucket stands
for all: buckets do not interact. Text is reduced to its length: a head with what GeoIP
gave, a score, an end of line. GeoIP and AbuseIPDB are both configured; IoC tags are part of
the head. `LongKeys` are the addresses of 46 characters and more, which neither cache keeps.
`first` and `second` keep, as history, the answers to the two questions that are asked about an
event, and until when the cache will repeat them; `points` keeps which event each line of the
text belongs to and where the line ends.

### Replay
Sequential: what may go wrong is what one packet or file leaves for the next. The
initial states choose the mode and what each file and sheet holds; `readdir` may give
the names in any order. The analyzer is a counter for each source with the cleanup of
idle ones, in the code's order and with its `last_cleanup`; `Analyzer` and `Detectors`
look inside it. `Alone` says what a file gives when the program does nothing else.

## Runs

| run | expected | shows |
|---|---|---|
| `ringbuf` | pass | `TypeOK`, `NoSlotRace`, `PublishedWhole`; the ring implements `BoundedFifo` (`ImplementsFifo`) |
| `pipeline` | pass | `NothingVanishes`, `ThreadsOutlived`; implements `LossyLine` (`ImplementsLossyLine`); `ShutdownCompletes`, `BatchesLeave` |
| `pipeline_drain` | violation | `PipelineDrains` |
| `pipeline_signal` | violation | `SignalStops` |
| `analyzer` | pass | `StageTellsHits`, `IncidentSpan`, `StageOnlyAdvances`, `SilentLoseSlots` |
| `detectors` | pass | `BruteForceSound`, `BurstNeverSilent`, `PortScanSound` |
| `publisher` | pass | `FlagTellsConnection`, `SentOnce`; `BatchGetsThrough` |
| `pool` | pass | `WorkersOnTheBooks`, `StopEndsServer` |
| `pool_join` | violation | `JoinedExactlyOnce` |
| `consumer` | pass | `OneFate`, `OutageShows`, `TrafficServed`, `StopsOnRequest` |
| `enrichment` | pass | `ApiSpared`, `GeoTellsDatabase`, `ScoresAgree`, `PostWhole`, `MessagesEnd` |
| `replay` | pass | `ResultTellsFile`, `GateHonest` |

**Bounds.** *ringbuf*: two slots and counters modulo four reach every alignment
of head, tail and wrap, full and empty; the proofs cover all other sizes.
*pipeline*: rings of one slot, batches of two, two packets, two outages: a batch can be
stuck behind an outage with an event in the ring behind it, the second packet can be
dropped at either ring, and a batch can leave full, by timeout and at the drain. *analyzer*: one
slot for two sources, limits in the order of the code's (60 < 300 = 300 <
1800 s), time for two correlation windows, and cleanups that come late, so that a silent source
keeps its slot as long as it can. *detectors*: thresholds of two to
four with five packets over three ticks, so that windows close inside bursts and
every detector can fire; adaptive thresholds below and above the fixed one.
*publisher*: backoffs of 1, 2 and 4 ticks around a connect timeout of 2, three batches, three faults, which may hit opening, login, building and the link. *pool*: two workers,
room for three, four threads in all, so that slots are reused. *consumer*: a traffic
worker and the narrator, two messages of one event each and two faults, so that a
reconnection can be broken again and a message can overtake a crash. *enrichment*: two
workers and two messages: a public address between two private ones, and one too long to be
cached before one that is cached; one failed allocation, a score that lives for a second more and
a failure that does not, so that both expire while other workers wait, and a buffer
for two points, with room for a short one after one that did not fit. *replay*: three names, ten files: expectations met, missed and
outside their window, a damaged capture, an empty one, one without a time, one with packets out of
order, an overfull collector and sheet, an empty, a broken and an unreadable one; two results
are kept of three.

**Fairness.** Weak fairness of each thread (the operating system runs a thread
that can run) and of clocks. Nothing is assumed of packets, signals, interface
errors, backlog or the broker. In `Pipeline` this includes that `publisher_send_batch` and
`close_queue` return, which the code does not guarantee (see `Publisher`): `ShutdownCompletes` is a
property of the threads, flags and joins, given that the AMQP calls end. It counts a process that
a call on a closed handle has killed as stopped. In `WorkerPool` the scaler's query ends, as
`CURLOPT_TIMEOUT` makes it, and so do the calls of the workers.

In `Publisher` a call returns on a live and on a dead link; while a thread `Waits` for a silent
peer nothing is assumed, and `BatchGetsThrough` has the premise that none waits for ever.
Taking `amqp_mutex` is strongly fair: the mutex is not, but `metrics_thread` sleeps for seconds
between two reports, so the publish thread does find it free. In `Consumer` threads run
unless they wait for a silent peer, and the broker delivers where the network does. That silence
ends is a premise of each liveness property: for every consumer in `OutageShows`, for the consumer
that is spoken of in `TrafficServed` and `StopsOnRequest`. Nothing is assumed of
agents, the scaler, signals, InfluxDB or the language model. In `Enrichment` threads run, requests
end (curl has timeouts), and a thread that finds the AbuseIPDB mutex free again and again
gets it (strong fairness); messages need not come.

## What the checks disagree with

Violated properties state what a comment or document says:

- **`PipelineDrains`** (`pipeline.c:180`, `:220`): each stage pops, finds nothing, and
  only then reads the done flag of the stage that feeds it. An item pushed between
  the two, just before the flag is raised, is left in the ring. Reading the flag
  before the pop would close the gap.
- **`SignalStops`** (`pipeline.c:71`): a signal before `g_pcap_handle` is set clears
  `g_running`, which `capture_thread` never reads.
- **`JoinedExactlyOnce`** (`nta_server.c:470`, `:483`, `:488`): main and the scaler can
  join the same worker; a worker spawned in a slot main has passed is not joined.

Met while modelling, without a run of their own:

- `publisher_send_batch` leaves out an event for which there is no memory (`publisher.c:287`) and
  returns 0; `pipeline.c:236` counts it as sent. `NothingVanishes` keeps the books with the
  events that were left out, `g_events_sent` does not.
- "Não bloqueia além do CONNECT_TIMEOUT_SEC" (`publisher.c:156`): the timeout bounds the opening of
  the socket only. Login, channel and queues (`:123` to `:144`) wait for the broker with
  the mutex held and a heartbeat of 0; a broker that accepts and goes silent there holds up both
  threads, the shutdown, and, in `init_queue`, the start of the agent.
- The heartbeat of a consumer is 0 too (`nta_consumer.c:84`), and its loop takes silence for an empty
  queue (`:167`): after a partition without a reset the gauge stays up and `/health` says ok, although
  "Nenhum consumer conectado = broker fora" (`nta_health.c:73`), and the queue fills. Without the
  premise that silence ends, `OutageShows` is violated.
- A consumer that is told to stop closes its channel and its connection first, and both wait for an
  answer (`nta_consumer.c:262`): on a silent link the shutdown hangs in the join of that worker.
- An adaptive threshold has no upper bound (`analyzer.c:519`): who floods during calibration is
  not reported for the same flood afterwards.
- An address of 46 characters or more is never cached (`nta_abuse.c:126`) and costs a request at each
  look-up; so does any answer whose lifetime is configured negative (`:165`, `:166`).
- A worker that is scaled down leaves the consume loop at once (`nta_consumer.c:159`); what
  the broker had delivered to it is acknowledged already (`:151`), unread, and lost, although
  the flag is called "drain" (`nta_server.c:257`). `OneFate` counts it as lost.
- `replay_dir` keeps in each result a pointer to the path of its loop (`replay.c:164`, `:293`),
  which `write_report_json` (`:222`) reads after the loop: the file names of a report are
  read from a variable that no longer exists. The sanitizer job of the CI runs
  without `--report` and does not see it.
- A capture that cannot be opened (`replay.c:170`) and a sheet that cannot be loaded (`:299`) count as
  nothing expected; `pcap_loop`'s error for a damaged capture (`:191`) is not looked
  at. The gate of the CI passes on what is left. An empty sheet fails one file
  (`main.c:157`) and passes in a directory.
- A collector that is full (`collector.c:16`) drops detections silently; one source that stays
  above a threshold fills it, since it reports every packet.
- A capture whose first packet is at second 0 has its windows ignored (`replay.c:119`).
- A point that does not fit the buffer (`nta_influx.c:324`) is not written, and its event may
  still be narrated.
- AbuseIPDB counts an entry's lifetime from before the wait for the mutex (`nta_abuse.c:285`), so a
  long wait shortens it. `ApiSpared` is stated for the clock of the call.
- `rb_size` (`ringbuf.c:74`) loads `head` before `tail`; if the consumer overtakes the
  loaded head the answer wraps to nearly 2^64.
- `capture_thread` closes the handle (`pipeline.c:155`) before it resets the pointer the
  signal handler reads: a second signal in between calls `pcap_breakloop` on a closed
  handle, although `pipeline.h:57` calls the function safe in a signal handler.
- The thirty-minute window ("reset se inativo", `analyzer.c:138`) runs from the entry
  into the stage (`:368`), not from the last packet, and the cleanup (`:422`) forgets a
  suspect, incident and all, after five silent minutes.
- With `narrator_min_score` 0 and the abuse trigger on, workers publish to a
  `narrator_queue` that nobody but the narrator declares (`nta_server.c:279`): until it
  connects, the broker drops those events.
- `basic_qos` does not bind a consumer with `auto_ack`: the limit of 20 messages in
  flight (`nta_server.c:271`) does not exist.
- A failed `nta_amqp_declare_queue` closes the channel, so the worker cannot go on
  consuming as the comment at `nta_server.c:276` says; it reconnects.
- The speed bonus (`analyzer.c:344`) depends on the current packet's time, not on
  when EXPLOIT was reached, so the score of a fast exploit falls later.
- An ARP spoof (`analyzer.c:744`) is reported with a fixed score and does not advance
  a kill chain.
- The brute-force window (`analyzer.c:563`) tumbles: 30 SYNs within 60 s across its
  restart can go unreported. `BurstNeverSilent` gives the bound that does hold, 59.
- `g_next_retry_ms` (`publisher.c:167`) counts from the start of the attempt: after a
  connect timeout of 5 s a delay of 1, 2 or 4 s is over already, and after a login that hung,
  any delay.
- Without publisher confirms (`publisher.c:183`) a batch written to a dying link counts as
  sent. `SentOnce` says what remains true of it.

## Proofs

For each module below TLAPS proves `Spec => []IInv`, for an inductive invariant `IInv` that
implies the safety invariants of the run, and from it those invariants: for every value of the
constants, the bounds on counters included. The theorems need no assumption but those named
`...Assumption` in the modules, which TLC evaluates in every run.

| module | inductive invariant | what follows, for every instance |
|---|---|---|
| `RingBufProofs` | `Invariant` | `TypeOK`, `PublishedWhole`, `NoSlotRace`; `Refinement`: implements `BoundedFifo` |
| `PipelineProofs` | `PipelineInvariant` | `TypeOK`, `NothingVanishes`, `InOrder`, `ThreadsOutlived`; `BooksClosed`: the books balance at the end; `Refinement`: implements `LossyLine`; `RingsCompose`: both rings keep to `BoundedFifo`, and `AnswersReachThreads` |
| `AnalyzerProofs` | `TableSound` | `TypeOK`, `StageTellsHits`, `IncidentSpan`, and of steps `StageOnlyAdvances`, `SilentLoseSlots` (`SlotsFreed`) |
| `DetectorsProofs` | `DetectorsInvariant` | `TypeOK`, `PortScanSound`, `BruteForceSound`, `BurstNeverSilent` |
| `PublisherProofs` | `PublisherInvariant` | `TypeOK`, `FlagTellsConnection`, `SentOnce`; `Refinement`: implements `LossyLine` |
| `WorkerPoolProofs` | `PoolInvariant` | `TypeOK`, `WorkersOnTheBooks` |
| `ConsumerProofs` | `ConsumerInvariant` | `TypeOK`, `OneFate`; `GaugeCounts`: the gauge is the number of open connections |
| `EnrichmentProofs` | `EnrichmentInvariant` | `TypeOK`, `ApiSpared`, `GeoTellsDatabase`, `ScoresAgree`, `PostWhole` |

Why the properties are not inductive by themselves, and what makes them so:

- **RingBuf.** `PublishedWhole` does not say what a thread in the middle of a push or pop may
  rely on. `Handshake` does: the producer's local head is `head` and its slot stays free, the
  consumer's local tail is `tail` and its slot stays taken, whatever the other side does. The
  arithmetic rests on lemmas about subtraction and increment modulo `CtrMod` and about slots of
  different positions, which need that `Cap` divides `CtrMod`. In the refinement `PushStore` is
  the abstract `Put`, `PopStore` is `Take`, the load that finds the ring full is `Refuse` (a
  refusal counts from then on: when `overflow_count` is incremented there may be room again), the
  load that finds it empty is `TakeNothing`, and everything else stutters.
- **Pipeline.** `InOrder` says nothing about the packet that arrives next. `Ordered` reads the
  pipeline from its far end as one line in which nothing is newer than the newest packet, so that
  a push at one stage and a pop at the next leave the line as it is, a drop takes an
  item out of it and an arrival goes to its end. `JoinOrder` says what main knows of the threads
  it has joined. `Emptied`, that `publish_thread` begins and ends with an empty batch, is needed for
  `BooksClosed` only: when `pipeline_run` has returned nothing is in a thread's hands, so that the
  counters the agent keeps and what is left in the rings account for everything, and
  `g_events_sent` is the number of events the broker was given plus those that were left out of
  their batch. In the refinement
  an arriving packet is the abstract `Offer` and a batch taken by `publisher_send_batch` a `Deliver`;
  that what was sent is in order follows from `Ordered`, of which it is the far end.
- **Pipeline and RingBuf.** `Pipeline` takes an `rb_push` or an `rb_pop` as one step; `RingBuf` has every
  access to shared memory. `RingsCompose` closes the gap from above: what `packet_handler` and
  `analysis_thread` do to `rb_pkt`, and `publish_packet` and `publish_thread` to `rb_evt`, are steps
  of the same `BoundedFifo` that `RingBuf` implements, with the refusals counted modulo any
  `OvfMod` (2^64 in the build). `BoundedFifo` remembers the last answer of `rb_pop`, which `Pipeline`
  does not keep, so two history variables (`gotPkt`, `gotEvt` of `HSpec`) do; they restrict no step.
  `AnswersUsed` says that they are more than decoration: the packet under analysis and the newest
  event of a batch are what the ring gave out last. That an event is an item at all, and not
  the 0 of "empty", follows from `Ordered` (`InHandArrived`). What remains an argument is that a ring
  has one producer thread and one consumer thread, as `RingBuf` assumes: here it can be read off the
  actions, as only the capture thread pushes packets, only the analysis thread pops them and
  pushes events, and only the publish thread pops events.
- **Analyzer.** The bound of two windows in `IncidentSpan` is not inductive: from EXPLOIT an attack
  of the last kind may add another window. `SoundEntry` adds that RECON was entered when the
  incident began and EXPLOIT at most one window later, and that time is positive, since 0 in
  `kc_first_seen` means "no incident". The lemmas follow the calls: what `ResetIfExpired` leaves
  (`ResetSound`), what one more hit does to the stage (`StageOfHit`), both in
  `advance_kill_chain` (`AdvanceSound`), then cleanup and lookup (`CleanupSound`, `TrackSound`). `SilentLoseSlots` needs that
  whoever is in the table was heard less than the inactivity timeout before the last cleanup, or
  after it (`Heard`); what a packet leaves in the table is then no older than the
  cleanup it made or found less than an interval old (`PacketSlots`, `PacketHeard`).
- **Detectors.** Each detector has a lemma that says what it leaves alone, since nine of them
  run over the same record. `PortsKept` relates the array of ports to the ports seen: they are
  different and all seen. `LogKept` relates the tumbling window to the log of SYNs: at least as many of
  the last SYNs as the detector counts came within its window; and if every SYN from some point on went
  unreported, they have all been counted, or all but fewer than the threshold that came before the
  window started anew, or that point is more than a window ago. The middle case is where the
  bound of `BurstNeverSilent` comes from, twice the threshold less one.
- **Publisher.** `Turns`: a thread connects or publishes exactly while it holds the mutex, and
  main only before the others exist. `Linked`: flag and connection agree even within a
  critical section, because each step that changes one changes the other. In the refinement a batch is
  offered when `publish_to` returns 0 and delivered when the broker reads it, at the latest in
  `close_queue`; every failure and reconnection stutters.
- **WorkerPool.** Between the two critical sections of `pool_down_cb` a slot is neither free nor
  its worker's. `Reserved` says that it stays active and on the books of the thread the scaler
  joins, so that `pool_spawn_one_locked` passes it by; `InHand` and `Named` say that
  a slot on the books names a thread. `Counted`, the part of `WorkersOnTheBooks` that says that
  the pool's count is the number of active slots, is what the gauge and the limits of the scaler
  rest on. First free and last active slot come from the least element of
  a set of numbers, by well-founded induction.
- **Consumer.** The proof looks at every place a message can be in as a holder of a
  set: queues, inboxes, handlers, fates. Every step moves a message from one holder to another, adds
  a new one or pours holders out into `lost` (`MessageMoved`, `MessageAdded`, `HoldersPoured`). `OnePlace`
  says that holders share nothing and queues repeat nothing; `Accounted` which messages there are,
  `Sharing` that the events of a message are sent by one worker, in order, after it was written:
  without it an event could be sent again after it was lost. `Gauged` ties the gauge to the links.
- **Enrichment.** `ApiSpared` counts requests against time. `Spared` is its inductive form: k
  requests more than the first take k times the shorter lifetime and a second (`Floor`), and then the cache, or the
  worker that is asking, remembers long enough for the next one; it needs `Turns` (the
  mutex is held exactly while a request is out) and `Clocked` (a worker's time, read before it waited, is
  past). `GeoFew` counts a worker about to insert as an entry, so that look-ups that missed together do
  not exceed the number of workers. `Remembered` says that a score a point was written with is what
  the cache repeats until it expires, which gives `ScoresAgree`. `PostWhole` takes a second invariant,
  `Texts`, on top of the first: the text built so far is whole for the events gone through.

What the assumptions ask, beyond types and positive sizes: `Cap` divides `CtrMod`
(`next_pow2`); a batch is not empty (`publish_thread` sends none);
the sets of workers and consumers are finite; a line takes at least the 64 bytes
that `nta_influx.c` wants to see free before it begins one (`LineAssumption`; any line is longer).

Proved and in no run: `InOrder`, the inner form of what the run `pipeline` checks as
`ImplementsLossyLine`; `BooksBalance`; `RingsCompose` and
`AnswersUsed`, whose history variables no run has; `GaugeCounts`; and that `Publisher` implements `LossyLine`, whose
order `SentOnce` covers in the run `publisher`.

Only model-checked:

- the liveness properties, which are out of the prover's reach;
- `Replay`: what a file alone gives (`Alone`), the score of a directory and the score of a
  file are folds over sequences, about which the installed provers cannot do induction.

## Not modelled

- WHOIS (`nta_whois.c`): the same cache as AbuseIPDB's under one mutex that is held over the
  queries, but with a single user, the narrator thread; the rest is parsing of replies.
- The text of line protocol, narrator prompts and JSON; the HTTP server of the health endpoint;
  the replay report.
- The EWMA arithmetic, the entropy and the DNS name reader of the detectors (see `Detectors`).
- The counters of a suspect that only grow (`analyzer.c:513`): 2^31 packets of one source without a
  pause of five minutes would overflow them.
- IoC lists (immutable after start), configuration, CLI, interface and service glue; cJSON (third
  party).

## Plan

1. The two stages `Pipeline` and `Publisher`, each proved to be a `LossyLine`, as one from packet to
   broker; it needs a batch of the publisher to be identified with the events it was filled with.
2. The DNS name reader behind `detect_dns_tunnel` as a pure function in `Detectors`.

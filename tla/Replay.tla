------------------------------- MODULE Replay -------------------------------
(***************************************************************************)
(* Replay mode: recorded captures are analysed in one thread, what the     *)
(* analysis reports is collected (analysis/collector.c) and compared with  *)
(* the answer sheet of the capture (replay/replay.c), and the exit code    *)
(* tells the CI whether 80 % of what was expected was found.  main runs it *)
(* on one file or on a directory, whose entries come in any order.         *)
(*                                                                         *)
(* Files share the analyzer's tables, the collector and g_replay_mode.     *)
(* The analysis is reduced to what carries over from packet to packet and  *)
(* from file to file: a counter for each source that reports from the      *)
(* Threshold-th packet on, and the cleanup of idle sources.  Modules       *)
(* Analyzer and Detectors look inside.  Times are seconds.                 *)
(***************************************************************************)
EXTENDS Integers, Sequences, FiniteSets, SequencesExt

CONSTANTS
  Names,                             \* the *.pcap entries of the directory
  Files,                             \* what a file and its sheet may hold
  Ips, Threshold,
  CleanupInterval, InactiveTimeout,  \* CLEANUP_INTERVAL, INACTIVE_TIMEOUT
  MaxDetections, MaxExpected,        \* MAX_DETECTIONS, MAX_EXPECTED
  MaxResults                         \* the 256 of replay_dir

\* A file that cannot be opened, or packets of which the first `readable` can be
\* read; the sheet loads or not, and some of its items may be no expectations.
Packet == [ip : Ips, kind : STRING, ts : Nat]
Item   == [valid : BOOLEAN, ip : Ips, attack : STRING, window : BOOLEAN, from : Int, to : Int]
File   == [opens : BOOLEAN, packets : Seq(Packet), readable : Nat,
           sheet : [loads : BOOLEAN, items : Seq(Item)]]

ASSUME FilesAssumption == Files \subseteq File /\ \A f \in Files : f.readable <= Len(f.packets)
ASSUME LimitsAssumption ==
  {Threshold, MaxDetections, MaxExpected, MaxResults} \subseteq Nat \ {0}
ASSUME TimesAssumption == {CleanupInterval, InactiveTimeout} \subseteq Nat

VARIABLES
  mode,                   \* "file" or "dir"
  disk,                   \* the files, which do not change
  pc, todo, file,         \* where replay is, entries not yet read, the current one
  sheet, startTs, pos,    \* its Gabarito with pcap_start_ts, its next packet
  analyzer,               \* count and last packet of each source, last_cleanup
  events, replayMode,     \* g_events, g_replay_mode
  results,                \* passed and expected_count of the files done
  exit                    \* the exit code, or Running

input == <<mode, disk>>
state == <<analyzer, events, replayMode>>
vars  == <<input, pc, todo, file, sheet, startTs, pos, state, results, exit>>

Running == -1
NoSheet == [loads |-> FALSE, entries |-> <<>>]
Cleared == [count |-> [ip \in Ips |-> 0], seen |-> [ip \in Ips |-> 0], lastCleanup |-> 0]

Init ==
  /\ mode \in {"file", "dir"} /\ disk \in [Names -> Files]
  /\ pc = "next" /\ todo = Names /\ file \in Names
  /\ sheet = NoSheet /\ startTs = 0 /\ pos = 1
  /\ analyzer = Cleared /\ events = <<>> /\ replayMode = FALSE
  /\ results = <<>> /\ exit = Running

Total(f(_), seq) == FoldLeft(LAMBDA n, x : n + f(x), 0, seq)
Passed(r)   == r.passed
Expected(r) == r.expected

(***************************************************************************)
(* Bugs that mutation runs plant in the definitions below.                 *)
(***************************************************************************)
MutRecordUnbounded(evs, replaying, p) ==
  IF replaying THEN Append(evs, [attack |-> p.kind, ip |-> p.ip, ts |-> p.ts]) ELSE evs

MutResetKeepsCleanup == [Cleared EXCEPT !.lastCleanup = analyzer.lastCleanup]

MutBelowMean(rs) ==
  LET judged == SelectSeq(rs, LAMBDA r : r.expected > 0)
      Score(r) == (100 * r.passed) \div r.expected
  IN  judged # <<>> /\ Total(Score, judged) < 80 * Len(judged)

(***************************************************************************)
(* Helpers.                                                                *)
(***************************************************************************)
\* Items without the two strings are skipped and do not count; after
\* MAX_EXPECTED entries the rest of the array is not looked at.
gabarito_load(s) ==
  LET entries == SelectSeq(s.items, LAMBDA item : item.valid)
  IN  IF ~s.loads THEN NoSheet
      ELSE [loads |-> TRUE,
            entries |-> SubSeq(entries, 1, IF Len(entries) < MaxExpected THEN Len(entries)
                                                                         ELSE MaxExpected)]

analyzer_reset == Cleared

\* Idle sources are forgotten when a cleanup is due; the packet counts after that.
analyze_packet(a, p) ==
  LET due  == p.ts - a.lastCleanup >= CleanupInterval
      kept == [ip \in Ips |-> IF due /\ p.ts - a.seen[ip] >= InactiveTimeout THEN 0 ELSE a.count[ip]]
  IN  [count |-> [kept EXCEPT ![p.ip] = IF @ < Threshold THEN @ + 1 ELSE @],
       seen |-> [a.seen EXCEPT ![p.ip] = p.ts],
       lastCleanup |-> IF due THEN p.ts ELSE a.lastCleanup]

Reported(a, p) == a.count[p.ip] >= Threshold

collector_record(evs, replaying, p) ==
  IF replaying /\ Len(evs) < MaxDetections
    THEN Append(evs, [attack |-> p.kind, ip |-> p.ip, ts |-> p.ts]) ELSE evs

\* strcmp of both names; the window counts from the first packet, unless its
\* time is not known.
Matches(d, e, start) ==
  /\ d.attack = e.attack /\ d.ip = e.ip
  /\ e.window /\ start > 0 => d.ts - start >= e.from /\ d.ts - start <= e.to

compare_results ==
  LET found == {i \in DOMAIN sheet.entries :
                  \E j \in DOMAIN events : Matches(events[j], sheet.entries[i], startTs)}
  IN  [file |-> file, passed |-> Cardinality(found), expected |-> Len(sheet.entries)]

\* Results past the 256th are thrown away.
Kept(result) == IF Len(results) < MaxResults THEN Append(results, result) ELSE results

\* passed / expected * 100.0 < 80.0.  (The double of 4/5 times 100 is 80 exactly.)
Below(rs) ==
  LET expected == Total(Expected, rs)
  IN  expected > 0 /\ 5 * Total(Passed, rs) < 4 * expected

(***************************************************************************)
(* One file.                                                               *)
(***************************************************************************)
\* main's mode for one file, or readdir: the sheet is loaded before the capture.
Begin(name) ==
  /\ pc = "next" /\ name \in todo /\ exit = Running
  /\ todo' = IF mode = "dir" THEN todo \ {name} ELSE {}
  /\ file' = name
  /\ sheet' = gabarito_load(disk[name].sheet) /\ startTs' = 0 /\ pos' = 1
  /\ pc' = "open"
  /\ UNCHANGED <<input, state, results, exit>>

\* pcap_open_offline fails: the result says that nothing was expected.
OpenFails ==
  /\ pc = "open" /\ ~disk[file].opens
  /\ results' = Kept([file |-> file, passed |-> 0, expected |-> 0])
  /\ pc' = "next"
  /\ UNCHANGED <<input, todo, file, sheet, startTs, pos, state, exit>>

\* The resets; with expectations to meet the first packet is read apart.
Opens ==
  /\ pc = "open" /\ disk[file].opens
  /\ events' = <<>> /\ analyzer' = analyzer_reset /\ replayMode' = TRUE
  /\ pc' = IF sheet.entries # <<>> THEN "first" ELSE "loop"
  /\ UNCHANGED <<input, todo, file, sheet, startTs, pos, results, exit>>

\* packet_handler in replay mode: analysed at once, nothing is published.
Handle ==
  LET p == disk[file].packets[pos]
  IN  /\ pos <= disk[file].readable /\ pos' = pos + 1
      /\ analyzer' = analyze_packet(analyzer, p)
      /\ events' = IF Reported(analyzer', p) THEN collector_record(events, replayMode, p)
                                             ELSE events

First ==
  /\ pc = "first" /\ pc' = "loop"
  /\ \/ Handle /\ startTs' = disk[file].packets[pos].ts
     \/ disk[file].readable = 0 /\ UNCHANGED <<startTs, pos, analyzer, events>>
  /\ UNCHANGED <<input, todo, file, sheet, replayMode, results, exit>>

LoopPacket ==
  /\ pc = "loop" /\ Handle
  /\ UNCHANGED <<input, pc, todo, file, sheet, startTs, replayMode, results, exit>>

\* The end of the capture, or damage: pcap_loop's answer is not looked at.
LoopEnds ==
  /\ pc = "loop" /\ pos > disk[file].readable
  /\ replayMode' = FALSE
  /\ results' = Kept(compare_results)
  /\ pc' = "next"
  /\ UNCHANGED <<input, todo, file, sheet, startTs, pos, analyzer, events, exit>>

(***************************************************************************)
(* The exit code.                                                          *)
(***************************************************************************)
\* main after one file: the score, 0 as long as nothing was compared, counts
\* only if a sheet was loaded.
FileEnds ==
  /\ mode = "file" /\ pc = "next" /\ todo = {} /\ exit = Running
  /\ exit' = IF sheet.loads /\ (Below(results) \/ Total(Expected, results) = 0) THEN 1 ELSE 0
  /\ UNCHANGED <<input, pc, todo, file, sheet, startTs, pos, state, results>>

\* replay_dir after the last entry: the aggregate of all results.
DirEnds ==
  /\ mode = "dir" /\ pc = "next" /\ todo = {} /\ exit = Running
  /\ exit' = IF Below(results) THEN 1 ELSE 0
  /\ UNCHANGED <<input, pc, todo, file, sheet, startTs, pos, state, results>>

Done == exit # Running /\ UNCHANGED vars

Next ==
  \/ \E name \in Names : Begin(name)
  \/ OpenFails \/ Opens \/ First \/ LoopPacket \/ LoopEnds \/ FileEnds \/ DirEnds \/ Done

Spec == Init /\ [][Next]_vars

(***************************************************************************)
(* Properties.                                                             *)
(***************************************************************************)
Detection == [attack : STRING, ip : Ips, ts : Nat]

\* Values every variable keeps to; g_events is never written past its end.
TypeOK ==
  /\ exit \in {Running, 0, 1} /\ replayMode \in BOOLEAN
  /\ events \in Seq(Detection) /\ Len(events) <= MaxDetections
  /\ sheet.loads \in BOOLEAN /\ Len(sheet.entries) <= MaxExpected
  /\ startTs \in Nat /\ pos \in 1 .. Len(disk[file].packets) + 1
  /\ analyzer.count \in [Ips -> 0 .. Threshold] /\ analyzer.seen \in [Ips -> Nat]
  /\ analyzer.lastCleanup \in Nat
  /\ Len(results) <= MaxResults
  /\ \A i \in DOMAIN results : results[i].passed \in 0 .. results[i].expected

\* All that the analysis of a file reports when the program does nothing else.
Alone(f) ==
  FoldLeft(LAMBDA r, p :
             LET a == analyze_packet(r.a, p)
             IN  [a |-> a, found |-> IF Reported(a, p)
                                       THEN Append(r.found, [attack |-> p.kind, ip |-> p.ip, ts |-> p.ts])
                                       ELSE r.found],
           [a |-> Cleared, found |-> <<>>], SubSeq(f.packets, 1, f.readable)).found

Wanted(f) == gabarito_load(f.sheet).entries

\* The expectations that are met by what the file alone gives, all of it.
Met(f) ==
  {i \in DOMAIN Wanted(f) :
     \E d \in Range(Alone(f)) : Matches(d, Wanted(f)[i], f.packets[1].ts)}

Overflows(f) == Len(Alone(f)) > MaxDetections

\* A file is judged by its own packets and its own sheet, whichever files came
\* before it, and no expectation is met by anything else.  Where the collector
\* is not large enough, expectations may go unmet.
ResultTellsFile ==
  \A i \in DOMAIN results :
    LET f == disk[results[i].file]
    IN  IF f.opens
          THEN /\ results[i].expected = Len(Wanted(f))
               /\ results[i].passed <= Cardinality(Met(f))
               /\ Overflows(f) \/ results[i].passed = Cardinality(Met(f))
          ELSE results[i].expected = 0

\* The gate of the CI, "falha se o score < 80%": it passes only if four fifths of
\* all that was expected of the files that could be opened is found by analysing
\* them, and fails only if not, or if the collector overflowed.  One file with a
\* sheet has to be opened and to be told what to expect.
GateHonest ==
  exit # Running =>
    LET judged  == SelectSeq(results, LAMBDA r : disk[r.file].opens)
        Sheet(r) == Len(Wanted(disk[r.file]))
        Right(r) == Cardinality(Met(disk[r.file]))
        enough  == 5 * Total(Right, judged) >= 4 * Total(Sheet, judged)
        full    == \E i \in DOMAIN judged : Overflows(disk[judged[i].file])
    IN  IF mode = "dir"
          THEN /\ Len(results) = IF Cardinality(Names) < MaxResults THEN Cardinality(Names) ELSE MaxResults
               /\ IF exit = 0 THEN enough ELSE ~enough \/ full
          ELSE IF exit = 0 THEN ~sheet.loads \/ (Total(Sheet, judged) > 0 /\ enough)
               ELSE sheet.loads /\ (Total(Sheet, judged) = 0 \/ ~enough \/ full)
=============================================================================

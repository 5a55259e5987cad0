------------------------------ MODULE Analyzer ------------------------------
(***************************************************************************)
(* The stateful core of analysis/analyzer.c: the table of suspects and its *)
(* periodic cleanup, the kill-chain correlator, and the ARP table.  One    *)
(* action per path through analyze_packet, which runs in one thread and is *)
(* atomic for everything it touches.                                       *)
(*                                                                         *)
(* Which attack, if any, the detectors report for a packet is a free       *)
(* choice among Attacks: the counters and thresholds behind it are         *)
(* abstracted.  kc_mitre is left out: it is written and never published.   *)
(* Time is counted in ticks; the code's limits (60, 300, 300 and 1800 s)   *)
(* are constants.                                                          *)
(***************************************************************************)
EXTENDS Integers, FiniteSets

CONSTANTS IPs,             \* source addresses
          HomeNet,         \* those of the monitored network
          MACs,            \* Ethernet addresses
          Attacks,         \* attacks the IP detectors may report
          NoIP,            \* no address: the field of an absent event or ARP entry
          MaxSuspects, MaxArp,                   \* sizes of the two tables
          CleanupInterval, InactiveTimeout,      \* CLEANUP_INTERVAL, INACTIVE_TIMEOUT
          KcWindow, FastProgress,                \* KC_WINDOW_SEC, the 300 s of the score
          MaxTime                                \* bound: the last tick

IDLE == 0
RECON == 1
EXPLOIT == 2
EXFIL == 3
COMPLETE == 4

ArpAttack == "ARP_SPOOF"
AllAttacks == {"PORT_SCAN", "NULL_SCAN", "XMAS_SCAN", "SYNFIN_SCAN", "SYN_FLOOD", "BRUTE_FORCE",
               "DNS_TUNNEL", "AMPLIFICATION", "ICMP_FLOOD"}

ASSUME SetsAssumption == HomeNet \subseteq IPs /\ Attacks \subseteq AllAttacks /\ NoIP \notin IPs
ASSUME SizesAssumption == MaxSuspects \in Nat \ {0} /\ MaxArp \in Nat /\ IsFiniteSet(IPs)
ASSUME TimesAssumption ==
  /\ CleanupInterval \in Nat \ {0} /\ InactiveTimeout \in Nat \ {0}
  /\ KcWindow \in Nat \ {0} /\ FastProgress \in Nat \ {0} /\ MaxTime \in Nat

VARIABLES now,             \* the timestamp of the packet being analysed
          tracked,         \* addresses with an entry in suspects[0 .. suspect_count - 1]
          suspects,        \* their entries; Blank where there is none
          lastCleanup,
          arp,             \* the ARP table: MAC to the address it was first seen with
          event            \* what the last step gave to publish_packet

vars == <<now, tracked, suspects, lastCleanup, arp, event>>

NoEvent == [ip |-> NoIP, attack |-> "NONE", stage |-> IDLE, score |-> 0]

Blank == [lastSeen |-> 0, stage |-> IDLE, entered |-> 0, first |-> 0, hits |-> {}, score |-> 0]

attack_to_stage(a) ==
  IF a \in {"PORT_SCAN", "NULL_SCAN", "XMAS_SCAN", "SYNFIN_SCAN", ArpAttack} THEN RECON
  ELSE IF a \in {"SYN_FLOOD", "BRUTE_FORCE"} THEN EXPLOIT
  ELSE EXFIL

Base == [k \in IDLE .. COMPLETE |-> CASE k = IDLE -> 0 [] k = RECON -> 20 [] k = EXPLOIT -> 50
                                      [] k = EXFIL -> 70 [] k = COMPLETE -> 90]

(***************************************************************************)
(* Bugs that mutation runs plant in the definitions below.                 *)
(***************************************************************************)
MutScoreUncappedBonus(stage, first) ==
  Base[stage] + (IF first > 0 /\ stage >= EXPLOIT /\ now - first < FastProgress THEN 20 ELSE 0)

MutResetKeepsHits(s) ==
  IF s.stage > IDLE /\ now - s.entered > KcWindow
    THEN [s EXCEPT !.stage = IDLE, !.first = 0, !.score = 0]
    ELSE s

MutResetKeepsFirst(s) ==
  IF s.stage > IDLE /\ now - s.entered > KcWindow
    THEN [s EXCEPT !.stage = IDLE, !.hits = {}, !.score = 0]
    ELSE s

MutResetAlways(s) == [s EXCEPT !.stage = IDLE, !.hits = {}, !.first = 0, !.score = 0]

MutCleanupPutOff == now

(***************************************************************************)
(* The correlator.                                                         *)
(***************************************************************************)
calculate_kc_score(stage, first) ==
  Base[stage] + (IF first > 0 /\ stage >= EXPLOIT /\ now - first < FastProgress THEN 10 ELSE 0)

ResetIfExpired(s) ==
  IF s.stage > IDLE /\ now - s.entered > KcWindow
    THEN [s EXCEPT !.stage = IDLE, !.hits = {}, !.first = 0, !.score = 0]
    ELSE s

advance_kill_chain(suspect, attack) ==
  LET target == attack_to_stage(attack)
      s      == ResetIfExpired(suspect)
      first  == IF s.first = 0 THEN now ELSE s.first
      hits   == s.hits \cup {target}
      stage  == IF {RECON, EXPLOIT, EXFIL} \subseteq hits THEN COMPLETE
                ELSE IF target > s.stage THEN target ELSE s.stage
  IN  [s EXCEPT !.first = first, !.hits = hits, !.stage = stage,
                !.entered = IF target > s.stage THEN now ELSE s.entered,
                !.score = calculate_kc_score(stage, first)]

(***************************************************************************)
(* The table of suspects.  cleanup_suspects runs first on every packet.    *)
(***************************************************************************)
IdleSuspects == {ip \in tracked : now - suspects[ip].lastSeen >= InactiveTimeout}
CleanupDue == now - lastCleanup >= CleanupInterval

TrackedAfterCleanup == IF CleanupDue THEN tracked \ IdleSuspects ELSE tracked
SuspectsAfterCleanup == [ip \in IPs |-> IF ip \in TrackedAfterCleanup THEN suspects[ip] ELSE Blank]
LastCleanupAfter == IF CleanupDue THEN now ELSE lastCleanup

Init ==
  /\ now = CleanupInterval
  /\ tracked = {} /\ suspects = [ip \in IPs |-> Blank] /\ lastCleanup = 0
  /\ arp = [m \in MACs |-> NoIP]
  /\ event = NoEvent

\* The next packet is a later one: pcap's timestamps are taken not to step back.
Tick ==
  /\ now < MaxTime
  /\ now' = now + 1
  /\ event' = NoEvent
  /\ UNCHANGED <<tracked, suspects, lastCleanup, arp>>

\* Short or foreign frames, IPv4 headers that do not fit, sources of the home
\* net, and new sources while the table is full: only the cleanup happens.
AnalyzeIgnored ==
  /\ tracked' = TrackedAfterCleanup
  /\ suspects' = SuspectsAfterCleanup
  /\ lastCleanup' = LastCleanupAfter
  /\ event' = NoEvent
  /\ UNCHANGED <<now, arp>>

\* find_or_create_suspect succeeds for ip; entry is what it returns.
Found(ip) == ip \in TrackedAfterCleanup \/ Cardinality(TrackedAfterCleanup) < MaxSuspects
Entry(ip) == [SuspectsAfterCleanup[ip] EXCEPT !.lastSeen = now]

Track(ip, entry) ==
  /\ ip \notin HomeNet /\ Found(ip)
  /\ tracked' = TrackedAfterCleanup \cup {ip}
  /\ suspects' = [SuspectsAfterCleanup EXCEPT ![ip] = entry]
  /\ lastCleanup' = LastCleanupAfter
  /\ UNCHANGED <<now, arp>>

\* A transport header that does not fit, or another protocol: no event.
AnalyzeTruncated(ip) ==
  /\ Track(ip, Entry(ip))
  /\ event' = NoEvent

\* No detector fires: telemetry with the stage and score of the suspect.
AnalyzeNormal(ip) ==
  /\ Track(ip, Entry(ip))
  /\ event' = [ip |-> ip, attack |-> "NONE", stage |-> Entry(ip).stage, score |-> Entry(ip).score]

AnalyzeAttack(ip, attack) ==
  LET entry == advance_kill_chain(Entry(ip), attack)
  IN  /\ Track(ip, entry)
      /\ event' = [ip |-> ip, attack |-> attack, stage |-> entry.stage, score |-> entry.score]

\* An ARP reply: a MAC seen with another address is a spoof, a new MAC is
\* learnt while there is room, and an entry is never changed or removed.
ArpRoom == Cardinality({m \in MACs : arp[m] # NoIP}) < MaxArp

AnalyzeArp(mac, ip) ==
  /\ tracked' = TrackedAfterCleanup
  /\ suspects' = SuspectsAfterCleanup
  /\ lastCleanup' = LastCleanupAfter
  /\ arp' = IF arp[mac] = NoIP /\ ArpRoom THEN [arp EXCEPT ![mac] = ip] ELSE arp
  /\ event' = IF arp[mac] \notin {NoIP, ip}
                THEN [ip |-> ip, attack |-> ArpAttack, stage |-> RECON, score |-> 20]
                ELSE NoEvent
  /\ UNCHANGED now

Next ==
  \/ Tick
  \/ AnalyzeIgnored
  \/ \E ip \in IPs : AnalyzeTruncated(ip) \/ AnalyzeNormal(ip)
  \/ \E ip \in IPs, attack \in Attacks : AnalyzeAttack(ip, attack)
  \/ \E mac \in MACs, ip \in IPs : AnalyzeArp(mac, ip)

Spec == Init /\ [][Next]_vars

(***************************************************************************)
(* Properties.                                                             *)
(***************************************************************************)
Stages == IDLE .. COMPLETE

\* The tables keep to their sizes and every field to its range: the score that
\* is published is a severity from 0 to 100.
TypeOK ==
  /\ now \in Nat /\ lastCleanup \in Nat
  /\ tracked \subseteq IPs \ HomeNet /\ Cardinality(tracked) <= MaxSuspects
  /\ suspects \in [IPs -> [lastSeen : Nat, stage : Stages, entered : Nat, first : Nat,
                           hits : SUBSET {RECON, EXPLOIT, EXFIL}, score : 0 .. 100]]
  /\ arp \in [MACs -> IPs \cup {NoIP}]
  /\ event \in [ip : IPs \cup {NoIP}, attack : AllAttacks \cup {ArpAttack, "NONE"},
                stage : Stages, score : 0 .. 100]

\* The highest stage among those hit in the incident.
HighestHit(hits) == IF EXFIL \in hits THEN EXFIL ELSE IF EXPLOIT \in hits THEN EXPLOIT
                    ELSE IF RECON \in hits THEN RECON ELSE IDLE

\* The stage a suspect is in tells which attacks its incident has seen, in
\* whatever order they came and however often the incident was reset: COMPLETE
\* exactly when all three kinds were, otherwise the highest of them.
StageTellsHits ==
  \A ip \in IPs :
    suspects[ip].stage = IF suspects[ip].hits = {RECON, EXPLOIT, EXFIL} THEN COMPLETE
                         ELSE HighestHit(suspects[ip].hits)

\* An incident has a beginning exactly while it has a stage, its stage was not
\* entered before it began, and it can stretch over two correlation windows at
\* most, because each stage reopens the window once.
IncidentSpan ==
  \A ip \in IPs :
    LET s == suspects[ip]
    IN  /\ s.first > 0 <=> s.stage > IDLE
        /\ s.stage > IDLE => s.first <= s.entered /\ s.entered <= now
                             /\ s.entered - s.first <= 2 * KcWindow

\* Within an incident the stage never goes back: a suspect the cleanup leaves in
\* the table falls to a lower stage only when its correlation window has expired.
StageOnlyAdvances ==
  [][\A ip \in TrackedAfterCleanup :
       suspects'[ip].stage < suspects[ip].stage => now - suspects[ip].entered > KcWindow]_vars

\* A table that is full of sources that fell silent does not turn new ones away for
\* long: whatever packets come in between, each packet finds every slot held by a
\* source that was heard less than INACTIVE_TIMEOUT before the last cleanup, and the
\* last cleanup less than CLEANUP_INTERVAL ago.  (Both in whole seconds.)
SilentLoseSlots ==
  [][now' = now =>
       \A ip \in tracked' :
         now - suspects'[ip].lastSeen <= (InactiveTimeout - 1) + (CleanupInterval - 1)]_vars
=============================================================================

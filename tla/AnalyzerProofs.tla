--------------------------- MODULE AnalyzerProofs ---------------------------
(***************************************************************************)
(* The suspect table and the kill-chain correlator are correct for every   *)
(* set of addresses, every size of the tables and every choice of the time *)
(* limits.                                                                 *)
(***************************************************************************)
EXTENDS Analyzer, FiniteSetTheorems, TLAPS

Hits == SUBSET {RECON, EXPLOIT, EXFIL}
Entries == [lastSeen : Nat, stage : Stages, entered : Nat, first : Nat, hits : Hits, score : 0 .. 100]

StageOf(hits) == IF hits = {RECON, EXPLOIT, EXFIL} THEN COMPLETE ELSE HighestHit(hits)

\* What an entry of the table says of its incident at time t.  The first three
\* conjuncts are the checked invariants; the last two make them inductive: how
\* late a stage can have been entered depends on the stages below it.
SoundEntry(s, t) ==
  /\ s.stage = StageOf(s.hits)
  /\ s.first > 0 <=> s.stage > IDLE
  /\ s.stage > IDLE => s.first <= s.entered /\ s.entered <= t
                       /\ s.entered - s.first <= 2 * KcWindow
  /\ s.stage = RECON => s.entered = s.first
  /\ s.stage = EXPLOIT => s.entered - s.first <= KcWindow

IInv == TypeOK /\ now > 0 /\ \A ip \in IPs : SoundEntry(suspects[ip], now)

(***************************************************************************)
(* The correlator.                                                         *)
(***************************************************************************)
\* The stages are the numbers from 0 to 4 in the order of the kill chain.
LEMMA StageNumbers ==
  /\ IDLE = 0 /\ RECON = 1 /\ EXPLOIT = 2 /\ EXFIL = 3 /\ COMPLETE = 4
  /\ Stages = 0 .. 4
BY DEF IDLE, RECON, EXPLOIT, EXFIL, COMPLETE, Stages

\* An attack belongs to one of the three stages before COMPLETE.
LEMMA TargetIsStage ==
  ASSUME NEW a
  PROVE  attack_to_stage(a) \in {RECON, EXPLOIT, EXFIL}
BY DEF attack_to_stage

\* calculate_kc_score stays within 0 to 100.
LEMMA ScoreInRange ==
  ASSUME NEW stage \in Stages, NEW first
  PROVE  calculate_kc_score(stage, first) \in 0 .. 100
<1>1. Base[stage] \in 0 .. 90
  BY StageNumbers DEF Base
<1> QED BY <1>1 DEF calculate_kc_score

\* The reset at the start of advance_kill_chain leaves a sound entry that is new
\* or whose correlation window is still open.
LEMMA ResetSound ==
  ASSUME NEW s \in Entries, now \in Nat, SoundEntry(s, now)
  PROVE  /\ ResetIfExpired(s) \in Entries /\ SoundEntry(ResetIfExpired(s), now)
         /\ ResetIfExpired(s).stage > IDLE => now - ResetIfExpired(s).entered <= KcWindow
         /\ now - s.entered <= KcWindow => ResetIfExpired(s) = s
<1> USE TimesAssumption, StageNumbers
<1>1. CASE s.stage > IDLE /\ now - s.entered > KcWindow
  <2> DEFINE r == [s EXCEPT !.stage = IDLE, !.hits = {}, !.first = 0, !.score = 0]
  <2>1. ResetIfExpired(s) = r
    BY <1>1 DEF ResetIfExpired
  <2>2. r \in Entries /\ r.stage = 0 /\ r.first = 0 /\ r.hits = {}
    <3>1. {} \in Hits /\ IDLE \in Stages /\ 0 \in 0 .. 100 /\ 0 \in Nat
      BY DEF Hits
    <3> QED BY <3>1 DEF Entries
  <2>3. StageOf({}) = 0
    <3>1. {} # {RECON, EXPLOIT, EXFIL}
      OBVIOUS
    <3> QED BY <3>1 DEF StageOf, HighestHit
  <2>4. SoundEntry(r, now)
    BY <2>2, <2>3 DEF SoundEntry
  <2>5. s.entered \in Nat
    BY DEF Entries
  <2> HIDE DEF r
  <2> QED BY <1>1, <2>1, <2>2, <2>4, <2>5
<1>2. CASE ~(s.stage > IDLE /\ now - s.entered > KcWindow)
  <2>1. ResetIfExpired(s) = s
    BY <1>2 DEF ResetIfExpired
  <2>2. s.stage \in Stages /\ s.entered \in Nat
    BY DEF Entries
  <2> QED BY <1>2, <2>1, <2>2
<1> QED BY <1>1, <1>2

\* What advance_kill_chain computes for one more hit is the stage of the hits.
StageMoves(hits, target) ==
  /\ hits \cup {target} \in Hits
  /\ StageOf(hits \cup {target}) =
       IF {RECON, EXPLOIT, EXFIL} \subseteq hits \cup {target} THEN COMPLETE
       ELSE IF target > StageOf(hits) THEN target ELSE StageOf(hits)

\* One more hit moves the stage to the one that the hits tell.
LEMMA StageOfHit ==
  ASSUME NEW hits \in Hits, NEW target \in {RECON, EXPLOIT, EXFIL}
  PROVE  StageMoves(hits, target)
<1> USE StageNumbers
<1>1. hits \cup {target} \in Hits
  BY DEF Hits
<1>2. CASE {RECON, EXPLOIT, EXFIL} \subseteq hits \cup {target}
  <2>1. hits \cup {target} = {RECON, EXPLOIT, EXFIL}
    BY <1>1, <1>2 DEF Hits
  <2> QED BY <1>1, <1>2, <2>1 DEF StageOf, StageMoves
<1>3. CASE ~({RECON, EXPLOIT, EXFIL} \subseteq hits \cup {target})
  <2>1. hits \cup {target} # {RECON, EXPLOIT, EXFIL} /\ hits # {RECON, EXPLOIT, EXFIL}
    BY <1>3
  <2>2. StageOf(hits \cup {target}) = HighestHit(hits \cup {target}) /\ StageOf(hits) = HighestHit(hits)
    BY <2>1 DEF StageOf
  <2>3. HighestHit(hits \cup {target}) = IF target > HighestHit(hits) THEN target ELSE HighestHit(hits)
    BY DEF HighestHit
  <2> QED BY <1>1, <1>3, <2>2, <2>3 DEF StageMoves
<1> QED BY <1>2, <1>3

\* advance_kill_chain keeps an entry sound, and lowers its stage only if its
\* correlation window has expired.
LEMMA AdvanceSound ==
  ASSUME NEW s \in Entries, NEW attack, now \in Nat, now > 0, SoundEntry(s, now)
  PROVE  LET e == advance_kill_chain(s, attack)
         IN  /\ e \in Entries /\ SoundEntry(e, now)
             /\ e.stage < s.stage => now - s.entered > KcWindow
<1> USE TimesAssumption, StageNumbers
<1> DEFINE target == attack_to_stage(attack)
           r == ResetIfExpired(s)
           first == IF r.first = 0 THEN now ELSE r.first
           hits == r.hits \cup {target}
           stage == IF {RECON, EXPLOIT, EXFIL} \subseteq hits THEN COMPLETE
                    ELSE IF target > r.stage THEN target ELSE r.stage
           entered == IF target > r.stage THEN now ELSE r.entered
           score == calculate_kc_score(stage, first)
           e == [r EXCEPT !.first = first, !.hits = hits, !.stage = stage,
                          !.entered = entered, !.score = score]
<1>1. advance_kill_chain(s, attack) = e
  BY DEF advance_kill_chain
<1>2. target \in {RECON, EXPLOIT, EXFIL}
  BY TargetIsStage
<1>3. /\ r \in Entries /\ SoundEntry(r, now)
      /\ r.stage > IDLE => now - r.entered <= KcWindow
      /\ now - s.entered <= KcWindow => r = s
  BY ResetSound
<1> HIDE DEF target, r
<1>4. /\ r.stage \in 0 .. 4 /\ r.entered \in Nat /\ r.first \in Nat /\ r.hits \in Hits
      /\ r.stage = StageOf(r.hits)
  BY <1>3 DEF Entries, SoundEntry
<1>5. stage = StageOf(hits) /\ hits \in Hits
  <2>1. r.hits \in Hits
    BY <1>4
  <2>2. StageMoves(r.hits, target)
    BY ONLY <1>2, <2>1, StageOfHit
  <2> QED BY <1>4, <2>2 DEF StageMoves
<1>6. stage \in 1 .. 4 /\ stage >= r.stage /\ stage >= target
  BY <1>2, <1>4
<1>7. first \in Nat /\ first > 0 /\ entered \in Nat
  BY <1>4
<1>8. score \in 0 .. 100
  BY <1>6, ScoreInRange
<1>9. /\ first <= entered /\ entered <= now /\ entered - first <= 2 * KcWindow
      /\ stage = RECON => entered = first
      /\ stage = EXPLOIT => entered - first <= KcWindow
  <2>1. CASE r.stage = 0
    <3>1. r.first = 0
      BY <1>3, <1>4, <2>1 DEF SoundEntry
    <3>2. first = now /\ entered = now
      BY <1>2, <2>1, <3>1
    <3> QED BY <3>2
  <2>2. CASE r.stage > 0
    <3>1. /\ first = r.first /\ r.first <= r.entered /\ r.entered <= now
          /\ r.entered - r.first <= 2 * KcWindow
          /\ r.stage = 1 => r.entered = r.first
          /\ r.stage = 2 => r.entered - r.first <= KcWindow
          /\ now - r.entered <= KcWindow
      BY <1>3, <1>4, <2>2 DEF SoundEntry
    <3> HIDE DEF first
    <3>2. CASE target > r.stage
      <4>1. entered = now /\ r.stage \in {1, 2}
        BY <1>2, <1>4, <2>2, <3>2
      <4>2. stage = EXPLOIT => r.stage = 1
        BY <1>2, <1>4, <2>2, <3>2
      <4> QED BY <1>4, <1>6, <3>1, <3>2, <4>1, <4>2, <1>2
    <3>3. CASE ~(target > r.stage)
      <4>1. entered = r.entered
        BY <3>3
      <4>2. stage \in {1, 2} => stage = r.stage
        BY <3>3
      <4> HIDE DEF stage, entered
      <4> QED BY <1>4, <3>1, <4>1, <4>2
    <3> QED BY <3>2, <3>3
  <2> QED BY <1>4, <2>1, <2>2
<1> HIDE DEF stage, hits, first, entered, score
<1>10. /\ e \in Entries
       /\ e.stage = stage /\ e.hits = hits /\ e.first = first /\ e.entered = entered
  <2>1. stage \in Stages
    BY <1>6
  <2> QED BY <1>3, <1>5, <1>7, <1>8, <2>1 DEF Entries
<1> HIDE DEF e
<1>11. SoundEntry(e, now)
  BY <1>5, <1>6, <1>7, <1>9, <1>10 DEF SoundEntry
<1>12. e.stage < s.stage => now - s.entered > KcWindow
  <2>1. s.entered \in Nat /\ s.stage \in 0 .. 4
    BY DEF Entries
  <2> QED BY <1>3, <1>4, <1>6, <1>10, <2>1
<1> QED BY <1>1, <1>10, <1>11, <1>12

(***************************************************************************)
(* The table.                                                              *)
(***************************************************************************)
\* The blank entry of a slot that is not in use is sound.
LEMMA BlankSound ==
  ASSUME NEW t \in Nat
  PROVE  Blank \in Entries /\ SoundEntry(Blank, t)
<1>1. StageOf({}) = 0
  <2>1. {} # {RECON, EXPLOIT, EXFIL}
    OBVIOUS
  <2> QED BY <2>1, StageNumbers DEF StageOf, HighestHit
<1>2. Blank \in Entries
  BY StageNumbers DEF Blank, Entries, Hits
<1> QED BY <1>1, <1>2, StageNumbers DEF Blank, SoundEntry

\* cleanup_suspects leaves a smaller table of sound entries, the entries of the
\* addresses it keeps as they were.
LEMMA CleanupSound ==
  ASSUME IInv
  PROVE  /\ TrackedAfterCleanup \subseteq tracked /\ LastCleanupAfter \in Nat
         /\ Cardinality(TrackedAfterCleanup) \in Nat
         /\ Cardinality(TrackedAfterCleanup) <= MaxSuspects
         /\ SuspectsAfterCleanup \in [IPs -> Entries]
         /\ \A ip \in IPs : SoundEntry(SuspectsAfterCleanup[ip], now)
         /\ \A ip \in TrackedAfterCleanup : SuspectsAfterCleanup[ip] = suspects[ip]
<1>1. TypeOK /\ now > 0 /\ \A ip \in IPs : SoundEntry(suspects[ip], now)
  BY DEF IInv
<1>2. TrackedAfterCleanup \subseteq tracked /\ tracked \subseteq IPs
  BY <1>1 DEF TrackedAfterCleanup, TypeOK
<1>3. IsFiniteSet(tracked)
  BY <1>2, SizesAssumption, FS_Subset
<1>4. /\ Cardinality(TrackedAfterCleanup) <= Cardinality(tracked)
      /\ IsFiniteSet(TrackedAfterCleanup)
  BY <1>2, <1>3, FS_Subset
<1>5. Cardinality(TrackedAfterCleanup) \in Nat /\ Cardinality(tracked) \in Nat
  BY <1>3, <1>4, FS_CardinalityType
<1>6. Cardinality(TrackedAfterCleanup) <= MaxSuspects
  BY <1>1, <1>4, <1>5, SizesAssumption DEF TypeOK
<1>7. suspects \in [IPs -> Entries] /\ now \in Nat /\ lastCleanup \in Nat
  BY <1>1 DEF TypeOK, Entries, Hits
<1>8. Blank \in Entries /\ SoundEntry(Blank, now)
  BY <1>7, BlankSound
<1>9. SuspectsAfterCleanup \in [IPs -> Entries]
  BY <1>7, <1>8 DEF SuspectsAfterCleanup
<1>10. \A ip \in IPs : SoundEntry(SuspectsAfterCleanup[ip], now)
  BY <1>1, <1>8 DEF SuspectsAfterCleanup
<1>11. \A ip \in TrackedAfterCleanup : SuspectsAfterCleanup[ip] = suspects[ip]
  BY <1>2 DEF SuspectsAfterCleanup
<1>12. LastCleanupAfter \in Nat
  BY <1>7 DEF LastCleanupAfter
<1> QED BY <1>2, <1>5, <1>6, <1>9, <1>10, <1>11, <1>12

\* find_or_create_suspect and the cleanup before it keep the table sound,
\* whatever sound entry the rest of analyze_packet leaves.
LEMMA TrackSound ==
  ASSUME IInv, NEW ip \in IPs, NEW entry \in Entries, SoundEntry(entry, now), Track(ip, entry),
         event' \in [ip : IPs \cup {NoIP}, attack : AllAttacks \cup {ArpAttack, "NONE"},
                     stage : Stages, score : 0 .. 100]
  PROVE  IInv'
<1>1. /\ TrackedAfterCleanup \subseteq tracked /\ LastCleanupAfter \in Nat
      /\ Cardinality(TrackedAfterCleanup) \in Nat
      /\ Cardinality(TrackedAfterCleanup) <= MaxSuspects
      /\ SuspectsAfterCleanup \in [IPs -> Entries]
      /\ \A i \in IPs : SoundEntry(SuspectsAfterCleanup[i], now)
  BY CleanupSound
<1>2. TypeOK /\ now > 0
  BY DEF IInv
<1>3. /\ tracked' = TrackedAfterCleanup \cup {ip}
      /\ suspects' = [SuspectsAfterCleanup EXCEPT ![ip] = entry]
      /\ lastCleanup' = LastCleanupAfter /\ now' = now /\ arp' = arp
      /\ ip \notin HomeNet
      /\ ip \in TrackedAfterCleanup \/ Cardinality(TrackedAfterCleanup) < MaxSuspects
  BY DEF Track, Found
<1>4. tracked' \subseteq IPs \ HomeNet
  BY <1>1, <1>2, <1>3 DEF TypeOK
<1>5. Cardinality(tracked') <= MaxSuspects
  <2>1. IsFiniteSet(TrackedAfterCleanup)
    BY <1>1, <1>2, SizesAssumption, FS_Subset DEF TypeOK
  <2>2. Cardinality(tracked') = IF ip \in TrackedAfterCleanup THEN Cardinality(TrackedAfterCleanup)
                                ELSE Cardinality(TrackedAfterCleanup) + 1
    BY <1>3, <2>1, FS_AddElement
  <2> QED BY <1>1, <1>3, <2>2, SizesAssumption
<1>6. suspects' \in [IPs -> Entries]
  BY <1>1, <1>3
<1>7. \A i \in IPs : SoundEntry(suspects'[i], now')
  BY <1>1, <1>3
<1>8. TypeOK'
  BY <1>1, <1>2, <1>3, <1>4, <1>5, <1>6 DEF TypeOK, Entries, Hits
<1> QED BY <1>2, <1>3, <1>7, <1>8 DEF IInv

\* The same for a packet that concerns no suspect: only the cleanup happens.
LEMMA OnlyCleanupSound ==
  ASSUME IInv, now' = now, tracked' = TrackedAfterCleanup, suspects' = SuspectsAfterCleanup,
         lastCleanup' = LastCleanupAfter, arp' \in [MACs -> IPs \cup {NoIP}],
         event' \in [ip : IPs \cup {NoIP}, attack : AllAttacks \cup {ArpAttack, "NONE"},
                     stage : Stages, score : 0 .. 100]
  PROVE  IInv'
<1>1. /\ TrackedAfterCleanup \subseteq tracked /\ LastCleanupAfter \in Nat
      /\ Cardinality(TrackedAfterCleanup) <= MaxSuspects
      /\ SuspectsAfterCleanup \in [IPs -> Entries]
      /\ \A i \in IPs : SoundEntry(SuspectsAfterCleanup[i], now)
  BY CleanupSound
<1>2. TypeOK /\ now > 0
  BY DEF IInv
<1>3. \A i \in IPs : SoundEntry(suspects'[i], now')
  BY <1>1
<1>4. TypeOK'
  BY <1>1, <1>2 DEF TypeOK, Entries, Hits
<1> QED BY <1>2, <1>3, <1>4 DEF IInv

\* The entry that find_or_create_suspect returns is sound.
LEMMA EntrySound ==
  ASSUME IInv, NEW ip \in IPs
  PROVE  Entry(ip) \in Entries /\ SoundEntry(Entry(ip), now)
<1>1. SuspectsAfterCleanup[ip] \in Entries /\ SoundEntry(SuspectsAfterCleanup[ip], now)
  BY CleanupSound
<1>2. now \in Nat
  BY DEF IInv, TypeOK
<1>3. Entry(ip) \in Entries
  BY <1>1, <1>2 DEF Entry, Entries
<1>4. /\ Entry(ip).stage = SuspectsAfterCleanup[ip].stage
      /\ Entry(ip).hits = SuspectsAfterCleanup[ip].hits
      /\ Entry(ip).first = SuspectsAfterCleanup[ip].first
      /\ Entry(ip).entered = SuspectsAfterCleanup[ip].entered
  BY <1>1 DEF Entry, Entries
<1> QED BY <1>1, <1>3, <1>4 DEF SoundEntry

\* publish_packet is given an address of the table, an attack and a state of the
\* correlator.
LEMMA EventInRange ==
  ASSUME NEW ip \in IPs, NEW attack \in AllAttacks \cup {"NONE"}, NEW e \in Entries
  PROVE  [ip |-> ip, attack |-> attack, stage |-> e.stage, score |-> e.score] \in
           [ip : IPs \cup {NoIP}, attack : AllAttacks \cup {ArpAttack, "NONE"},
            stage : Stages, score : 0 .. 100]
BY DEF Entries

(***************************************************************************)
(* The invariant.                                                          *)
(***************************************************************************)
\* The table is empty at the start.
LEMMA InitSound == Init => IInv
<1> SUFFICES ASSUME Init PROVE IInv
  OBVIOUS
<1>1. now \in Nat /\ now > 0 /\ lastCleanup = 0
  BY TimesAssumption DEF Init
<1>2. suspects = [ip \in IPs |-> Blank]
  BY DEF Init
<1>3. Blank \in Entries /\ SoundEntry(Blank, now)
  BY <1>1, BlankSound
<1>4. suspects \in [IPs -> Entries] /\ \A ip \in IPs : SoundEntry(suspects[ip], now)
  BY <1>2, <1>3
<1>5. tracked = {} /\ Cardinality(tracked) = 0
  BY FS_EmptySet DEF Init
<1>6. NoEvent \in [ip : IPs \cup {NoIP}, attack : AllAttacks \cup {ArpAttack, "NONE"},
                   stage : Stages, score : 0 .. 100]
  BY StageNumbers DEF NoEvent
<1>7. TypeOK
  BY <1>1, <1>4, <1>5, <1>6, SizesAssumption DEF Init, TypeOK, Entries, Hits
<1> QED BY <1>1, <1>4, <1>7 DEF IInv

\* Every path through analyze_packet keeps the table sound.
LEMMA StepSound == IInv /\ [Next]_vars => IInv'
<1> SUFFICES ASSUME IInv, [Next]_vars PROVE IInv'
  OBVIOUS
<1> DEFINE Published == [ip : IPs \cup {NoIP}, attack : AllAttacks \cup {ArpAttack, "NONE"},
                        stage : Stages, score : 0 .. 100]
<1>1. NoEvent \in Published
  BY StageNumbers DEF NoEvent
<1>2. TypeOK
  BY DEF IInv
<1>3. CASE UNCHANGED vars
  BY <1>3 DEF vars, IInv, TypeOK
<1>4. CASE Tick
  <2>1. now' = now + 1 /\ suspects' = suspects
    BY <1>4 DEF Tick
  <2>2. \A ip \in IPs : SoundEntry(suspects'[ip], now')
    <3> SUFFICES ASSUME NEW ip \in IPs PROVE SoundEntry(suspects[ip], now + 1)
      BY <2>1
    <3>1. SoundEntry(suspects[ip], now)
      BY DEF IInv
    <3>2. suspects[ip].entered \in Nat /\ now \in Nat
      BY <1>2 DEF TypeOK
    <3> QED BY <3>1, <3>2 DEF SoundEntry
  <2>3. TypeOK' /\ now' > 0
    BY <1>1, <1>2, <1>4, <2>1 DEF Tick, TypeOK
  <2> QED BY <2>2, <2>3 DEF IInv
<1>5. CASE AnalyzeIgnored
  BY <1>1, <1>2, <1>5, OnlyCleanupSound DEF AnalyzeIgnored, TypeOK
<1>6. ASSUME NEW ip \in IPs, AnalyzeTruncated(ip) PROVE IInv'
  BY <1>1, <1>6, EntrySound, TrackSound DEF AnalyzeTruncated
<1>7. ASSUME NEW ip \in IPs, AnalyzeNormal(ip) PROVE IInv'
  <2>1. Entry(ip) \in Entries /\ SoundEntry(Entry(ip), now)
    BY EntrySound
  <2>2. event' \in Published
    BY <1>7, <2>1, EventInRange DEF AnalyzeNormal
  <2> QED BY <1>7, <2>1, <2>2, TrackSound DEF AnalyzeNormal
<1>8. ASSUME NEW ip \in IPs, NEW attack \in Attacks, AnalyzeAttack(ip, attack) PROVE IInv'
  <2> DEFINE e == advance_kill_chain(Entry(ip), attack)
  <2>1. Entry(ip) \in Entries /\ SoundEntry(Entry(ip), now)
    BY EntrySound
  <2>2. now \in Nat /\ now > 0
    BY <1>2 DEF IInv, TypeOK
  <2>3. e \in Entries /\ SoundEntry(e, now)
    BY <2>1, <2>2, AdvanceSound
  <2>4. /\ Track(ip, e)
        /\ event' = [ip |-> ip, attack |-> attack, stage |-> e.stage, score |-> e.score]
    BY <1>8 DEF AnalyzeAttack
  <2> HIDE DEF e
  <2>5. event' \in Published
    <3>1. attack \in AllAttacks \cup {"NONE"}
      BY SetsAssumption
    <3> QED BY <2>3, <2>4, <3>1, EventInRange
  <2> QED BY <2>3, <2>4, <2>5, TrackSound
<1>9. ASSUME NEW mac \in MACs, NEW ip \in IPs, AnalyzeArp(mac, ip) PROVE IInv'
  <2>1. arp' \in [MACs -> IPs \cup {NoIP}]
    BY <1>2, <1>9 DEF AnalyzeArp, TypeOK
  <2>2. event' \in Published
    <3>1. [ip |-> ip, attack |-> ArpAttack, stage |-> RECON, score |-> 20] \in Published
      BY StageNumbers
    <3> HIDE DEF Published
    <3> QED BY <1>1, <1>9, <3>1 DEF AnalyzeArp
  <2> QED BY <1>9, <2>1, <2>2, OnlyCleanupSound DEF AnalyzeArp
<1> QED BY <1>3, <1>4, <1>5, <1>6, <1>7, <1>8, <1>9 DEF Next

\* The inductive invariant holds for every set of addresses, table size and choice
\* of limits.
THEOREM TableSound == Spec => []IInv
<1>1. Init => IInv
  BY InitSound
<1>2. IInv /\ [Next]_vars => IInv'
  BY StepSound
<1> QED BY <1>1, <1>2, PTL DEF Spec

\* The tables never exceed their sizes and the score stays within 0 to 100.
THEOREM TypeCorrect == Spec => []TypeOK
<1>1. IInv => TypeOK
  BY DEF IInv
<1> QED BY <1>1, TableSound, PTL

\* The stage of a suspect tells which kinds of attack its incident has seen.
THEOREM StageCorrect == Spec => []StageTellsHits
<1>1. IInv => StageTellsHits
  BY DEF IInv, SoundEntry, StageOf, StageTellsHits
<1> QED BY <1>1, TableSound, PTL

\* An incident has a beginning exactly while it has a stage, and stretches over two
\* correlation windows at most.
THEOREM IncidentBounded == Spec => []IncidentSpan
<1>1. IInv => IncidentSpan
  BY DEF IInv, SoundEntry, IncidentSpan
<1> QED BY <1>1, TableSound, PTL

(***************************************************************************)
(* What a step may not do.                                                 *)
(***************************************************************************)
\* A step leaves a suspect that the cleanup keeps either in its stage
\* or with what advance_kill_chain makes of its own entry.
LEMMA KeptEntry ==
  ASSUME IInv, Next, NEW ip \in TrackedAfterCleanup
  PROVE  \/ suspects'[ip].stage = suspects[ip].stage
         \/ \E attack \in Attacks : suspects'[ip] = advance_kill_chain(Entry(ip), attack)
<1>1. /\ TrackedAfterCleanup \subseteq tracked /\ SuspectsAfterCleanup \in [IPs -> Entries]
      /\ SuspectsAfterCleanup[ip] = suspects[ip]
  BY CleanupSound
<1>2. ip \in IPs
  BY <1>1 DEF IInv, TypeOK
<1>3. Entry(ip).stage = suspects[ip].stage
  BY <1>1, <1>2 DEF Entry, Entries
<1>4. CASE Tick
  BY <1>4 DEF Tick
<1>5. CASE AnalyzeIgnored
  BY <1>1, <1>5 DEF AnalyzeIgnored
<1>6. ASSUME NEW i \in IPs, AnalyzeTruncated(i) \/ AnalyzeNormal(i)
      PROVE  suspects'[ip].stage = suspects[ip].stage
  <2>1. suspects' = [SuspectsAfterCleanup EXCEPT ![i] = Entry(i)]
    BY <1>6 DEF AnalyzeTruncated, AnalyzeNormal, Track
  <2> QED BY <1>1, <1>2, <1>3, <2>1
<1>7. ASSUME NEW i \in IPs, NEW attack \in Attacks, AnalyzeAttack(i, attack)
      PROVE  \/ suspects'[ip].stage = suspects[ip].stage
             \/ suspects'[ip] = advance_kill_chain(Entry(ip), attack)
  <2>1. suspects' = [SuspectsAfterCleanup EXCEPT ![i] = advance_kill_chain(Entry(i), attack)]
    BY <1>7 DEF AnalyzeAttack, Track
  <2> QED BY <1>1, <1>2, <2>1
<1>8. ASSUME NEW mac \in MACs, NEW i \in IPs, AnalyzeArp(mac, i)
      PROVE  suspects'[ip].stage = suspects[ip].stage
  BY <1>1, <1>8 DEF AnalyzeArp
<1> QED BY <1>4, <1>5, <1>6, <1>7, <1>8 DEF Next

\* A suspect falls to a lower stage only when its correlation window has expired.
THEOREM StageAdvances == Spec => StageOnlyAdvances
<1> DEFINE Kept == \A ip \in TrackedAfterCleanup :
             suspects'[ip].stage < suspects[ip].stage => now - suspects[ip].entered > KcWindow
<1>1. IInv /\ [Next]_vars => [Kept]_vars
  <2> SUFFICES ASSUME IInv, Next, NEW ip \in TrackedAfterCleanup,
                      suspects'[ip].stage < suspects[ip].stage
               PROVE  now - suspects[ip].entered > KcWindow
    OBVIOUS
  <2>1. /\ ip \in IPs /\ SuspectsAfterCleanup[ip] = suspects[ip]
        /\ suspects[ip] \in Entries /\ now \in Nat /\ now > 0
    BY CleanupSound DEF IInv, TypeOK, Entries, Hits
  <2>2. ~(suspects'[ip].stage = suspects[ip].stage)
    <3>1. suspects[ip].stage \in Int
      BY <2>1, StageNumbers DEF Entries
    <3> QED BY <3>1
  <2>3. PICK attack \in Attacks : suspects'[ip] = advance_kill_chain(Entry(ip), attack)
    BY <2>2, KeptEntry
  <2>4. Entry(ip) \in Entries /\ SoundEntry(Entry(ip), now)
    BY <2>1, EntrySound
  <2>5. suspects'[ip].stage < Entry(ip).stage => now - Entry(ip).entered > KcWindow
    BY <2>1, <2>3, <2>4, AdvanceSound
  <2>6. Entry(ip).stage = suspects[ip].stage /\ Entry(ip).entered = suspects[ip].entered
    BY <2>1 DEF Entry, Entries
  <2> QED BY <2>5, <2>6
<1> QED BY <1>1, TableSound, PTL DEF Spec, StageOnlyAdvances

(***************************************************************************)
(* Who holds the slots.                                                    *)
(***************************************************************************)
\* At the last cleanup no source in the table had been silent for INACTIVE_TIMEOUT.
Heard ==
  /\ lastCleanup <= now
  /\ \A ip \in tracked : lastCleanup - suspects[ip].lastSeen <= InactiveTimeout - 1

\* advance_kill_chain leaves last_seen alone.
LEMMA AdvanceKeepsSeen ==
  ASSUME NEW s \in Entries, NEW attack
  PROVE  advance_kill_chain(s, attack).lastSeen = s.lastSeen
<1>1. ResetIfExpired(s).lastSeen = s.lastSeen
  BY DEF ResetIfExpired, Entries
<1>2. \A x : \A f, h, t, e, c :
        [x EXCEPT !.first = f, !.hits = h, !.stage = t, !.entered = e, !.score = c].lastSeen
          = x.lastSeen
  OBVIOUS
<1> HIDE DEF Entries
<1> QED BY <1>1, <1>2 DEF advance_kill_chain

\* A packet finds in the table, or puts there, only what the cleanup before it kept
\* and its own source, heard now.
LEMMA PacketSlots ==
  ASSUME IInv, Next, ~Tick
  PROVE  /\ now' = now /\ lastCleanup' = LastCleanupAfter
         /\ \A ip \in tracked' :
              \/ suspects'[ip].lastSeen = now
              \/ ip \in TrackedAfterCleanup /\ suspects'[ip].lastSeen = suspects[ip].lastSeen
<1>1. /\ TrackedAfterCleanup \subseteq tracked /\ tracked \subseteq IPs
      /\ SuspectsAfterCleanup \in [IPs -> Entries]
      /\ \A ip \in TrackedAfterCleanup : SuspectsAfterCleanup[ip] = suspects[ip]
  BY CleanupSound DEF IInv, TypeOK
<1>2. ASSUME now' = now, lastCleanup' = LastCleanupAfter, tracked' = TrackedAfterCleanup,
             suspects' = SuspectsAfterCleanup
      PROVE  /\ now' = now /\ lastCleanup' = LastCleanupAfter
             /\ \A ip \in tracked' :
                  \/ suspects'[ip].lastSeen = now
                  \/ ip \in TrackedAfterCleanup /\ suspects'[ip].lastSeen = suspects[ip].lastSeen
  BY <1>1, <1>2
<1>3. ASSUME NEW i \in IPs, NEW entry, entry.lastSeen = now, Track(i, entry)
      PROVE  /\ now' = now /\ lastCleanup' = LastCleanupAfter
             /\ \A ip \in tracked' :
                  \/ suspects'[ip].lastSeen = now
                  \/ ip \in TrackedAfterCleanup /\ suspects'[ip].lastSeen = suspects[ip].lastSeen
  <2>1. /\ now' = now /\ lastCleanup' = LastCleanupAfter
        /\ tracked' = TrackedAfterCleanup \cup {i}
        /\ suspects' = [SuspectsAfterCleanup EXCEPT ![i] = entry]
    BY <1>3 DEF Track
  <2>2. suspects'[i] = entry /\ \A ip \in IPs : ip # i => suspects'[ip] = SuspectsAfterCleanup[ip]
    BY <1>1, <2>1
  <2>3. ASSUME NEW ip \in tracked'
        PROVE  \/ suspects'[ip].lastSeen = now
               \/ ip \in TrackedAfterCleanup /\ suspects'[ip].lastSeen = suspects[ip].lastSeen
    <3>1. CASE ip = i
      BY <1>3, <2>2, <3>1
    <3>2. CASE ip # i
      <4>1. ip \in TrackedAfterCleanup /\ ip \in IPs
        BY <1>1, <2>1, <2>3, <3>2
      <4> QED BY <1>1, <2>2, <3>2, <4>1
    <3> QED BY <3>1, <3>2
  <2> QED BY <2>1, <2>3
<1>4. ASSUME NEW i \in IPs  PROVE Entry(i) \in Entries /\ Entry(i).lastSeen = now
  BY <1>1, EntrySound DEF Entry, Entries
<1>5. CASE AnalyzeIgnored
  BY <1>2, <1>5 DEF AnalyzeIgnored
<1>6. ASSUME NEW i \in IPs, AnalyzeTruncated(i) \/ AnalyzeNormal(i)
      PROVE  Track(i, Entry(i))
  BY <1>6 DEF AnalyzeTruncated, AnalyzeNormal
<1>7. ASSUME NEW i \in IPs, NEW attack \in Attacks, AnalyzeAttack(i, attack)
      PROVE  LET e == advance_kill_chain(Entry(i), attack) IN Track(i, e) /\ e.lastSeen = now
  BY <1>4, <1>7, AdvanceKeepsSeen DEF AnalyzeAttack
<1>8. ASSUME NEW mac \in MACs, NEW i \in IPs, AnalyzeArp(mac, i)
      PROVE  /\ now' = now /\ lastCleanup' = LastCleanupAfter
             /\ tracked' = TrackedAfterCleanup /\ suspects' = SuspectsAfterCleanup
  BY <1>8 DEF AnalyzeArp
<1> QED BY <1>2, <1>3, <1>4, <1>5, <1>6, <1>7, <1>8 DEF Next

\* Slots are held by sources heard lately, and the cleanup is never long ago.
LEMMA PacketHeard ==
  ASSUME IInv, Heard, Next, ~Tick
  PROVE  Heard' /\ now' = now /\ now - lastCleanup' <= CleanupInterval - 1
<1> USE TimesAssumption
<1>1. /\ now \in Nat /\ lastCleanup \in Nat
      /\ \A ip \in tracked : suspects[ip].lastSeen \in Nat
  BY DEF IInv, TypeOK
<1>2. /\ now' = now /\ lastCleanup' = LastCleanupAfter
      /\ \A ip \in tracked' :
           \/ suspects'[ip].lastSeen = now
           \/ ip \in TrackedAfterCleanup /\ suspects'[ip].lastSeen = suspects[ip].lastSeen
  BY PacketSlots
<1>3. CASE CleanupDue
  <2>1. lastCleanup' = now
    BY <1>2, <1>3 DEF LastCleanupAfter
  <2>2. \A ip \in TrackedAfterCleanup : now - suspects[ip].lastSeen <= InactiveTimeout - 1
    BY <1>1, <1>3 DEF TrackedAfterCleanup, IdleSuspects
  <2>3. \A ip \in tracked' : lastCleanup' - suspects'[ip].lastSeen <= InactiveTimeout - 1
    BY <1>1, <1>2, <2>1, <2>2
  <2> QED BY <1>1, <1>2, <2>1, <2>3 DEF Heard
<1>4. CASE ~CleanupDue
  <2>1. lastCleanup' = lastCleanup /\ TrackedAfterCleanup = tracked
    BY <1>2, <1>4 DEF LastCleanupAfter, TrackedAfterCleanup
  <2>2. lastCleanup <= now /\ now - lastCleanup <= CleanupInterval - 1
    BY <1>1, <1>4 DEF CleanupDue, Heard
  <2>3. \A ip \in tracked' : lastCleanup' - suspects'[ip].lastSeen <= InactiveTimeout - 1
    BY <1>1, <1>2, <2>1, <2>2 DEF Heard
  <2> QED BY <1>2, <2>1, <2>2, <2>3 DEF Heard
<1> QED BY <1>3, <1>4

\* Every packet finds the slots held by sources that were heard in the last
\* INACTIVE_TIMEOUT + CLEANUP_INTERVAL - 2 seconds.
THEOREM SlotsFreed == Spec => SilentLoseSlots
<1> DEFINE Freed == now' = now =>
             \A ip \in tracked' :
               now - suspects'[ip].lastSeen <= (InactiveTimeout - 1) + (CleanupInterval - 1)
<1>1. Init => Heard
  <2>1. 0 <= CleanupInterval
    BY TimesAssumption
  <2> QED BY <2>1 DEF Init, Heard
<1>2. IInv /\ Heard /\ [Next]_vars => Heard'
  <2> SUFFICES ASSUME IInv, Heard, [Next]_vars PROVE Heard'
    OBVIOUS
  <2>1. CASE UNCHANGED vars
    BY <2>1 DEF vars, Heard
  <2>2. CASE Tick
    <3>1. now \in Nat /\ lastCleanup \in Nat
      BY DEF IInv, TypeOK
    <3> QED BY <2>2, <3>1 DEF Tick, Heard
  <2> QED BY <2>1, <2>2, PacketHeard
<1>3. IInv /\ Heard /\ [Next]_vars => [Freed]_vars
  <2> SUFFICES ASSUME IInv, Heard, Next, now' = now, NEW ip \in tracked'
               PROVE  now - suspects'[ip].lastSeen
                        <= (InactiveTimeout - 1) + (CleanupInterval - 1)
    OBVIOUS
  <2>1. /\ now \in Nat /\ lastCleanup' \in Nat /\ suspects'[ip].lastSeen \in Nat
    BY StepSound DEF IInv, TypeOK
  <2>2. ~Tick
    BY <2>1 DEF Tick
  <2>3. Heard' /\ now - lastCleanup' <= CleanupInterval - 1
    BY <2>2, PacketHeard
  <2>4. lastCleanup' - suspects'[ip].lastSeen <= InactiveTimeout - 1
    BY <2>3 DEF Heard
  <2>5. InactiveTimeout \in Int /\ CleanupInterval \in Int
    BY TimesAssumption
  <2>6. \A t, c, s, i, k \in Int :
          t - c <= k - 1 /\ c - s <= i - 1 => t - s <= (i - 1) + (k - 1)
    OBVIOUS
  <2>7. now \in Int /\ lastCleanup' \in Int /\ suspects'[ip].lastSeen \in Int
    BY <2>1
  <2> QED BY <2>3, <2>4, <2>5, <2>6, <2>7
<1>4. Spec => []Heard
  BY <1>1, <1>2, TableSound, PTL DEF Spec
<1>5. Spec => [][Freed]_vars
  BY <1>3, <1>4, TableSound, PTL DEF Spec
<1> QED BY <1>5 DEF SilentLoseSlots
=============================================================================

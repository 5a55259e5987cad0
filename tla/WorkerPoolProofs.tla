-------------------------- MODULE WorkerPoolProofs --------------------------
(***************************************************************************)
(* No slot of the pool is given away under a worker that still uses it,    *)
(* for every size of the pool and any number of workers.                   *)
(***************************************************************************)
EXTENDS WorkerPool, FiniteSetTheorems, WellFoundedInduction, TLAPS

\* What the books say: an active slot names a thread, and that thread has the slot.
Named ==
  \A i \in Slots : active[i] => tids[i] \in Threads

\* A thread between pool_down_cb's two critical sections works on the slot it
\* marked; main has a slot in hand while it joins.
InHand ==
  /\ spc \in {"downCall", "downWait"} => stid \in Threads
  /\ mpc \in {"joinCall", "joinWait"} => mi \in Slots /\ mtid \in Threads

\* The slot that the scaler is emptying is not given away meanwhile: it stays
\* active, so pool_spawn_one_locked passes it by, and on the books of the thread
\* that the scaler joins.
Reserved ==
  PoolOpen /\ spc \in {"downCall", "downWait"} => active[sidx] /\ tids[sidx] = stid

IInv == TypeOK /\ Named /\ InHand /\ Reserved /\ Housed /\ Counted

(***************************************************************************)
(* First free and last active slot.                                        *)
(***************************************************************************)
\* A set of natural numbers has a least element,
LEMMA LeastElement ==
  ASSUME NEW S, S \subseteq Nat, S # {}
  PROVE  \E x \in S : \A y \in S : x <= y
<1> DEFINE R == OpToRel(<, Nat)
<1>1. \E x \in S : \A y \in S : ~(<<y, x>> \in R)
  <2>1. IsWellFoundedOn(R, Nat)
    BY NatLessThanWellFounded
  <2> HIDE DEF R
  <2> QED BY <2>1, WFMin
<1>2. \A x, y \in Nat : <<y, x>> \in R <=> y < x
  BY DEF OpToRel
<1> HIDE DEF R
<1>3. PICK x \in S : \A y \in S : ~(<<y, x>> \in R)
  BY <1>1
<1>4. ASSUME NEW y \in S PROVE x <= y
  <2>1. ~(y < x)
    BY <1>2, <1>3
  <2> QED BY <2>1
<1> QED BY <1>4

\* and, if it is bounded, a greatest one.
LEMMA GreatestElement ==
  ASSUME NEW S, NEW n \in Nat, S \subseteq 0 .. n, S # {}
  PROVE  \E x \in S : \A y \in S : x >= y
<1> DEFINE T == {n - x : x \in S}
<1>1. T \subseteq Nat /\ T # {}
  <2>1. \A x \in S : n - x \in Nat
    OBVIOUS
  <2> QED BY <2>1
<1>2. PICK t \in T : \A u \in T : t <= u
  BY <1>1, LeastElement
<1>3. PICK x \in S : t = n - x
  OBVIOUS
<1>4. \A y \in S : x >= y
  <2> SUFFICES ASSUME NEW y \in S PROVE x >= y
    OBVIOUS
  <2>1. n - x <= n - y
    BY <1>2, <1>3
  <2> QED BY <2>1
<1> QED BY <1>4

\* There is room for a worker.
LEMMA SlotsNumbered ==
  /\ PoolMax \in Nat \ {0}
  /\ Slots \subseteq Nat /\ Slots \subseteq 0 .. PoolMax /\ 0 \in Slots
BY WorkersAssumption DEF PoolMax, Slots

\* pool_spawn_one_locked finds a slot that is not in use,
LEMMA FirstFree ==
  ASSUME ActiveSlots # Slots
  PROVE  /\ Min(Slots \ ActiveSlots) \in Slots
         /\ ~active[Min(Slots \ ActiveSlots)]
<1> DEFINE S == Slots \ ActiveSlots
<1>1. S \subseteq Nat /\ S # {}
  BY SlotsNumbered DEF ActiveSlots
<1> HIDE DEF S
<1>2. Min(S) \in S
  BY <1>1, LeastElement DEF Min
<1> QED BY <1>2 DEF S, ActiveSlots

\* and pool_down_cb one that is.
LEMMA LastActive ==
  ASSUME ActiveSlots # {}
  PROVE  Max(ActiveSlots) \in Slots /\ active[Max(ActiveSlots)]
<1>1. ActiveSlots \subseteq 0 .. PoolMax /\ PoolMax \in Nat
  BY SlotsNumbered DEF ActiveSlots
<1>2. Max(ActiveSlots) \in ActiveSlots
  BY <1>1, GreatestElement DEF Max
<1> QED BY <1>2 DEF ActiveSlots

\* The slots in use are counted up and down one by one.
LEMMA SlotsCounted ==
  ASSUME NEW f \in [Slots -> BOOLEAN], NEW g \in [Slots -> BOOLEAN], NEW i \in Slots,
         ~f[i], g = [f EXCEPT ![i] = TRUE]
  PROVE  /\ Cardinality({j \in Slots : f[j]}) \in Nat
         /\ Cardinality({j \in Slots : g[j]}) = Cardinality({j \in Slots : f[j]}) + 1
<1> DEFINE F == {j \in Slots : f[j]}
           G == {j \in Slots : g[j]}
<1>1. IsFiniteSet(F)
  <2>1. IsFiniteSet(0 .. PoolMax)
    BY SlotsNumbered, FS_Interval
  <2> QED BY <2>1, SlotsNumbered, FS_Subset
<1>2. G = F \cup {i} /\ i \notin F
  OBVIOUS
<1> HIDE DEF F, G
<1>3. Cardinality(G) = Cardinality(F) + 1 /\ Cardinality(F) \in Nat
  BY <1>1, <1>2, FS_AddElement, FS_CardinalityType
<1> QED BY <1>3 DEF F, G

\* A step that leaves the books alone leaves the count right.
LEMMA CountFrame ==
  ASSUME Counted, UNCHANGED <<active, count, poolSize>>, PoolOpen' => PoolOpen
  PROVE  Counted'
BY DEF Counted, ActiveSlots

(***************************************************************************)
(* Init.                                                                   *)
(***************************************************************************)
\* At the start there is no worker and nothing is on the books.
LEMMA InitSound == Init => IInv
<1> SUFFICES ASSUME Init PROVE IInv
  OBVIOUS
<1> USE DEF Init
<1>1. TypeOK
  <2>1. 0 \in Slots /\ 0 \in 0 .. MaxSpawns /\ 0 \in 0 .. PoolMax /\ 0 \in Int /\ 0 \in Nat
    BY WorkersAssumption, SlotsNumbered
  <2> QED BY <2>1 DEF TypeOK
<1>2. Named /\ InHand /\ Reserved
  BY DEF Named, InHand, Reserved
<1>3. Housed
  BY DEF Housed, Live
<1>4. Counted
  <2>1. ActiveSlots = {}
    BY DEF ActiveSlots
  <2> QED BY <2>1, FS_EmptySet DEF Counted
<1> QED BY <1>1, <1>2, <1>3, <1>4 DEF IInv

(***************************************************************************)
(* pool_spawn_one_locked                                                   *)
(***************************************************************************)
\* What Spawn does, with the slot and the thread it takes.
LEMMA SpawnTakes ==
  ASSUME TypeOK, Spawn
  PROVE  \E idx \in Slots, t \in Threads :
           /\ ~active[idx] /\ spawned' = t /\ t \in 0 .. MaxSpawns
           /\ wslot' = [wslot EXCEPT ![t] = idx] /\ wstate' = [wstate EXCEPT ![t] = "starting"]
           /\ wstop' = [wstop EXCEPT ![idx] = FALSE] /\ tids' = [tids EXCEPT ![idx] = t]
           /\ active' = [active EXCEPT ![idx] = TRUE]
           /\ count' = count + 1 /\ poolSize' = count + 1
<1> DEFINE idx == Min(Slots \ ActiveSlots)
<1>1. idx \in Slots /\ ~active[idx]
  BY FirstFree DEF Spawn
<1>2. spawned + 1 \in Threads /\ spawned + 1 \in 0 .. MaxSpawns
  BY WorkersAssumption DEF TypeOK, Spawn, Threads
<1>3. /\ spawned' = spawned + 1
      /\ wslot' = [wslot EXCEPT ![spawned + 1] = idx]
      /\ wstate' = [wstate EXCEPT ![spawned + 1] = "starting"]
      /\ wstop' = [wstop EXCEPT ![idx] = FALSE] /\ tids' = [tids EXCEPT ![idx] = spawned + 1]
      /\ active' = [active EXCEPT ![idx] = TRUE]
      /\ count' = count + 1 /\ poolSize' = count + 1
  BY DEF Spawn
<1> HIDE DEF idx
<1> QED BY <1>1, <1>2, <1>3

\* A new worker keeps the types and the books.
LEMMA SpawnSound ==
  ASSUME TypeOK, Named, Reserved, Housed, Counted, Spawn,
         PoolOpen' => PoolOpen, joins' = joins
  PROVE  /\ active' \in [Slots -> BOOLEAN] /\ wstop' \in [Slots -> BOOLEAN]
         /\ tids' \in [Slots -> 0 .. MaxSpawns] /\ count' \in Int /\ poolSize' \in Int
         /\ spawned' \in 0 .. MaxSpawns /\ wslot' \in [Threads -> Slots]
         /\ wstate' \in [Threads -> {"none", "starting", "running", "ended"}]
         /\ Named' /\ Housed' /\ Counted'
         /\ \A i \in Slots : active[i] => active'[i] /\ tids'[i] = tids[i]
<1>1. PICK idx \in Slots, t \in Threads :
           /\ ~active[idx] /\ spawned' = t /\ t \in 0 .. MaxSpawns
           /\ wslot' = [wslot EXCEPT ![t] = idx] /\ wstate' = [wstate EXCEPT ![t] = "starting"]
           /\ wstop' = [wstop EXCEPT ![idx] = FALSE] /\ tids' = [tids EXCEPT ![idx] = t]
           /\ active' = [active EXCEPT ![idx] = TRUE]
           /\ count' = count + 1 /\ poolSize' = count + 1
  BY SpawnTakes
<1>2. /\ active \in [Slots -> BOOLEAN] /\ tids \in [Slots -> 0 .. MaxSpawns]
      /\ wstop \in [Slots -> BOOLEAN] /\ wslot \in [Threads -> Slots] /\ count \in Int
      /\ wstate \in [Threads -> {"none", "starting", "running", "ended"}]
  BY DEF TypeOK
<1>3. /\ active' \in [Slots -> BOOLEAN] /\ wstop' \in [Slots -> BOOLEAN]
      /\ tids' \in [Slots -> 0 .. MaxSpawns]
  BY <1>1, <1>2
<1>4. /\ wslot' \in [Threads -> Slots]
      /\ wstate' \in [Threads -> {"none", "starting", "running", "ended"}]
  BY <1>1, <1>2
<1>5. count' \in Int /\ poolSize' \in Int /\ spawned' \in 0 .. MaxSpawns
  BY <1>1, <1>2
<1>6. \A i \in Slots : active[i] => active'[i] /\ tids'[i] = tids[i]
  BY <1>1, <1>2
<1>7. Named'
  BY <1>1, <1>2 DEF Named
<1>8. Housed'
  <2> SUFFICES ASSUME PoolOpen', \A u \in Threads : joins'[u] <= 1,
                      NEW u \in Threads, Live(u)'
               PROVE  active'[wslot'[u]] /\ tids'[wslot'[u]] = u
    BY DEF Housed
  <2>1. CASE u = t
    BY <1>1, <1>2, <2>1
  <2>2. CASE u # t
    <3>1. Live(u) /\ wslot'[u] = wslot[u] /\ wslot[u] \in Slots
      BY <1>1, <1>2, <2>2 DEF Live
    <3>2. active[wslot[u]] /\ tids[wslot[u]] = u
      BY <3>1 DEF Housed
    <3> QED BY <1>6, <3>1, <3>2
  <2> QED BY <2>1, <2>2
<1>9. Counted'
  <2>1. /\ active \in [Slots -> BOOLEAN] /\ active' \in [Slots -> BOOLEAN] /\ idx \in Slots
        /\ ~active[idx] /\ active' = [active EXCEPT ![idx] = TRUE]
    BY <1>1, <1>2, <1>3
  <2>2. Cardinality({j \in Slots : active'[j]}) = Cardinality({j \in Slots : active[j]}) + 1
    BY <2>1, SlotsCounted
  <2>3. Cardinality(ActiveSlots') = Cardinality(ActiveSlots) + 1
    BY <2>2 DEF ActiveSlots
  <2> QED BY <1>1, <2>3 DEF Counted
<1> QED BY <1>3, <1>4, <1>5, <1>6, <1>7, <1>8, <1>9

(***************************************************************************)
(* The steps.                                                              *)
(***************************************************************************)
\* A pthread_join more never makes a thread joined less.
LEMMA CallCounted ==
  ASSUME NEW f \in [Threads -> Nat], NEW t \in Threads
  PROVE  LET g == [f EXCEPT ![t] = @ + 1]
         IN  g \in [Threads -> Nat] /\ \A u \in Threads : g[u] <= 1 => f[u] <= 1
OBVIOUS

\* Every step of main keeps the invariant.
LEMMA MainStep ==
  ASSUME IInv, Main
  PROVE  IInv'
<1> USE DEF IInv
<1>1. CASE MainSpawn
  <2>1. /\ UNCHANGED <<stop, joins, mpc, mi, mtid, spc, sidx, stid, idle>> /\ Spawn
    BY <1>1 DEF MainSpawn, main, scaler
  <2>2. PoolOpen' => PoolOpen
    BY <2>1 DEF PoolOpen
  <2>3. /\ active' \in [Slots -> BOOLEAN] /\ wstop' \in [Slots -> BOOLEAN]
        /\ tids' \in [Slots -> 0 .. MaxSpawns] /\ count' \in Int /\ poolSize' \in Int
        /\ spawned' \in 0 .. MaxSpawns /\ wslot' \in [Threads -> Slots]
        /\ wstate' \in [Threads -> {"none", "starting", "running", "ended"}]
        /\ Named' /\ Housed' /\ Counted'
        /\ \A i \in Slots : active[i] => active'[i] /\ tids'[i] = tids[i]
    BY <2>1, <2>2, SpawnSound
  <2>4. TypeOK'
    BY <2>1, <2>3 DEF TypeOK
  <2>5. InHand' /\ Reserved'
    BY <2>1, <2>2, <2>3 DEF InHand, Reserved, TypeOK
  <2> QED BY <2>3, <2>4, <2>5
<1>2. CASE MainSpawnFails \/ MainStarted \/ MainJoinRead \/ MainJoinReturn \/ MainJoinFixed \/ MainExit
  <2> USE DEF MainSpawnFails, MainStarted, MainJoinRead, MainJoinReturn, MainJoinFixed, MainExit,
              pool, worker, scaler
  <2>0. \A i \in Slots : i + 1 \in 0 .. PoolMax
    BY SlotsNumbered DEF Slots
  <2>5. mi' \in 0 .. PoolMax /\ mtid' \in 0 .. MaxSpawns
    BY <1>2, <2>0 DEF TypeOK, InHand
  <2>1. TypeOK'
    BY <1>2, <2>5 DEF TypeOK
  <2>2. Named' /\ InHand'
    BY <1>2 DEF Named, InHand
  <2>3. Reserved'
    BY <1>2 DEF Reserved, PoolOpen
  <2>4. Housed'
    BY <1>2 DEF Housed, PoolOpen, Live
  <2>6. Counted'
    BY <1>2, CountFrame DEF PoolOpen
  <2> QED BY <2>1, <2>2, <2>3, <2>4, <2>6
<1>3. CASE MainJoinCall
  <2> USE DEF MainJoinCall, pool, worker, scaler
  <2>3. joins' \in [Threads -> Nat] /\ \A t \in Threads : joins'[t] <= 1 => joins[t] <= 1
    BY <1>3, CallCounted DEF TypeOK, InHand
  <2>1. TypeOK'
    BY <1>3, <2>3 DEF TypeOK
  <2>2. Named' /\ InHand' /\ Reserved'
    BY <1>3 DEF Named, InHand, Reserved, PoolOpen
  <2>4. Housed'
    BY <1>3, <2>3 DEF Housed, PoolOpen, Live
  <2>5. Counted'
    BY <1>3, CountFrame DEF PoolOpen
  <2> QED BY <2>1, <2>2, <2>4, <2>5
<1>4. CASE MainClear
  <2> USE DEF MainClear, worker, scaler
  <2>1. TypeOK'
    BY <1>4 DEF TypeOK
  <2>2. Named' /\ InHand' /\ Reserved' /\ Housed' /\ Counted'
    BY <1>4 DEF Named, InHand, Reserved, Housed, Counted, PoolOpen
  <2> QED BY <2>1, <2>2
<1> QED BY <1>1, <1>2, <1>3, <1>4 DEF Main

\* So does every step of a worker: it takes no slot and ends for good.
LEMMA WorkerStep ==
  ASSUME IInv, NEW t \in Threads, Worker(t)
  PROVE  IInv'
<1> USE DEF IInv, Worker, WorkerOpen, WorkerStop, pool, main, scaler
<1>1. TypeOK'
  BY DEF TypeOK
<1>2. Named' /\ InHand' /\ Reserved'
  BY DEF Named, InHand, Reserved, PoolOpen
<1>3. \A u \in Threads : Live(u)' => Live(u)
  BY DEF TypeOK, Live
<1>4. Housed'
  BY <1>3 DEF Housed, PoolOpen
<1>5. Counted'
  BY CountFrame DEF PoolOpen
<1> QED BY <1>1, <1>2, <1>4, <1>5

\* And of the scaler: it frees a slot only when the thread on its books has ended.
LEMMA ScalerStep ==
  ASSUME IInv, ScalerQuery \/ Scaler
  PROVE  IInv'
<1> USE DEF IInv
<1>1. CASE ScalerUp
  <2>1. UNCHANGED <<stop, joins, mpc, mi, mtid, sidx, stid, idle>> /\ spc' = "poll"
    BY <1>1 DEF ScalerUp, main
  <2>2. PoolOpen' => PoolOpen
    BY <2>1 DEF PoolOpen
  <2>3. InHand' /\ Reserved'
    BY <2>1 DEF InHand, Reserved
  <2>4. CASE Spawn
    <3>1. /\ active' \in [Slots -> BOOLEAN] /\ wstop' \in [Slots -> BOOLEAN]
          /\ tids' \in [Slots -> 0 .. MaxSpawns] /\ count' \in Int /\ poolSize' \in Int
          /\ spawned' \in 0 .. MaxSpawns /\ wslot' \in [Threads -> Slots]
          /\ wstate' \in [Threads -> {"none", "starting", "running", "ended"}]
          /\ Named' /\ Housed' /\ Counted'
      BY <2>1, <2>2, <2>4, SpawnSound
    <3>2. TypeOK'
      BY <2>1, <3>1 DEF TypeOK
    <3> QED BY <2>3, <3>1, <3>2
  <2>5. CASE UNCHANGED <<pool, worker>>
    <3>1. TypeOK'
      BY <2>1, <2>5 DEF TypeOK, pool, worker
    <3>2. Named'
      BY <2>5 DEF Named, pool
    <3>3. Housed'
      BY <2>1, <2>2, <2>5 DEF Housed, Live, pool, worker
    <3>4. Counted'
      BY <2>2, <2>5, CountFrame DEF pool
    <3> QED BY <2>3, <3>1, <3>2, <3>3, <3>4
  <2> QED BY <1>1, <2>4, <2>5 DEF ScalerUp
<1>2. CASE ScalerDownMark
  <2> DEFINE idx == Max(ActiveSlots)
  <2>1. idx \in Slots /\ active[idx]
    BY <1>2, LastActive DEF ScalerDownMark
  <2>2. /\ wstop' = [wstop EXCEPT ![idx] = TRUE] /\ sidx' = idx /\ stid' = tids[idx]
        /\ spc' = "downCall"
        /\ UNCHANGED <<stop, active, tids, count, poolSize, spawned, wslot, wstate, joins,
                       mpc, mi, mtid, idle>>
    BY <1>2 DEF ScalerDownMark, worker, main
  <2> HIDE DEF idx
  <2>3. TypeOK'
    BY <2>1, <2>2 DEF TypeOK
  <2>4. Named' /\ InHand' /\ Reserved'
    BY <2>1, <2>2 DEF Named, InHand, Reserved
  <2>5. Housed'
    BY <2>2 DEF Housed, PoolOpen, Live
  <2>6. Counted'
    BY <2>2, CountFrame DEF PoolOpen
  <2> QED BY <2>3, <2>4, <2>5, <2>6
<1>3. CASE ScalerDownCall
  <2> USE DEF ScalerDownCall, pool, worker, main
  <2>3. joins' \in [Threads -> Nat] /\ \A t \in Threads : joins'[t] <= 1 => joins[t] <= 1
    BY <1>3, CallCounted DEF TypeOK, InHand
  <2>1. TypeOK'
    BY <1>3, <2>3 DEF TypeOK
  <2>2. Named' /\ InHand' /\ Reserved'
    BY <1>3 DEF Named, InHand, Reserved, PoolOpen
  <2>4. Housed'
    BY <1>3, <2>3 DEF Housed, PoolOpen, Live
  <2>5. Counted'
    BY <1>3, CountFrame DEF PoolOpen
  <2> QED BY <2>1, <2>2, <2>4, <2>5
<1>4. CASE ScalerDownReturn
  <2> USE DEF ScalerDownReturn, worker, main
  <2>1. TypeOK'
    BY <1>4 DEF TypeOK
  <2>2. Named' /\ InHand' /\ Reserved'
    BY <1>4 DEF Named, InHand, Reserved, TypeOK
  <2>3. Housed'
    <3> SUFFICES ASSUME PoolOpen', \A u \in Threads : joins'[u] <= 1,
                        NEW u \in Threads, Live(u)'
                 PROVE  active'[wslot'[u]] /\ tids'[wslot'[u]] = u
      BY DEF Housed
    <3>1. PoolOpen /\ Live(u) /\ \A v \in Threads : joins[v] <= 1
      BY <1>4 DEF PoolOpen, Live
    <3>2. active[wslot[u]] /\ tids[wslot[u]] = u /\ wslot[u] \in Slots
      BY <3>1 DEF Housed, TypeOK
    <3>3. wstate[stid] = "ended" /\ tids[sidx] = stid
      BY <1>4, <3>1 DEF JoinReturns, InHand, Reserved, TypeOK
    <3>4. wslot[u] # sidx
      BY <3>1, <3>2, <3>3 DEF Live
    <3> QED BY <1>4, <3>2, <3>4 DEF TypeOK
  <2>4. Counted'
    <3> SUFFICES ASSUME PoolOpen'
                 PROVE  count' = Cardinality(ActiveSlots') /\ poolSize' = count'
      BY DEF Counted
    <3>1. PoolOpen /\ active[sidx] /\ sidx \in Slots /\ active \in [Slots -> BOOLEAN]
      BY <1>4 DEF PoolOpen, Reserved, TypeOK
    <3>2. /\ active' \in [Slots -> BOOLEAN] /\ ~active'[sidx]
          /\ active = [active' EXCEPT ![sidx] = TRUE]
      BY <1>4, <3>1
    <3>3. /\ Cardinality(ActiveSlots') \in Nat
          /\ Cardinality(ActiveSlots) = Cardinality(ActiveSlots') + 1
      BY <3>1, <3>2, SlotsCounted DEF ActiveSlots
    <3> QED BY <1>4, <3>1, <3>3 DEF Counted
  <2> QED BY <2>1, <2>2, <2>3, <2>4
<1>5. CASE ScalerDownNone \/ ScalerEnd \/ ScalerQuery \/ ScalerPolls
  <2> USE DEF ScalerDownNone, ScalerEnd, ScalerQuery, ScalerPolls, ScalerQueryFails, ScalerPollUp,
              ScalerPollIdle, ScalerPollDown, ScalerPollBusy, pool, worker, main
  <2>1. TypeOK'
    BY <1>5 DEF TypeOK
  <2>2. Named' /\ InHand' /\ Reserved'
    BY <1>5 DEF Named, InHand, Reserved, PoolOpen
  <2>3. Housed'
    BY <1>5 DEF Housed, PoolOpen, Live
  <2>4. Counted'
    BY <1>5, CountFrame DEF PoolOpen
  <2> QED BY <2>1, <2>2, <2>3, <2>4
<1> QED BY <1>1, <1>2, <1>3, <1>4, <1>5 DEF Scaler, ScalerActs

(***************************************************************************)
(* The theorems.                                                           *)
(***************************************************************************)
\* The parts of IInv hold together from the start on.
THEOREM PoolInvariant == Spec => []IInv
<1>1. Init => IInv
  BY InitSound
<1>2. IInv /\ [Next]_vars => IInv'
  <2> SUFFICES ASSUME IInv, [Next]_vars PROVE IInv'
    OBVIOUS
  <2>1. CASE Signal
    <3>1. UNCHANGED <<pool, worker, joins, main, scaler>> /\ stop' = TRUE
      BY <2>1 DEF Signal
    <3>2. TypeOK'
      BY <3>1 DEF IInv, TypeOK, pool, worker, main, scaler
    <3>3. Named' /\ InHand' /\ Reserved'
      BY <3>1 DEF IInv, Named, InHand, Reserved, PoolOpen, pool, main, scaler
    <3>4. Housed'
      BY <3>1 DEF IInv, Housed, PoolOpen, Live, pool, worker, main
    <3>5. Counted'
      BY <3>1, CountFrame DEF IInv, PoolOpen, pool, main
    <3> QED BY <3>2, <3>3, <3>4, <3>5 DEF IInv
  <2>2. CASE Exited \/ UNCHANGED vars
    <3>1. UNCHANGED vars
      BY <2>2 DEF Exited
    <3> USE DEF vars, pool, worker, main, scaler
    <3>2. TypeOK'
      BY <3>1 DEF IInv, TypeOK
    <3>3. Named' /\ InHand' /\ Reserved'
      BY <3>1 DEF IInv, Named, InHand, Reserved, PoolOpen
    <3>4. Housed'
      BY <3>1 DEF IInv, Housed, PoolOpen, Live
    <3>5. Counted'
      BY <3>1, CountFrame DEF IInv, PoolOpen
    <3> QED BY <3>2, <3>3, <3>4, <3>5 DEF IInv
  <2> QED BY <2>1, <2>2, MainStep, WorkerStep, ScalerStep DEF Next
<1> QED BY <1>1, <1>2, PTL DEF Spec

\* Values every variable keeps to.
THEOREM TypeCorrect == Spec => []TypeOK
<1>1. IInv => TypeOK
  BY DEF IInv
<1> QED BY <1>1, PoolInvariant, PTL

\* As long as no worker is joined twice, a running worker has its slot and is on
\* the books of it: pool_down_cb never frees the slot of a worker that runs.
THEOREM NoWorkerForgotten == Spec => []WorkersOnTheBooks
<1>1. IInv => WorkersOnTheBooks
  BY DEF IInv, WorkersOnTheBooks
<1> QED BY <1>1, PoolInvariant, PTL
=============================================================================

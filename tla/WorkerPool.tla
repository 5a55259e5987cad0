----------------------------- MODULE WorkerPool -----------------------------
(***************************************************************************)
(* The pool of traffic workers of nta-server: nta_server.c (the pool and   *)
(* main's wait for it) and nta_scaler.c (the thread that grows and shrinks *)
(* it).  A critical section of pool.mu is one step; a pthread_join is two, *)
(* the call and the return, because it runs outside the lock.              *)
(*                                                                         *)
(* main calls pool_join_all as soon as everything is started: it is in the *)
(* join of the first active slot for as long as the server runs.           *)
(*                                                                         *)
(* A thread joined twice is undefined behaviour: either call may then      *)
(* return at any time.                                                     *)
(***************************************************************************)
EXTENDS Integers, FiniteSets, FiniteSetsExt

CONSTANTS NumWorkers,   \* NTA_WORKERS, started by main
          MinWorkers,   \* SCALER_MIN_WORKERS
          MaxWorkers,   \* SCALER_MAX_WORKERS
          MaxSpawns     \* bound: worker threads created in a run

ASSUME WorkersAssumption ==
  /\ NumWorkers \in Nat /\ MinWorkers \in Nat \ {0} /\ MaxWorkers \in Nat
  /\ MinWorkers < MaxWorkers          \* otherwise there is no scaler
  /\ MaxSpawns \in Nat /\ NumWorkers <= MaxSpawns

PoolMax == IF MaxWorkers < NumWorkers THEN NumWorkers ELSE MaxWorkers
Slots == 0 .. PoolMax - 1
Threads == 1 .. MaxSpawns

VARIABLES
  stop,                        \* g_nta_stop
  active, wstop, tids, count,  \* TrafficPool: per slot in use, Worker.stop, thread; slots in use
  poolSize,                    \* g_nta_pool_size, which /metrics reports
  spawned, wslot, wstate,      \* worker threads: how many, the slot of each, where it is
  joins,                       \* pthread_join calls made for each
  mpc, mi, mtid,               \* main: where it is, its slot index, the thread it joins
  spc, sidx, stid, idle        \* scaler: where it is, its slot and thread, idle_since # 0

pool   == <<active, wstop, tids, count, poolSize>>
worker == <<spawned, wslot, wstate>>
main   == <<mpc, mi, mtid>>
scaler == <<spc, sidx, stid, idle>>
vars   == <<stop, pool, worker, joins, main, scaler>>

ActiveSlots == {i \in Slots : active[i]}
Live(t) == wstate[t] \in {"starting", "running"}

(***************************************************************************)
(* Bugs that mutation runs plant in the definitions below.                 *)
(***************************************************************************)
MutScalerDownMarkFrees ==
  LET idx == Max(ActiveSlots)
  IN  /\ spc = "down" /\ ActiveSlots # {}
      /\ wstop' = [wstop EXCEPT ![idx] = TRUE]
      /\ active' = [active EXCEPT ![idx] = FALSE]
      /\ sidx' = idx /\ stid' = tids[idx]
      /\ spc' = "downCall"
      /\ UNCHANGED <<stop, tids, count, poolSize, worker, joins, main, idle>>

MutWorkerStopLocalOnly(t) ==
  /\ wstate[t] = "running"
  /\ wstop[wslot[t]]
  /\ wstate' = [wstate EXCEPT ![t] = "ended"]
  /\ UNCHANGED <<stop, pool, spawned, wslot, joins, main, scaler>>

MutMainJoinReadOneMore ==
  /\ mpc = "join" /\ mi <= PoolMax
  /\ IF mi \in Slots /\ active[mi] THEN mtid' = tids[mi] /\ mpc' = "joinCall" /\ UNCHANGED mi
                                    ELSE mi' = mi + 1 /\ UNCHANGED <<mpc, mtid>>
  /\ UNCHANGED <<stop, pool, worker, joins, scaler>>

(***************************************************************************)
(* The pool.                                                               *)
(***************************************************************************)
Init ==
  /\ stop = FALSE
  /\ active = [i \in Slots |-> FALSE] /\ wstop = [i \in Slots |-> FALSE]
  /\ tids = [i \in Slots |-> 0] /\ count = 0 /\ poolSize = 0
  /\ spawned = 0 /\ wslot = [t \in Threads |-> 0] /\ wstate = [t \in Threads |-> "none"]
  /\ joins = [t \in Threads |-> 0]
  /\ mpc = "spawn" /\ mi = 0 /\ mtid = 0
  /\ spc = "none" /\ sidx = 0 /\ stid = 0 /\ idle = FALSE

\* pool_spawn_one_locked: the first free slot, its Worker cleared, a new thread.
Spawn ==
  LET idx == Min(Slots \ ActiveSlots)
      t   == spawned + 1
  IN  /\ ActiveSlots # Slots /\ spawned < MaxSpawns
      /\ spawned' = t
      /\ wslot' = [wslot EXCEPT ![t] = idx] /\ wstate' = [wstate EXCEPT ![t] = "starting"]
      /\ wstop' = [wstop EXCEPT ![idx] = FALSE] /\ tids' = [tids EXCEPT ![idx] = t]
      /\ active' = [active EXCEPT ![idx] = TRUE]
      /\ count' = count + 1 /\ poolSize' = count + 1

\* The outcome of a pthread_join of t.
JoinReturns(t) == wstate[t] = "ended" \/ joins[t] > 1

(***************************************************************************)
(* main                                                                    *)
(***************************************************************************)
MainSpawn ==
  /\ mpc = "spawn" /\ count < NumWorkers
  /\ Spawn
  /\ UNCHANGED <<stop, joins, main, scaler>>

\* pthread_create fails: the server goes straight to its shutdown.
MainSpawnFails ==
  /\ mpc = "spawn" /\ count < NumWorkers
  /\ stop' = TRUE
  /\ mpc' = "join"
  /\ spc' = "poll"
  /\ UNCHANGED <<pool, worker, joins, mi, mtid, sidx, stid, idle>>

\* Metrics, narrator and health threads, the scaler, then pool_join_all.
MainStarted ==
  /\ mpc = "spawn" /\ count = NumWorkers
  /\ mpc' = "join"
  /\ spc' = "poll"
  /\ UNCHANGED <<stop, pool, worker, joins, mi, mtid, sidx, stid, idle>>

MainJoinRead ==                        \* active[i] and tids[i], under the lock
  /\ mpc = "join" /\ mi \in Slots
  /\ IF active[mi] THEN mtid' = tids[mi] /\ mpc' = "joinCall" /\ UNCHANGED mi
                   ELSE mi' = mi + 1 /\ UNCHANGED <<mpc, mtid>>
  /\ UNCHANGED <<stop, pool, worker, joins, scaler>>

MainJoinCall ==
  /\ mpc = "joinCall"
  /\ joins' = [joins EXCEPT ![mtid] = @ + 1]
  /\ mpc' = "joinWait"
  /\ UNCHANGED <<stop, pool, worker, mi, mtid, scaler>>

MainJoinReturn ==
  /\ mpc = "joinWait" /\ JoinReturns(mtid)
  /\ mi' = mi + 1
  /\ mpc' = "join"
  /\ UNCHANGED <<stop, pool, worker, joins, mtid, scaler>>

MainClear ==                           \* the end of pool_join_all
  /\ mpc = "join" /\ mi \notin Slots
  /\ active' = [i \in Slots |-> FALSE] /\ count' = 0
  /\ mpc' = "joinFixed"
  /\ UNCHANGED <<stop, wstop, tids, poolSize, worker, joins, mi, mtid, scaler>>

MainJoinFixed ==                       \* the metrics and narrator workers end on stop
  /\ mpc = "joinFixed" /\ stop
  /\ mpc' = "joinScaler"
  /\ UNCHANGED <<stop, pool, worker, joins, mi, mtid, scaler>>

MainExit ==                            \* the scaler joined, health stopped, pool_destroy
  /\ mpc = "joinScaler" /\ spc = "end"
  /\ mpc' = "exited"
  /\ UNCHANGED <<stop, pool, worker, joins, mi, mtid, scaler>>

(***************************************************************************)
(* worker_main                                                             *)
(***************************************************************************)
WorkerOpen(t) ==                       \* nta_influx_open succeeds, or the thread returns
  /\ wstate[t] = "starting"
  /\ \E s \in {"running", "ended"} : wstate' = [wstate EXCEPT ![t] = s]
  /\ UNCHANGED <<stop, pool, spawned, wslot, joins, main, scaler>>

WorkerStop(t) ==                       \* stop_requested, polled at every wait of the worker
  /\ wstate[t] = "running"
  /\ stop \/ wstop[wslot[t]]
  /\ wstate' = [wstate EXCEPT ![t] = "ended"]
  /\ UNCHANGED <<stop, pool, spawned, wslot, joins, main, scaler>>

(***************************************************************************)
(* nta_scaler_thread_main: each round asks RabbitMQ for the backlog, which *)
(* is free here, and then reads the size of the pool; the stop flag is     *)
(* looked at only before it asks.                                          *)
(***************************************************************************)
ScalerQuery ==
  /\ spc = "poll" /\ ~stop
  /\ spc' = "query"
  /\ UNCHANGED <<stop, pool, worker, joins, main, sidx, stid, idle>>

ScalerQueryFails ==                    \* the window stays as it is
  /\ spc = "query"
  /\ spc' = "poll"
  /\ UNCHANGED <<stop, pool, worker, joins, main, sidx, stid, idle>>

ScalerPollUp ==                        \* backlog over the threshold, pool below its maximum
  /\ spc = "query" /\ count < MaxWorkers
  /\ idle' = FALSE
  /\ spc' = "up"
  /\ UNCHANGED <<stop, pool, worker, joins, main, sidx, stid>>

ScalerPollIdle ==                      \* backlog zero, pool over its minimum: the window opens
  /\ spc = "query" /\ count > MinWorkers /\ ~idle
  /\ idle' = TRUE
  /\ spc' = "poll"
  /\ UNCHANGED <<stop, pool, worker, joins, main, sidx, stid>>

ScalerPollDown ==                      \* backlog zero for scale_down_idle_sec
  /\ spc = "query" /\ count > MinWorkers /\ idle
  /\ spc' = "down"
  /\ UNCHANGED <<stop, pool, worker, joins, main, sidx, stid, idle>>

ScalerPollBusy ==                      \* neither: the window closes
  /\ spc = "query"
  /\ idle' = FALSE
  /\ spc' = "poll"
  /\ UNCHANGED <<stop, pool, worker, joins, main, sidx, stid>>

ScalerUp ==                            \* pool_up_cb
  /\ spc = "up"
  /\ \/ count < PoolMax /\ Spawn
     \/ UNCHANGED <<pool, worker>>     \* no room, or pthread_create failed
  /\ spc' = "poll"
  /\ UNCHANGED <<stop, joins, main, sidx, stid, idle>>

ScalerDownMark ==                      \* pool_down_cb: the last active slot is told to stop
  LET idx == Max(ActiveSlots)
  IN  /\ spc = "down" /\ ActiveSlots # {}
      /\ wstop' = [wstop EXCEPT ![idx] = TRUE]
      /\ sidx' = idx /\ stid' = tids[idx]
      /\ spc' = "downCall"
      /\ UNCHANGED <<stop, active, tids, count, poolSize, worker, joins, main, idle>>

ScalerDownNone ==
  /\ spc = "down" /\ ActiveSlots = {}
  /\ spc' = "poll"
  /\ UNCHANGED <<stop, pool, worker, joins, main, sidx, stid, idle>>

ScalerDownCall ==
  /\ spc = "downCall"
  /\ joins' = [joins EXCEPT ![stid] = @ + 1]
  /\ spc' = "downWait"
  /\ UNCHANGED <<stop, pool, worker, main, sidx, stid, idle>>

ScalerDownReturn ==                    \* the join returns; the slot is free again
  /\ spc = "downWait" /\ JoinReturns(stid)
  /\ active' = [active EXCEPT ![sidx] = FALSE]
  /\ count' = count - 1 /\ poolSize' = count - 1
  /\ spc' = "poll"
  /\ UNCHANGED <<stop, wstop, tids, worker, joins, main, sidx, stid, idle>>

ScalerEnd ==
  /\ spc = "poll" /\ stop
  /\ spc' = "end"
  /\ UNCHANGED <<stop, pool, worker, joins, main, sidx, stid, idle>>

Signal ==                              \* SIGINT or SIGTERM, unblocked once all is started
  /\ ~stop /\ mpc # "spawn"
  /\ stop' = TRUE
  /\ UNCHANGED <<pool, worker, joins, main, scaler>>

Exited == mpc = "exited" /\ UNCHANGED vars

Main == MainSpawn \/ MainSpawnFails \/ MainStarted \/ MainJoinRead \/ MainJoinCall
        \/ MainJoinReturn \/ MainClear \/ MainJoinFixed \/ MainExit
Worker(t) == WorkerOpen(t) \/ WorkerStop(t)
ScalerPolls == ScalerQueryFails \/ ScalerPollUp \/ ScalerPollIdle \/ ScalerPollDown
               \/ ScalerPollBusy
ScalerActs == ScalerUp \/ ScalerDownMark \/ ScalerDownNone \/ ScalerDownCall
              \/ ScalerDownReturn \/ ScalerEnd
Scaler == ScalerPolls \/ ScalerActs

Next == Main \/ (\E t \in Threads : Worker(t)) \/ ScalerQuery \/ Scaler \/ Signal \/ Exited

Spec == Init /\ [][Next]_vars

\* Every thread that can take a step takes one; nothing is assumed of signals, of
\* the backlog, or of how often the scaler asks for it.  A query ends: libcurl has
\* five seconds for it.
Fairness == WF_vars(Main) /\ WF_vars(Scaler) /\ \A t \in Threads : WF_vars(Worker(t))

FairSpec == Spec /\ Fairness

(***************************************************************************)
(* Properties.                                                             *)
(***************************************************************************)
\* Values every variable keeps to.
TypeOK ==
  /\ stop \in BOOLEAN /\ idle \in BOOLEAN
  /\ active \in [Slots -> BOOLEAN] /\ wstop \in [Slots -> BOOLEAN]
  /\ tids \in [Slots -> 0 .. MaxSpawns] /\ count \in Int /\ poolSize \in Int
  /\ spawned \in 0 .. MaxSpawns /\ wslot \in [Threads -> Slots]
  /\ wstate \in [Threads -> {"none", "starting", "running", "ended"}]
  /\ joins \in [Threads -> Nat]
  /\ mpc \in {"spawn", "join", "joinCall", "joinWait", "joinFixed", "joinScaler", "exited"}
  /\ mi \in 0 .. PoolMax /\ mtid \in 0 .. MaxSpawns
  /\ spc \in {"none", "poll", "query", "up", "down", "downCall", "downWait", "end"}
  /\ sidx \in Slots /\ stid \in 0 .. MaxSpawns

\* pool_join_all has not yet declared the pool empty.
PoolOpen == mpc \in {"spawn", "join", "joinCall", "joinWait"}

\* Every running worker has a slot to itself and is on the books of that slot.
Housed ==
  PoolOpen /\ (\A t \in Threads : joins[t] <= 1) =>
    \A t \in Threads : Live(t) => active[wslot[t]] /\ tids[wslot[t]] = t

\* The number of slots in use, which the scaler decides by and /metrics reports.
Counted == PoolOpen => count = Cardinality(ActiveSlots) /\ poolSize = count

\* As long as no worker was joined by two threads, every running worker can be
\* stopped and joined: no slot is given away under a worker that still uses it.
\* And the count is right, although the scaler leaves the lock between choosing a
\* slot and counting it out.
WorkersOnTheBooks == Housed /\ Counted

\* A shutdown is always carried to its end: wherever main and the scaler are when
\* the signal comes, the server exits.
StopEndsServer == stop ~> (mpc = "exited")

(***************************************************************************)
(* What the comments say of the shutdown.                                  *)
(***************************************************************************)
\* "SIGTERM -> sinaliza todas as threads -> pthread_join em cada uma": when the
\* pool is freed every worker thread has been joined, and by one thread.
JoinedExactlyOnce == mpc = "exited" => \A t \in 1 .. spawned : joins[t] = 1
=============================================================================

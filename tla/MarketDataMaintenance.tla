------------------------ MODULE MarketDataMaintenance ------------------------
(***************************************************************************)
(* The gate between strategy work, which reads market data, and the daily  *)
(* update, which rewrites it: market_data_maintenance_service.py on the    *)
(* side of the work, MaintenanceWindow of run_daily_market_backfill.py on  *)
(* the side of the update.                                                 *)
(*                                                                         *)
(* They meet in PostgreSQL: a singleton row with a status and an owner, a  *)
(* session lock that admits one updater, and a lock that readers share     *)
(* until their transaction ends and the updater takes for itself.  The     *)
(* updater commits each statement by itself, so each is a step here.       *)
(***************************************************************************)
EXTENDS Naturals

CONSTANTS
  Jobs,          \* backtest jobs and signal scans: counted, and they read
  Experiments,   \* research experiments: counted, they only create jobs
  Managed,       \* experiments whose life another module describes
  Paper,         \* runs of paper trading: they read and nobody counts them
  Updaters,      \* maintenance processes, each with an owner token of its own
  NoUpdater,
  MaxDeaths      \* bound on the updaters killed

Work    == Jobs \cup Experiments
Readers == Jobs \cup Paper
Caches  == {"datasets", "materializations"}

ASSUME ActorsAssumption ==
  /\ NoUpdater \notin Updaters
  /\ Jobs \cap Experiments = {}
  /\ Jobs \cap Paper = {}
  /\ Managed \subseteq Experiments
ASSUME GateBoundsAssumption == MaxDeaths \in Nat

VARIABLES
  gate,         \* the row of market_data_maintenance_state
  work,         \* jobs, scans and experiments; "checked" holds the row lock
  coordinator,  \* who holds MARKET_DATA_COORDINATOR_LOCK_KEY
  exclusive,    \* who holds MARKET_DATA_ADVISORY_LOCK_KEY exclusively
  shared,       \* who holds it shared
  reader,       \* transactions that read market data
  updater,      \* program counter of each MaintenanceWindow
  writing,      \* updaters whose child script is writing source tables
  version,      \* the content of the source tables, by the window that wrote it
  whole,        \* FALSE from the first write of a window until a quality gate passes
  cache,        \* the version each derived cache was built from, 0 if none
  stray,        \* the materializations are of a paper run that had lost its lock
  deaths        \* updaters killed so far

workVars == <<work>>
lockVars == <<coordinator, exclusive, shared>>
dataVars == <<version, whole, cache, stray>>
gateVars == <<gate, work, coordinator, exclusive, shared, reader, updater,
              writing, version, whole, cache, stray, deaths>>

Open == gate.status = "ready"

\* Fault: submissions read the row without FOR UPDATE.
RowNeverLocked == TRUE

\* A submission reads the row FOR UPDATE and keeps it locked until it commits,
\* so that nobody else reads it FOR UPDATE or updates it.
RowFree == \A w \in Work : work[w] # "checked"

Active(w) == work[w] = "active"

-----------------------------------------------------------------------------
(* Submissions and work.                                                    *)

\* assert_market_data_submission_allowed, then the row lock is held.
Submit(w) ==
  /\ work[w] = "none" /\ RowFree /\ Open
  /\ work' = [work EXCEPT ![w] = "checked"]
  /\ UNCHANGED <<gate, lockVars, reader, updater, writing, dataVars, deaths>>

Commit(w) ==
  /\ work[w] = "checked"
  /\ work' = [work EXCEPT ![w] = "active"]
  /\ UNCHANGED <<gate, lockVars, reader, updater, writing, dataVars, deaths>>

\* The request turns out invalid and the transaction rolls back.
Abandon(w) ==
  /\ work[w] = "checked"
  /\ work' = [work EXCEPT ![w] = "none"]
  /\ UNCHANGED <<gate, lockVars, reader, updater, writing, dataVars, deaths>>

\* The controller of an experiment queues a job of source "research": the gate
\* is not asked.
Spawn(e, j) ==
  /\ Active(e) /\ work[j] = "none"
  /\ work' = [work EXCEPT ![j] = "active"]
  /\ UNCHANGED <<gate, lockVars, reader, updater, writing, dataVars, deaths>>

\* Work reaches a terminal status, a job also under a child that lives on after its
\* worker: the lease runs out and a sweep ends it.
EndWork(w) ==
  /\ Active(w)
  /\ work' = [work EXCEPT ![w] = "ended"]
  /\ UNCHANGED <<gate, lockVars, reader, updater, writing, dataVars, deaths>>

-----------------------------------------------------------------------------
(* Readers.                                                                 *)

Goto(r, pc) == reader' = [reader EXCEPT ![r].pc = pc]

Begin(r) ==
  /\ reader[r].pc = "idle"
  /\ r \in Jobs => Active(r)
  /\ Goto(r, "waiting")
  /\ UNCHANGED <<gate, workVars, lockVars, updater, writing, dataVars, deaths>>

\* PostgreSQL queues lock requests: a shared request waits behind an exclusive
\* one that is held or that came before it.
SharedGranted == exclusive = NoUpdater /\ \A u \in Updaters : updater[u] # "drained"

\* acquire_market_data_read_lock, first statement.
AcquireShared(r) ==
  /\ reader[r].pc = "waiting" /\ SharedGranted
  /\ shared' = shared \cup {r}
  /\ Goto(r, "locked")
  /\ UNCHANGED <<gate, workVars, coordinator, exclusive, updater, writing,
                 dataVars, deaths>>

\* Jobs and scans pass allow_draining, paper trading does not.
Admitted(r) == Open \/ (r \in Jobs /\ gate.status = "draining")

\* acquire_market_data_read_lock, second statement: the data it reads from now
\* on is that of this version as long as nobody writes.
Admit(r) ==
  /\ reader[r].pc = "locked" /\ Admitted(r)
  /\ reader' = [reader EXCEPT ![r] = [pc |-> "reading", loaded |-> version]]
  /\ UNCHANGED <<gate, workVars, lockVars, updater, writing, dataVars, deaths>>

\* Fault: a lock of the session, which a refused reader keeps.
RefuseHolding(r) ==
  /\ reader[r].pc = "locked" /\ ~Admitted(r)
  /\ Goto(r, "idle")
  /\ UNCHANGED <<gate, workVars, lockVars, updater, writing, dataVars, deaths>>

\* The transaction lock goes with the transaction.
Refuse(r) ==
  /\ reader[r].pc = "locked" /\ ~Admitted(r)
  /\ shared' = shared \ {r}
  /\ Goto(r, "idle")
  /\ UNCHANGED <<gate, workVars, coordinator, exclusive, updater, writing,
                 dataVars, deaths>>

\* A backtest that misses a prepared dataset publishes one while it reads.
PublishDataset(r) ==
  /\ r \in Jobs /\ reader[r].pc = "reading" /\ cache["datasets"] = 0
  /\ cache' = [cache EXCEPT !["datasets"] = reader[r].loaded]
  /\ UNCHANGED <<gate, workVars, lockVars, reader, updater, writing, version,
                 whole, stray, deaths>>

\* _sync_strategy_pending_orders, before the data is read: if orders are pending
\* it commits, and the lock goes with that transaction.
PaperSyncs(r) ==
  /\ r \in Paper /\ reader[r].pc = "reading"
  /\ shared' = shared \ {r}
  /\ UNCHANGED <<gate, workVars, coordinator, exclusive, reader, updater,
                 writing, dataVars, deaths>>

\* Commit or rollback. A commit makes a support/resistance materialization
\* visible if the run computed one and there is none.
EndRead(r) ==
  /\ reader[r].pc = "reading"
  /\ \/ UNCHANGED <<cache, stray>>
     \/ /\ cache["materializations"] = 0
        /\ cache' = [cache EXCEPT !["materializations"] = reader[r].loaded]
        /\ stray' = (r \notin shared)
  /\ shared' = shared \ {r}
  /\ Goto(r, "idle")
  /\ UNCHANGED <<gate, workVars, coordinator, exclusive, updater, writing,
                 version, whole, deaths>>

-----------------------------------------------------------------------------
(* The maintenance window.                                                  *)

UGoto(u, pc) == updater' = [updater EXCEPT ![u] = pc]
Owns(u, status) == gate = [status |-> status, owner |-> u]

\* pg_try_advisory_lock; a second process exits.
Start(u) ==
  /\ updater[u] = "idle"
  /\ \/ coordinator = NoUpdater /\ coordinator' = u /\ UGoto(u, "registered")
     \/ coordinator # NoUpdater /\ UGoto(u, "over") /\ UNCHANGED coordinator
  /\ UNCHANGED <<gate, workVars, exclusive, shared, reader, writing, dataVars, deaths>>

\* Whatever the row said before: the coordinator lock is all that is asked.
Drain(u) ==
  /\ updater[u] = "registered" /\ RowFree
  /\ gate' = [status |-> "draining", owner |-> u]
  /\ UGoto(u, "draining")
  /\ UNCHANGED <<workVars, lockVars, reader, writing, dataVars, deaths>>

\* Fault: the experiments are not counted.
FindNoJobs(u) ==
  /\ updater[u] = "draining" /\ \A j \in Jobs : ~Active(j)
  /\ UGoto(u, "drained")
  /\ UNCHANGED <<gate, workVars, lockVars, reader, writing, dataVars, deaths>>

\* _wait_for_strategy_work counts everything in one statement, every 2 s.
FindNoWork(u) ==
  /\ updater[u] = "draining" /\ \A w \in Work : ~Active(w)
  /\ UGoto(u, "drained")
  /\ UNCHANGED <<gate, workVars, lockVars, reader, writing, dataVars, deaths>>

\* Fault: the lock excludes updaters, not readers.
TakeExclusiveAtOnce(u) ==
  /\ updater[u] = "drained" /\ exclusive = NoUpdater
  /\ exclusive' = u
  /\ UGoto(u, "locked")
  /\ UNCHANGED <<gate, workVars, coordinator, shared, reader, writing, dataVars, deaths>>

\* pg_advisory_lock: the readers that are left, paper trading among them, end.
TakeExclusive(u) ==
  /\ updater[u] = "drained" /\ shared = {} /\ exclusive = NoUpdater
  /\ exclusive' = u
  /\ UGoto(u, "locked")
  /\ UNCHANGED <<gate, workVars, coordinator, shared, reader, writing, dataVars, deaths>>

BeginUpdate(u) ==
  /\ updater[u] = "locked" /\ RowFree
  /\ \/ /\ Owns(u, "draining")
        /\ gate' = [gate EXCEPT !.status = "updating"]
        /\ UGoto(u, "updating")
     \/ ~Owns(u, "draining") /\ UGoto(u, "failing") /\ UNCHANGED gate
  /\ UNCHANGED <<workVars, lockVars, reader, writing, dataVars, deaths>>

\* Fault: the invalidation reaches nothing.
InvalidatesNothing(u, from, what, to) ==
  /\ updater[u] = from
  /\ UGoto(u, to)
  /\ UNCHANGED <<gate, workVars, lockVars, reader, writing, dataVars, deaths>>

\* The UPDATE of support_resistance_materializations, PreparedDatasetCache.invalidate_all.
Invalidates(u, from, what, to) ==
  /\ updater[u] = from
  /\ cache' = [cache EXCEPT ![what] = 0]
  /\ stray' = (stray /\ what # "materializations")
  /\ UGoto(u, to)
  /\ UNCHANGED <<gate, workVars, lockVars, reader, writing, version, whole, deaths>>

InvalidateMaterializations(u) == Invalidates(u, "updating", "materializations", "invalidated")
InvalidateDatasets(u) == Invalidates(u, "invalidated", "datasets", "cleared")

\* A child script asks require_market_data_maintenance_owner once, then writes.
RunScript(u) ==
  /\ updater[u] \in {"cleared", "pipeline"} /\ u \notin writing
  /\ \/ /\ Owns(u, "updating")
        /\ writing' = writing \cup {u}
        /\ version' = IF updater[u] = "cleared" THEN version + 1 ELSE version
        /\ whole' = FALSE
        /\ UGoto(u, "pipeline")
     \/ ~Owns(u, "updating") /\ UGoto(u, "failing") /\ UNCHANGED <<writing, version, whole>>
  /\ UNCHANGED <<gate, workVars, lockVars, reader, cache, stray, deaths>>

ScriptEnds(u) ==
  /\ u \in writing /\ writing' = writing \ {u}
  /\ UNCHANGED <<gate, workVars, lockVars, reader, updater, dataVars, deaths>>

\* The last script is the quality gate. It does not see a script that has outlived
\* another window and still writes.
QualityPasses(u) ==
  /\ updater[u] = "pipeline" /\ u \notin writing
  /\ whole' = TRUE
  /\ UGoto(u, "passed")
  /\ UNCHANGED <<gate, workVars, lockVars, reader, writing, version, cache, stray, deaths>>

Succeed(u) ==
  /\ updater[u] = "passed" /\ RowFree
  /\ IF gate.owner = u
     THEN gate' = [status |-> "ready", owner |-> NoUpdater] /\ UGoto(u, "closing")
     ELSE UGoto(u, "failing") /\ UNCHANGED gate
  /\ UNCHANGED <<workVars, lockVars, reader, writing, dataVars, deaths>>

\* A script fails, the quality gate refuses, or somebody interrupts: the script
\* that runs is stopped and waited for.
InWindow == {"registered", "draining", "drained", "locked", "updating", "invalidated",
             "cleared", "pipeline", "passed"}
Raise(u) ==
  /\ updater[u] \in InWindow
  /\ writing' = writing \ {u}
  /\ UGoto(u, "failing")
  /\ UNCHANGED <<gate, workVars, lockVars, reader, dataVars, deaths>>

\* Fault: a failed window opens the gate again.
FailWith(u, status) ==
  /\ updater[u] = "failing" /\ RowFree
  /\ gate' = IF gate.owner = u THEN [status |-> status, owner |-> NoUpdater] ELSE gate
  /\ UGoto(u, "closing")
  /\ UNCHANGED <<workVars, lockVars, reader, writing, dataVars, deaths>>
FailOpen(u) == FailWith(u, "ready")

\* fail_if_open: UPDATE ... WHERE owner_token = mine.
Fail(u) ==
  /\ updater[u] = "failing" /\ RowFree
  /\ gate' = IF gate.owner = u THEN [status |-> "failed", owner |-> NoUpdater] ELSE gate
  /\ UGoto(u, "closing")
  /\ UNCHANGED <<workVars, lockVars, reader, writing, dataVars, deaths>>

Without(u, holder) == IF holder = u THEN NoUpdater ELSE holder

\* Closing the connection releases both session locks.
ReleaseLocks(u) ==
  /\ coordinator' = Without(u, coordinator)
  /\ exclusive' = Without(u, exclusive)
  /\ UGoto(u, "over")

Close(u) ==
  /\ updater[u] = "closing"
  /\ ReleaseLocks(u)
  /\ UNCHANGED <<gate, workVars, shared, reader, writing, dataVars, deaths>>

\* The process is killed: PostgreSQL drops its locks and the row stays. Nobody waits
\* for the script that runs, which may die as well or go on.
Die(u) ==
  /\ updater[u] \notin {"idle", "over"} /\ deaths < MaxDeaths
  /\ deaths' = deaths + 1
  /\ writing' \in {writing, writing \ {u}}
  /\ ReleaseLocks(u)
  /\ UNCHANGED <<gate, workVars, shared, reader, dataVars>>

-----------------------------------------------------------------------------
GateInit ==
  /\ gate = [status |-> "ready", owner |-> NoUpdater]
  /\ work = [w \in Work |-> "none"]
  /\ coordinator = NoUpdater /\ exclusive = NoUpdater /\ shared = {}
  /\ reader = [r \in Readers |-> [pc |-> "idle", loaded |-> 0]]
  /\ updater = [u \in Updaters |-> "idle"]
  /\ writing = {}
  /\ version = 1 /\ whole = TRUE
  /\ cache = [k \in Caches |-> 0] /\ stray = FALSE
  /\ deaths = 0

WorkStep ==
  \/ \E w \in Work \ Managed : Submit(w) \/ Commit(w) \/ Abandon(w) \/ EndWork(w)
  \/ \E e \in Experiments, j \in Jobs : Spawn(e, j)

ReaderStep(r) == AcquireShared(r) \/ Admit(r) \/ Refuse(r) \/ EndRead(r)

WindowStep(u) ==
  \/ Drain(u) \/ FindNoWork(u) \/ TakeExclusive(u) \/ BeginUpdate(u)
  \/ InvalidateMaterializations(u) \/ InvalidateDatasets(u)
  \/ RunScript(u) \/ QualityPasses(u) \/ Succeed(u) \/ Fail(u) \/ Close(u)

GateNext ==
  \/ WorkStep
  \/ \E r \in Readers : Begin(r) \/ ReaderStep(r) \/ PublishDataset(r) \/ PaperSyncs(r)
  \/ \E u \in Updaters : Start(u) \/ WindowStep(u) \/ ScriptEnds(u) \/ Raise(u) \/ Die(u)

GateSpec == GateInit /\ [][GateNext]_gateVars

\* A transaction ends, a script ends, an updater goes on through its finite list
\* of scripts. That counted work ends although readers come and go is what
\* ActiveJobsEnd shows of the queue.
GateFairness ==
  /\ \A w \in Work \ Managed : WF_gateVars(Commit(w) \/ Abandon(w)) /\ SF_gateVars(EndWork(w))
  /\ \A r \in Readers : WF_gateVars(ReaderStep(r))
  /\ \A u \in Updaters : WF_gateVars(WindowStep(u)) /\ WF_gateVars(ScriptEnds(u))
                         /\ SF_gateVars(QualityPasses(u))

FairGateSpec == GateSpec /\ GateFairness

-----------------------------------------------------------------------------
(* Properties.                                                              *)

UpdaterPC == {"idle", "failing", "closing", "over"} \cup InWindow
ReaderPC == {"idle", "waiting", "locked", "reading"}

\* Every variable has the shape the code gives it.
GateTypeOK ==
  /\ gate \in [status : {"ready", "draining", "updating", "failed"},
              owner : Updaters \cup {NoUpdater}]
  /\ work \in [Work -> {"none", "checked", "active", "ended"}]
  /\ coordinator \in Updaters \cup {NoUpdater}
  /\ exclusive \in Updaters \cup {NoUpdater}
  /\ shared \subseteq Readers
  /\ reader \in [Readers -> [pc : ReaderPC, loaded : Nat]]
  /\ updater \in [Updaters -> UpdaterPC]
  /\ writing \subseteq Updaters
  /\ version \in Nat
  /\ whole \in BOOLEAN
  /\ cache \in [Caches -> Nat] /\ stray \in BOOLEAN
  /\ deaths \in Nat

Reading(r) == reader[r].pc = "reading"

\* The commit of PaperSyncs comes between the lock of a paper run and its reads.
Unlocked(r) == r \in Paper /\ r \notin shared

\* backtest-performance.md: what holds a shared lock finishes before the exclusive
\* one is granted. So the tables do not change under a reader: what it reads last is of
\* the version it read first, and nothing writes but a script that outlived a killed
\* window. A paper run that synchronised pending orders has no such promise.
NoReadWhileWriting ==
  \A r \in Readers : Reading(r) /\ ~Unlocked(r) =>
    reader[r].loaded = version /\ \A u \in writing : updater[u] = "over"

\* The same for every reader, which is what the document says and does not hold.
LockedReadsFinish ==
  \A r \in Readers : Reading(r) =>
    reader[r].loaded = version /\ \A u \in writing : updater[u] = "over"

\* The count of active work and the row lock of submissions together: once the
\* row says updating nothing counted is left, nor comes.
DrainIsComplete ==
  gate.status = "updating" => \A w \in Work : work[w] \in {"none", "ended"}

\* Tables whose update was broken off are not read by a paper run that has its lock,
\* and no work is taken on or left for them, until a later window has passed the
\* quality gate. Of the backtests and scans, only a child whose job was ended under it
\* may read them, while the later window drains.
ClosedUntilWhole ==
  ~whole => /\ \A w \in Work : work[w] \in {"none", "ended"}
            /\ \A p \in Paper : Reading(p) => Unlocked(p)
            /\ gate.status # "ready"

\* No derived cache outlives the data it was built from, because the invalidation comes
\* after the last reader that could publish; but for the materializations of a paper
\* run that has lost its lock, which the invalidation does not wait for.
CachesAreCurrent ==
  \A k \in Caches : cache[k] \in {0, version} \/ (k = "materializations" /\ stray)

\* A maintenance window that began to drain ends: the work it waits for ends,
\* readers let it pass, and it never waits for itself.
DrainEnds ==
  \A u \in Updaters : updater[u] = "draining" ~> updater[u] = "over"
=============================================================================

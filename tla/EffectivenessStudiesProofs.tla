---------------------- MODULE EffectivenessStudiesProofs ----------------------
(* Theorems about the maintenance gate and the study composed with it, for    *)
(* every value of their constants: any number of annual folds, jobs, readers  *)
(* and updaters. First the gate alone (MarketDataMaintenance), then the study *)
(* (EffectivenessStudies).                                                     *)
EXTENDS EffectivenessStudies, TLAPS

-----------------------------------------------------------------------------
(* Type correctness.                                                        *)

LEMMA InitGateTypeOK == GateInit => GateTypeOK
<1> SUFFICES ASSUME GateInit PROVE GateTypeOK
  OBVIOUS
<1>1. whole \in BOOLEAN /\ stray \in BOOLEAN
  BY DEF GateInit
<1> QED
  BY <1>1 DEF GateInit, GateTypeOK, UpdaterPC, ReaderPC

LEMMA GotoType ==
  ASSUME GateTypeOK, NEW r \in Readers, NEW pc \in ReaderPC, Goto(r, pc)
  PROVE  reader' \in [Readers -> [pc : ReaderPC, loaded : Nat]]
BY DEF Goto, GateTypeOK

LEMMA UGotoType ==
  ASSUME GateTypeOK, NEW u \in Updaters, NEW pc \in UpdaterPC, UGoto(u, pc)
  PROVE  updater' \in [Updaters -> UpdaterPC]
BY DEF UGoto, GateTypeOK

LEMMA ReleaseLocksType ==
  ASSUME GateTypeOK, NEW u \in Updaters, ReleaseLocks(u)
  PROVE  /\ coordinator' \in Updaters \cup {NoUpdater}
         /\ exclusive' \in Updaters \cup {NoUpdater}
         /\ updater' \in [Updaters -> UpdaterPC]
<1>1. updater' \in [Updaters -> UpdaterPC]
  BY UGotoType DEF ReleaseLocks, UpdaterPC
<1> QED
  BY <1>1 DEF ReleaseLocks, Without, GateTypeOK

\* A step of the work touches nothing else.
LEMMA WorkFrame ==
  ASSUME WorkStep
  PROVE  UNCHANGED <<gate, coordinator, exclusive, shared, reader, updater, writing,
                     version, whole, cache, stray, deaths>>
BY DEF WorkStep, Submit, Commit, Abandon, EndWork, Spawn, lockVars, dataVars

LEMMA WorkType ==
  ASSUME GateTypeOK, WorkStep
  PROVE  work' \in [Work -> {"none", "checked", "active", "ended"}]
BY DEF WorkStep, Submit, Commit, Abandon, EndWork, Spawn, GateTypeOK, Work

LEMMA ReaderType ==
  ASSUME GateTypeOK, NEW r \in Readers,
         Begin(r) \/ ReaderStep(r) \/ PublishDataset(r) \/ PaperSyncs(r)
  PROVE  GateTypeOK'
<1>1. CASE Begin(r)
  BY <1>1, GotoType DEF Begin, GateTypeOK, ReaderPC, workVars, lockVars, dataVars
<1>2. CASE AcquireShared(r)
  BY <1>2, GotoType DEF AcquireShared, GateTypeOK, ReaderPC, workVars, dataVars
<1>3. CASE Admit(r)
  BY <1>3 DEF Admit, GateTypeOK, ReaderPC, workVars, lockVars, dataVars
<1>4. CASE Refuse(r)
  BY <1>4, GotoType DEF Refuse, GateTypeOK, ReaderPC, workVars, dataVars
<1>5. CASE PublishDataset(r)
  BY <1>5 DEF PublishDataset, GateTypeOK, Caches, workVars, lockVars
<1>6. CASE PaperSyncs(r)
  BY <1>6 DEF PaperSyncs, GateTypeOK, workVars, dataVars
<1>7. CASE EndRead(r)
  <2>1. cache' \in [Caches -> Nat]
    BY <1>7 DEF EndRead, GateTypeOK, Caches
  <2>2. stray' \in BOOLEAN
    BY <1>7, Zenon DEF EndRead, GateTypeOK
  <2> QED
    BY <1>7, <2>1, <2>2, GotoType DEF EndRead, GateTypeOK, ReaderPC, workVars
<1> QED
  BY <1>1, <1>2, <1>3, <1>4, <1>5, <1>6, <1>7 DEF ReaderStep

\* The row takes four values only.
LEMMA GateValues ==
  ASSUME GateTypeOK, NEW u \in Updaters
  PROVE  /\ [status |-> "draining", owner |-> u] \in
              [status : {"ready", "draining", "updating", "failed"}, owner : Updaters \cup {NoUpdater}]
         /\ [status |-> "ready", owner |-> NoUpdater] \in
              [status : {"ready", "draining", "updating", "failed"}, owner : Updaters \cup {NoUpdater}]
         /\ [status |-> "failed", owner |-> NoUpdater] \in
              [status : {"ready", "draining", "updating", "failed"}, owner : Updaters \cup {NoUpdater}]
         /\ [gate EXCEPT !.status = "updating"] \in
              [status : {"ready", "draining", "updating", "failed"}, owner : Updaters \cup {NoUpdater}]
BY DEF GateTypeOK

LEMMA UpdaterType ==
  ASSUME GateTypeOK, NEW u \in Updaters,
         Start(u) \/ WindowStep(u) \/ ScriptEnds(u) \/ Raise(u) \/ Die(u)
  PROVE  GateTypeOK'
<1> USE DEF UpdaterPC, InWindow
<1>1. CASE Start(u)
  BY <1>1, UGotoType DEF Start, GateTypeOK, workVars, dataVars
<1>2. CASE Drain(u)
  BY <1>2, UGotoType, GateValues DEF Drain, GateTypeOK, workVars, lockVars, dataVars
<1>3. CASE FindNoWork(u)
  BY <1>3, UGotoType DEF FindNoWork, GateTypeOK, workVars, lockVars, dataVars
<1>4. CASE TakeExclusive(u)
  BY <1>4, UGotoType DEF TakeExclusive, GateTypeOK, workVars, dataVars
<1>5. CASE BeginUpdate(u)
  BY <1>5, UGotoType, GateValues DEF BeginUpdate, GateTypeOK, workVars, lockVars, dataVars
<1>6. CASE InvalidateMaterializations(u)
  <2>1. stray' \in BOOLEAN
    BY <1>6, Zenon DEF InvalidateMaterializations, Invalidates
  <2> QED
    BY <1>6, <2>1, UGotoType
       DEF InvalidateMaterializations, Invalidates, GateTypeOK, Caches, workVars, lockVars
<1>7. CASE InvalidateDatasets(u)
  <2>1. stray' \in BOOLEAN
    BY <1>7, Zenon DEF InvalidateDatasets, Invalidates
  <2> QED
    BY <1>7, <2>1, UGotoType
       DEF InvalidateDatasets, Invalidates, GateTypeOK, Caches, workVars, lockVars
<1>8. CASE RunScript(u)
  <2>1. version' \in Nat /\ writing' \subseteq Updaters
    BY <1>8 DEF RunScript, GateTypeOK
  <2>2. whole' \in BOOLEAN
    BY <1>8, Zenon DEF RunScript, GateTypeOK
  <2>3. updater' \in [Updaters -> UpdaterPC]
    BY <1>8, UGotoType DEF RunScript
  <2> QED
    BY <1>8, <2>1, <2>2, <2>3 DEF RunScript, GateTypeOK, workVars, lockVars
<1>9. CASE QualityPasses(u)
  BY <1>9, UGotoType DEF QualityPasses, GateTypeOK, workVars, lockVars
<1>10. CASE Succeed(u)
  BY <1>10, UGotoType, GateValues DEF Succeed, GateTypeOK, workVars, lockVars, dataVars
<1>11. CASE Fail(u)
  BY <1>11, UGotoType, GateValues DEF Fail, GateTypeOK, workVars, lockVars, dataVars
<1>12. CASE Close(u)
  BY <1>12, ReleaseLocksType DEF Close, GateTypeOK, workVars, dataVars
<1>13. CASE ScriptEnds(u)
  BY <1>13 DEF ScriptEnds, GateTypeOK, workVars, lockVars, dataVars
<1>14. CASE Raise(u)
  BY <1>14, UGotoType DEF Raise, GateTypeOK, workVars, lockVars, dataVars
<1>15. CASE Die(u)
  BY <1>15, ReleaseLocksType DEF Die, GateTypeOK, workVars, dataVars
<1> QED
  BY <1>1, <1>2, <1>3, <1>4, <1>5, <1>6, <1>7, <1>8, <1>9, <1>10, <1>11, <1>12, <1>13,
     <1>14, <1>15
     DEF WindowStep

LEMMA NextGateTypeOK == GateTypeOK /\ [GateNext]_gateVars => GateTypeOK'
<1> SUFFICES ASSUME GateTypeOK, [GateNext]_gateVars PROVE GateTypeOK'
  OBVIOUS
<1>1. CASE WorkStep
  BY <1>1, WorkFrame, WorkType DEF GateTypeOK
<1>2. ASSUME NEW r \in Readers,
             Begin(r) \/ ReaderStep(r) \/ PublishDataset(r) \/ PaperSyncs(r)
      PROVE  GateTypeOK'
  BY <1>2, ReaderType
<1>3. ASSUME NEW u \in Updaters,
             Start(u) \/ WindowStep(u) \/ ScriptEnds(u) \/ Raise(u) \/ Die(u)
      PROVE  GateTypeOK'
  BY <1>3, UpdaterType
<1>4. CASE UNCHANGED gateVars
  BY <1>4 DEF gateVars, GateTypeOK
<1> QED
  BY <1>1, <1>2, <1>3, <1>4 DEF GateNext

\* Every reachable state of the gate is well formed.
THEOREM GateTypeCorrect == GateSpec => []GateTypeOK
BY InitGateTypeOK, NextGateTypeOK, PTL DEF GateSpec

-----------------------------------------------------------------------------
(* The drain. A row that is not ready is a row no submission has locked, so *)
(* what the updater counted is everything there is.                         *)

Quiet == \A w \in Work : work[w] \in {"none", "ended"}

DrainInv ==
  /\ ~Open => RowFree
  /\ \A u \in Updaters : updater[u] \in {"drained", "locked"} /\ Owns(u, "draining") => Quiet
  /\ DrainIsComplete

\* While the gate is closed the row is free, and closed and quiet stays quiet.
LEMMA WorkKeepsQuiet ==
  ASSUME GateTypeOK, ~Open, RowFree, WorkStep
  PROVE  RowFree' /\ (Quiet => Quiet')
<1>1. ASSUME NEW w \in Work, Submit(w) \/ Commit(w) \/ Abandon(w) PROVE FALSE
  BY <1>1 DEF Submit, Commit, Abandon, RowFree
<1>2. ASSUME NEW w \in Work, EndWork(w) PROVE RowFree' /\ (Quiet => Quiet')
  BY <1>2 DEF EndWork, RowFree, Quiet, Active, GateTypeOK
<1>3. ASSUME NEW e \in Experiments, NEW j \in Jobs, Spawn(e, j)
      PROVE  RowFree' /\ (Quiet => Quiet')
  BY <1>3 DEF Spawn, RowFree, Quiet, Active, GateTypeOK, Work
<1> QED
  BY <1>1, <1>2, <1>3 DEF WorkStep

LEMMA InitDrainInv == GateInit => DrainInv
BY DEF GateInit, DrainInv, DrainIsComplete, Open, Owns, RowFree

\* What only moves readers or the data keeps the invariant.
LEMMA DrainFrame ==
  ASSUME DrainInv, UNCHANGED <<gate, work, updater>>
  PROVE  DrainInv'
BY DEF DrainInv, DrainIsComplete, Open, Owns, RowFree, Quiet

\* So does an updater that leaves the row alone and is not about to have it.
LEMMA DrainMove ==
  ASSUME DrainInv, GateTypeOK, NEW u \in Updaters, NEW pc, UGoto(u, pc),
         UNCHANGED <<gate, work>>,
         pc \in {"drained", "locked"} /\ Owns(u, "draining") => Quiet
  PROVE  DrainInv'
BY DEF DrainInv, DrainIsComplete, Open, Owns, RowFree, Quiet, UGoto, GateTypeOK

\* Whoever writes the row finds it free and leaves it free.
LEMMA DrainRow ==
  ASSUME DrainInv, GateTypeOK, NEW u \in Updaters, NEW pc, UGoto(u, pc), UNCHANGED work,
         RowFree, pc \notin {"drained", "locked"},
         gate'.owner \in {u, NoUpdater}, gate'.status = "updating" => Quiet
  PROVE  DrainInv'
<1>1. RowFree' /\ (Quiet => Quiet')
  BY DEF RowFree, Quiet
<1>2. ASSUME NEW v \in Updaters, updater'[v] \in {"drained", "locked"}, Owns(v, "draining")'
      PROVE  Quiet'
  <2>1. v # u /\ gate'.owner = v
    BY <1>2 DEF UGoto, Owns, GateTypeOK
  <2> QED
    BY <2>1, ActorsAssumption
<1> QED
  BY <1>1, <1>2 DEF DrainInv, DrainIsComplete, Quiet

LEMMA NextDrainInv == GateTypeOK /\ DrainInv /\ [GateNext]_gateVars => DrainInv'
<1> SUFFICES ASSUME GateTypeOK, DrainInv, [GateNext]_gateVars PROVE DrainInv'
  OBVIOUS
<1>1. CASE WorkStep
  <2>1. UNCHANGED <<gate, updater>>
    BY <1>1, WorkFrame
  <2>2. CASE Open
    BY <2>1, <2>2 DEF DrainInv, DrainIsComplete, Open, Owns
  <2>3. CASE ~Open
    <3>1. RowFree' /\ (Quiet => Quiet')
      BY <1>1, <2>3, WorkKeepsQuiet DEF DrainInv
    <3> QED
      BY <2>1, <3>1 DEF DrainInv, DrainIsComplete, Quiet, Open, Owns
  <2> QED
    BY <2>2, <2>3
<1>2. ASSUME NEW r \in Readers,
             Begin(r) \/ ReaderStep(r) \/ PublishDataset(r) \/ PaperSyncs(r)
      PROVE  DrainInv'
  <2>1. UNCHANGED <<gate, work, updater>>
    BY <1>2 DEF Begin, ReaderStep, AcquireShared, Admit, Refuse, EndRead, PublishDataset,
                PaperSyncs, workVars, lockVars, dataVars
  <2> QED
    BY <2>1, DrainFrame
<1>3. ASSUME NEW u \in Updaters,
             Start(u) \/ WindowStep(u) \/ ScriptEnds(u) \/ Raise(u) \/ Die(u)
      PROVE  DrainInv'
  <2>1. CASE Start(u)
    BY <2>1, DrainMove DEF Start, workVars
  <2>2. CASE Drain(u)
    <3>1. gate'.owner = u /\ gate'.status = "draining"
      BY <2>2 DEF Drain
    <3> QED
      BY <2>2, <3>1, DrainRow DEF Drain, workVars
  <2>3. CASE FindNoWork(u)
    <3>1. Owns(u, "draining") => Quiet
      BY <2>3 DEF FindNoWork, DrainInv, Owns, Open, RowFree, Quiet, Active, GateTypeOK
    <3> QED
      BY <2>3, <3>1, DrainMove DEF FindNoWork, workVars
  <2>4. CASE TakeExclusive(u)
    <3>1. Owns(u, "draining") => Quiet
      BY <2>4 DEF TakeExclusive, DrainInv
    <3> QED
      BY <2>4, <3>1, DrainMove DEF TakeExclusive, workVars
  <2>5. CASE BeginUpdate(u)
    <3>1. CASE Owns(u, "draining")
      <4>1. Quiet
        BY <2>5, <3>1 DEF BeginUpdate, DrainInv
      <4>2. gate'.owner = u /\ UGoto(u, "updating")
        BY <2>5, <3>1 DEF BeginUpdate, Owns
      <4> QED
        BY <2>5, <4>1, <4>2, DrainRow DEF BeginUpdate, workVars
    <3>2. CASE ~Owns(u, "draining")
      BY <2>5, <3>2, DrainMove DEF BeginUpdate, workVars
    <3> QED
      BY <3>1, <3>2
  <2>6. CASE InvalidateMaterializations(u)
    BY <2>6, DrainMove DEF InvalidateMaterializations, Invalidates, workVars
  <2>7. CASE InvalidateDatasets(u)
    BY <2>7, DrainMove DEF InvalidateDatasets, Invalidates, workVars
  <2>8. CASE RunScript(u)
    BY <2>8, DrainMove DEF RunScript, workVars
  <2>9. CASE QualityPasses(u)
    BY <2>9, DrainMove DEF QualityPasses, workVars
  <2>10. CASE Succeed(u)
    <3>1. CASE gate.owner = u
      <4>1. gate'.owner = NoUpdater /\ gate'.status = "ready"
        BY <2>10, <3>1 DEF Succeed
      <4> QED
        BY <2>10, <3>1, <4>1, DrainRow DEF Succeed, workVars
    <3>2. CASE gate.owner # u
      BY <2>10, <3>2, DrainMove DEF Succeed, workVars
    <3> QED
      BY <3>1, <3>2
  <2>11. CASE Fail(u)
    <3>1. CASE gate.owner = u
      <4>1. gate'.owner = NoUpdater /\ gate'.status = "failed"
        BY <2>11, <3>1 DEF Fail
      <4> QED
        BY <2>11, <4>1, DrainRow DEF Fail, workVars
    <3>2. CASE gate.owner # u
      BY <2>11, <3>2, DrainMove DEF Fail, workVars
    <3> QED
      BY <3>1, <3>2
  <2>12. CASE Close(u)
    BY <2>12, DrainMove DEF Close, ReleaseLocks, workVars
  <2>13. CASE ScriptEnds(u)
    BY <2>13, DrainFrame DEF ScriptEnds, workVars
  <2>14. CASE Raise(u)
    BY <2>14, DrainMove DEF Raise, workVars
  <2>15. CASE Die(u)
    BY <2>15, DrainMove DEF Die, ReleaseLocks, workVars
  <2> QED
    BY <1>3, <2>1, <2>2, <2>3, <2>4, <2>5, <2>6, <2>7, <2>8, <2>9, <2>10, <2>11, <2>12,
       <2>13, <2>14, <2>15
       DEF WindowStep
<1>4. CASE UNCHANGED gateVars
  BY <1>4, DrainFrame DEF gateVars
<1> QED
  BY <1>1, <1>2, <1>3, <1>4 DEF GateNext

\* Once the row says updating nothing the updater should have waited for is left
\* or comes: not because of the locks, which only readers take, but because a
\* submission and every writer of the row exclude each other.
THEOREM DrainsCompletely == GateSpec => []DrainIsComplete
<1>1. DrainInv => DrainIsComplete
  BY DEF DrainInv
<1> QED
  BY InitDrainInv, NextDrainInv, InitGateTypeOK, NextGateTypeOK, <1>1, PTL DEF GateSpec

-----------------------------------------------------------------------------
(* The locks. Nobody reads outside the shared lock but a paper run that has *)
(* synchronised its orders, and nobody writes outside the exclusive one but *)
(* a script that has outlived its updater.                                  *)

Holding == {"locked", "updating", "invalidated", "cleared", "pipeline", "passed"}

LockInv ==
  /\ \A r \in Readers : reader[r].pc = "locked" => r \in shared
  /\ \A r \in Readers : Reading(r) /\ ~Unlocked(r) => r \in shared
  /\ exclusive # NoUpdater => shared = {}
  /\ \A u \in Updaters : updater[u] \in Holding => exclusive = u
  /\ \A u \in writing : updater[u] \in {"pipeline", "over"}

LEMMA InitLockInv == GateInit => LockInv
BY DEF GateInit, LockInv, Holding, Reading

LEMMA LockFrame ==
  ASSUME LockInv, UNCHANGED <<exclusive, shared, reader, updater, writing>>
  PROVE  LockInv'
BY DEF LockInv, Reading, Unlocked

\* An updater that holds the lock at pc, or does not have to, and does not write.
LEMMA LockMove ==
  ASSUME LockInv, GateTypeOK, NEW u \in Updaters, NEW pc, UGoto(u, pc),
         UNCHANGED <<exclusive, shared, reader>>, writing' \subseteq writing,
         pc \in Holding => exclusive = u, u \notin writing'
  PROVE  LockInv'
BY DEF LockInv, UGoto, GateTypeOK, Holding, Reading, Unlocked

\* An updater lets go of its session locks, whatever becomes of its script.
LEMMA LockRelease ==
  ASSUME LockInv, GateTypeOK, NEW u \in Updaters, ReleaseLocks(u),
         UNCHANGED <<shared, reader>>, writing' \subseteq writing
  PROVE  LockInv'
<1>1. exclusive' # NoUpdater => exclusive # NoUpdater
  BY DEF ReleaseLocks, Without
<1>2. ASSUME NEW v \in Updaters, updater'[v] \in Holding PROVE exclusive' = v
  <2>1. v # u /\ updater[v] \in Holding
    BY <1>2 DEF ReleaseLocks, UGoto, GateTypeOK, Holding
  <2> QED
    BY <2>1 DEF LockInv, ReleaseLocks, Without
<1>3. ASSUME NEW v \in writing' PROVE updater'[v] \in {"pipeline", "over"}
  BY <1>3 DEF LockInv, ReleaseLocks, UGoto, GateTypeOK
<1> QED
  BY <1>1, <1>2, <1>3 DEF LockInv, Reading, Unlocked

LEMMA ReaderLockInv ==
  ASSUME GateTypeOK, LockInv, NEW r \in Readers,
         Begin(r) \/ ReaderStep(r) \/ PublishDataset(r) \/ PaperSyncs(r)
  PROVE  LockInv'
<1> USE DEF Reading, Unlocked
<1>1. CASE Begin(r)
  BY <1>1 DEF Begin, Goto, LockInv, GateTypeOK, lockVars
<1>2. CASE AcquireShared(r)
  BY <1>2 DEF AcquireShared, SharedGranted, Goto, LockInv, GateTypeOK
<1>3. CASE Admit(r)
  BY <1>3 DEF Admit, LockInv, GateTypeOK, lockVars
<1>4. CASE Refuse(r)
  BY <1>4 DEF Refuse, Goto, LockInv, GateTypeOK
<1>5. CASE PublishDataset(r)
  BY <1>5, LockFrame DEF PublishDataset, lockVars
<1>6. CASE PaperSyncs(r)
  BY <1>6 DEF PaperSyncs, LockInv
<1>7. CASE EndRead(r)
  BY <1>7 DEF EndRead, Goto, LockInv, GateTypeOK
<1> QED
  BY <1>1, <1>2, <1>3, <1>4, <1>5, <1>6, <1>7 DEF ReaderStep

LEMMA UpdaterLockInv ==
  ASSUME GateTypeOK, LockInv, NEW u \in Updaters,
         Start(u) \/ WindowStep(u) \/ ScriptEnds(u) \/ Raise(u) \/ Die(u)
  PROVE  LockInv'
<1> USE DEF Holding, lockVars
<1>1. CASE Start(u)
  <2>1. u \notin writing
    BY <1>1 DEF Start, LockInv
  <2> QED
    BY <1>1, <2>1, LockMove DEF Start
<1>2. CASE Drain(u)
  <2>1. u \notin writing
    BY <1>2 DEF Drain, LockInv
  <2> QED
    BY <1>2, <2>1, LockMove DEF Drain
<1>3. CASE FindNoWork(u)
  <2>1. u \notin writing
    BY <1>3 DEF FindNoWork, LockInv
  <2> QED
    BY <1>3, <2>1, LockMove DEF FindNoWork
<1>4. CASE TakeExclusive(u)
  <2>1. \A v \in Updaters : updater[v] \notin Holding
    BY <1>4, ActorsAssumption DEF TakeExclusive, LockInv
  <2> QED
    BY <1>4, <2>1 DEF TakeExclusive, UGoto, LockInv, GateTypeOK, Reading, Unlocked
<1>5. CASE BeginUpdate(u)
  <2>1. u \notin writing /\ exclusive = u
    BY <1>5 DEF BeginUpdate, LockInv
  <2> QED
    BY <1>5, <2>1, LockMove DEF BeginUpdate
<1>6. CASE InvalidateMaterializations(u)
  <2>1. u \notin writing /\ exclusive = u
    BY <1>6 DEF InvalidateMaterializations, Invalidates, LockInv
  <2> QED
    BY <1>6, <2>1, LockMove DEF InvalidateMaterializations, Invalidates
<1>7. CASE InvalidateDatasets(u)
  <2>1. u \notin writing /\ exclusive = u
    BY <1>7 DEF InvalidateDatasets, Invalidates, LockInv
  <2> QED
    BY <1>7, <2>1, LockMove DEF InvalidateDatasets, Invalidates
<1>8. CASE RunScript(u)
  <2>1. u \notin writing /\ exclusive = u
    BY <1>8 DEF RunScript, LockInv
  <2>2. CASE Owns(u, "updating")
    BY <1>8, <2>1, <2>2 DEF RunScript, UGoto, LockInv, GateTypeOK, Reading, Unlocked
  <2>3. CASE ~Owns(u, "updating")
    BY <1>8, <2>1, <2>3, LockMove DEF RunScript
  <2> QED
    BY <2>2, <2>3
<1>9. CASE QualityPasses(u)
  <2>1. exclusive = u
    BY <1>9 DEF QualityPasses, LockInv
  <2> QED
    BY <1>9, <2>1, LockMove DEF QualityPasses
<1>10. CASE Succeed(u)
  <2>1. u \notin writing
    BY <1>10 DEF Succeed, LockInv
  <2> QED
    BY <1>10, <2>1, LockMove DEF Succeed
<1>11. CASE Fail(u)
  <2>1. u \notin writing
    BY <1>11 DEF Fail, LockInv
  <2> QED
    BY <1>11, <2>1, LockMove DEF Fail
<1>12. CASE Close(u)
  BY <1>12, LockRelease DEF Close
<1>13. CASE ScriptEnds(u)
  BY <1>13 DEF ScriptEnds, LockInv, Reading, Unlocked
<1>14. CASE Raise(u)
  BY <1>14, LockMove DEF Raise
<1>15. CASE Die(u)
  BY <1>15, LockRelease DEF Die
<1> QED
  BY <1>1, <1>2, <1>3, <1>4, <1>5, <1>6, <1>7, <1>8, <1>9, <1>10, <1>11, <1>12, <1>13,
     <1>14, <1>15
     DEF WindowStep

LEMMA NextLockInv == GateTypeOK /\ LockInv /\ [GateNext]_gateVars => LockInv'
<1> SUFFICES ASSUME GateTypeOK, LockInv, [GateNext]_gateVars PROVE LockInv'
  OBVIOUS
<1>1. CASE WorkStep
  BY <1>1, WorkFrame, LockFrame
<1>2. ASSUME NEW r \in Readers,
             Begin(r) \/ ReaderStep(r) \/ PublishDataset(r) \/ PaperSyncs(r)
      PROVE  LockInv'
  BY <1>2, ReaderLockInv
<1>3. ASSUME NEW u \in Updaters,
             Start(u) \/ WindowStep(u) \/ ScriptEnds(u) \/ Raise(u) \/ Die(u)
      PROVE  LockInv'
  BY <1>3, UpdaterLockInv
<1>4. CASE UNCHANGED gateVars
  BY <1>4, LockFrame DEF gateVars
<1> QED
  BY <1>1, <1>2, <1>3, <1>4 DEF GateNext

-----------------------------------------------------------------------------
(* The data. It changes under the exclusive lock only, when no reader that  *)
(* has its lock is left and the caches have just been emptied: only a paper *)
(* run without its lock can have filled one again.                          *)

DataInv ==
  /\ \A r \in Readers : Reading(r) /\ ~Unlocked(r) => reader[r].loaded = version
  /\ CachesAreCurrent
  /\ \A u \in Updaters :
       /\ updater[u] \in {"invalidated", "cleared"} => cache["materializations"] = 0 \/ stray
       /\ updater[u] = "cleared" => cache["datasets"] = 0

\* Under the exclusive lock nobody reads that has its own.
LEMMA NobodyReads ==
  ASSUME LockInv, NEW u \in Updaters, updater[u] \in Holding, NEW r \in Readers
  PROVE  Reading(r) => Unlocked(r)
BY ActorsAssumption DEF LockInv

\* So while somebody does, no updater is between its invalidations and its end.
LEMMA ReadersKeepUpdatersOut ==
  ASSUME LockInv, NEW r \in Readers, Reading(r), ~Unlocked(r), NEW u \in Updaters
  PROVE  updater[u] \notin Holding
BY NobodyReads

LEMMA InitDataInv == GateInit => DataInv
BY DEF GateInit, DataInv, CachesAreCurrent, Reading, Caches

LEMMA DataFrame ==
  ASSUME DataInv, UNCHANGED <<shared, reader, updater, version, cache, stray>>
  PROVE  DataInv'
BY DEF DataInv, CachesAreCurrent, Reading, Unlocked, Caches

LEMMA DataMove ==
  ASSUME DataInv, GateTypeOK, NEW u \in Updaters, NEW pc, UGoto(u, pc),
         UNCHANGED <<shared, reader, version, cache, stray>>, pc \notin {"invalidated", "cleared"}
  PROVE  DataInv'
BY DEF DataInv, CachesAreCurrent, Reading, Unlocked, Caches, UGoto, GateTypeOK

LEMMA ReaderDataInv ==
  ASSUME GateTypeOK, LockInv, DataInv, NEW r \in Readers,
         Begin(r) \/ ReaderStep(r) \/ PublishDataset(r) \/ PaperSyncs(r)
  PROVE  DataInv'
<1> USE DEF lockVars, dataVars, Unlocked
<1>1. CASE Begin(r)
  BY <1>1 DEF Begin, Goto, DataInv, CachesAreCurrent, Caches, Reading, GateTypeOK
<1>2. CASE AcquireShared(r)
  BY <1>2 DEF AcquireShared, Goto, DataInv, CachesAreCurrent, Caches, Reading, GateTypeOK
<1>3. CASE Admit(r)
  BY <1>3 DEF Admit, DataInv, CachesAreCurrent, Caches, Reading, GateTypeOK
<1>4. CASE Refuse(r)
  BY <1>4 DEF Refuse, Goto, DataInv, CachesAreCurrent, Caches, Reading, GateTypeOK
<1>5. CASE PublishDataset(r)
  <2>1. Reading(r) /\ ~Unlocked(r)
    BY <1>5, ActorsAssumption DEF PublishDataset, Reading
  <2>2. \A u \in Updaters : updater[u] \notin Holding
    BY <2>1, ReadersKeepUpdatersOut
  <2> QED
    BY <1>5, <2>1, <2>2 DEF PublishDataset, DataInv, CachesAreCurrent, Caches, Reading,
                            GateTypeOK, Holding
<1>6. CASE PaperSyncs(r)
  BY <1>6 DEF PaperSyncs, DataInv, CachesAreCurrent, Caches, Reading
<1>7. CASE EndRead(r)
  <2>1. \A q \in Readers : Reading(q)' /\ ~Unlocked(q)' =>
          /\ Reading(q) /\ ~Unlocked(q)
          /\ reader'[q].loaded = reader[q].loaded
    BY <1>7 DEF EndRead, Goto, Reading, GateTypeOK
  <2>2. UNCHANGED <<version, updater>>
    BY <1>7 DEF EndRead
  <2>3. CASE UNCHANGED <<cache, stray>>
    BY <2>1, <2>2, <2>3 DEF DataInv, CachesAreCurrent, Caches
  <2>4. ASSUME cache' = [cache EXCEPT !["materializations"] = reader[r].loaded],
               stray' = (r \notin shared)
        PROVE  DataInv'
    <3>1. cache'["datasets"] = cache["datasets"]
          /\ cache'["materializations"] = reader[r].loaded
      BY <2>4 DEF GateTypeOK, Caches
    <3>2. CASE stray'
      BY <2>1, <2>2, <3>1, <3>2 DEF DataInv, CachesAreCurrent, Caches
    <3>3. CASE ~stray'
      <4>1. Reading(r) /\ ~Unlocked(r)
        BY <1>7, <2>4, <3>3 DEF EndRead, Reading
      <4>2. \A u \in Updaters : updater[u] \notin Holding
        BY <4>1, ReadersKeepUpdatersOut
      <4>3. reader[r].loaded = version
        BY <4>1 DEF DataInv
      <4> QED
        BY <2>1, <2>2, <3>1, <4>2, <4>3 DEF DataInv, CachesAreCurrent, Caches, Holding
    <3> QED
      BY <3>2, <3>3
  <2> QED
    BY <1>7, <2>3, <2>4 DEF EndRead
<1> QED
  BY <1>1, <1>2, <1>3, <1>4, <1>5, <1>6, <1>7 DEF ReaderStep

LEMMA UpdaterDataInv ==
  ASSUME GateTypeOK, LockInv, DataInv, NEW u \in Updaters,
         Start(u) \/ WindowStep(u) \/ ScriptEnds(u) \/ Raise(u) \/ Die(u)
  PROVE  DataInv'
<1> USE DEF lockVars, dataVars
<1>1. CASE Start(u)
  BY <1>1, DataMove DEF Start
<1>2. CASE Drain(u)
  BY <1>2, DataMove DEF Drain
<1>3. CASE FindNoWork(u)
  BY <1>3, DataMove DEF FindNoWork
<1>4. CASE TakeExclusive(u)
  BY <1>4, DataMove DEF TakeExclusive
<1>5. CASE BeginUpdate(u)
  BY <1>5, DataMove DEF BeginUpdate
<1>6. CASE InvalidateMaterializations(u)
  BY <1>6 DEF InvalidateMaterializations, Invalidates, UGoto, DataInv, CachesAreCurrent,
              Caches, Reading, Unlocked, GateTypeOK
<1>7. CASE InvalidateDatasets(u)
  <2>1. stray' <=> stray
    BY <1>7 DEF InvalidateDatasets, Invalidates
  <2> QED
    BY <1>7, <2>1 DEF InvalidateDatasets, Invalidates, UGoto, DataInv, CachesAreCurrent,
                      Caches, Reading, Unlocked, GateTypeOK
<1>8. CASE RunScript(u)
  <2>1. \A r \in Readers : Reading(r) => Unlocked(r)
    BY <1>8, NobodyReads DEF RunScript, Holding
  <2>2. \A v \in Updaters : updater'[v] \in {"invalidated", "cleared"} =>
                              updater[v] = updater'[v]
    BY <1>8 DEF RunScript, UGoto, GateTypeOK
  <2>3. \A k \in Caches :
          cache[k] = 0 \/ version' = version \/ (k = "materializations" /\ stray)
    BY <1>8 DEF RunScript, DataInv, Caches
  <2>4. UNCHANGED <<shared, reader, cache, stray>>
    BY <1>8 DEF RunScript
  <2> QED
    BY <2>1, <2>2, <2>3, <2>4
       DEF DataInv, CachesAreCurrent, Caches, Reading, Unlocked
<1>9. CASE QualityPasses(u)
  BY <1>9, DataMove DEF QualityPasses
<1>10. CASE Succeed(u)
  BY <1>10, DataMove DEF Succeed
<1>11. CASE Fail(u)
  BY <1>11, DataMove DEF Fail
<1>12. CASE Close(u)
  BY <1>12, DataMove DEF Close, ReleaseLocks
<1>13. CASE ScriptEnds(u)
  BY <1>13, DataFrame DEF ScriptEnds
<1>14. CASE Raise(u)
  BY <1>14, DataMove DEF Raise
<1>15. CASE Die(u)
  BY <1>15, DataMove DEF Die, ReleaseLocks
<1> QED
  BY <1>1, <1>2, <1>3, <1>4, <1>5, <1>6, <1>7, <1>8, <1>9, <1>10, <1>11, <1>12, <1>13,
     <1>14, <1>15
     DEF WindowStep

LEMMA NextDataInv == GateTypeOK /\ LockInv /\ DataInv /\ [GateNext]_gateVars => DataInv'
<1> SUFFICES ASSUME GateTypeOK, LockInv, DataInv, [GateNext]_gateVars PROVE DataInv'
  OBVIOUS
<1>1. CASE WorkStep
  BY <1>1, WorkFrame, DataFrame
<1>2. ASSUME NEW r \in Readers,
             Begin(r) \/ ReaderStep(r) \/ PublishDataset(r) \/ PaperSyncs(r)
      PROVE  DataInv'
  BY <1>2, ReaderDataInv
<1>3. ASSUME NEW u \in Updaters,
             Start(u) \/ WindowStep(u) \/ ScriptEnds(u) \/ Raise(u) \/ Die(u)
      PROVE  DataInv'
  BY <1>3, UpdaterDataInv
<1>4. CASE UNCHANGED gateVars
  BY <1>4, DataFrame DEF gateVars
<1> QED
  BY <1>1, <1>2, <1>3, <1>4 DEF GateNext

\* The source tables do not change under a reader that has kept its shared lock, and
\* no window that still lives writes them: with any number of updaters that start,
\* fail, are killed with or without the script that runs, and start again in any order,
\* jobs that are ended under their readers and paper runs that lose their lock.
THEOREM ReadersSeeOneVersion == GateSpec => []NoReadWhileWriting
<1>1. GateTypeOK /\ LockInv /\ DataInv => NoReadWhileWriting
  BY NobodyReads DEF NoReadWhileWriting, LockInv, DataInv, GateTypeOK, Holding
<1> QED
  BY InitGateTypeOK, NextGateTypeOK, InitLockInv, NextLockInv, InitDataInv, NextDataInv,
     <1>1, PTL DEF GateSpec

\* Every derived cache is empty or of the version the source tables have, but for
\* materializations that a paper run without its lock has published.
THEOREM CachesFollowTheData == GateSpec => []CachesAreCurrent
<1>1. DataInv => CachesAreCurrent
  BY DEF DataInv
<1> QED
  BY InitGateTypeOK, NextGateTypeOK, InitLockInv, NextLockInv, InitDataInv, NextDataInv,
     <1>1, PTL DEF GateSpec

-----------------------------------------------------------------------------
(* A window that breaks off. From its first write to the quality gate of a  *)
(* later window the row is not ready: nothing counted comes, and no run of  *)
(* paper trading is admitted.                                               *)

ClosedInv ==
  /\ ~whole => ~Open /\ Quiet /\ \A p \in Paper : Reading(p) => Unlocked(p)
  /\ \A u \in Updaters : updater[u] = "passed" => whole

LEMMA InitClosedInv == GateInit => ClosedInv
BY DEF GateInit, ClosedInv

LEMMA ClosedFrame ==
  ASSUME ClosedInv, UNCHANGED <<gate, work, shared, reader, updater, whole>>
  PROVE  ClosedInv'
BY DEF ClosedInv, Open, Quiet, Reading, Unlocked

\* An updater that does not open the gate and does not pass.
LEMMA ClosedMove ==
  ASSUME ClosedInv, GateTypeOK, NEW u \in Updaters, NEW pc, UGoto(u, pc), pc # "passed",
         UNCHANGED <<work, shared, reader, whole>>, Open' => Open
  PROVE  ClosedInv'
BY DEF ClosedInv, Open, Quiet, Reading, Unlocked, UGoto, GateTypeOK

LEMMA WorkClosedInv ==
  ASSUME GateTypeOK, DrainInv, ClosedInv, WorkStep
  PROVE  ClosedInv'
<1>1. UNCHANGED <<gate, shared, reader, updater, whole>>
  BY WorkFrame
<1>2. ~whole => Quiet'
  BY WorkKeepsQuiet DEF ClosedInv, DrainInv
<1> QED
  BY <1>1, <1>2 DEF ClosedInv, Open, Reading, Unlocked

LEMMA ReaderClosedInv ==
  ASSUME GateTypeOK, ClosedInv, NEW r \in Readers,
         Begin(r) \/ ReaderStep(r) \/ PublishDataset(r) \/ PaperSyncs(r)
  PROVE  ClosedInv'
<1> USE DEF workVars, lockVars, dataVars
<1> USE DEF ClosedInv, Open, Quiet, Reading, Unlocked, Readers
<1>1. CASE Begin(r)
  BY <1>1 DEF Begin, Goto, GateTypeOK
<1>2. CASE AcquireShared(r)
  BY <1>2 DEF AcquireShared, Goto, GateTypeOK
<1>3. CASE Admit(r)
  <2>1. r \in Paper => whole
    BY <1>3, ActorsAssumption DEF Admit, Admitted
  <2> QED
    BY <1>3, <2>1 DEF Admit, GateTypeOK
<1>4. CASE Refuse(r)
  BY <1>4 DEF Refuse, Goto, GateTypeOK
<1>5. CASE PublishDataset(r)
  BY <1>5, ClosedFrame DEF PublishDataset
<1>6. CASE PaperSyncs(r)
  BY <1>6 DEF PaperSyncs
<1>7. CASE EndRead(r)
  BY <1>7 DEF EndRead, Goto, GateTypeOK
<1> QED
  BY <1>1, <1>2, <1>3, <1>4, <1>5, <1>6, <1>7 DEF ReaderStep

LEMMA UpdaterClosedInv ==
  ASSUME GateTypeOK, LockInv, DrainInv, ClosedInv, NEW u \in Updaters,
         Start(u) \/ WindowStep(u) \/ ScriptEnds(u) \/ Raise(u) \/ Die(u)
  PROVE  ClosedInv'
<1> USE DEF workVars, lockVars, dataVars
<1>1. CASE Start(u)
  BY <1>1, ClosedMove DEF Start, Open
<1>2. CASE Drain(u)
  BY <1>2, ClosedMove DEF Drain, Open
<1>3. CASE FindNoWork(u)
  BY <1>3, ClosedMove DEF FindNoWork, Open
<1>4. CASE TakeExclusive(u)
  BY <1>4, ClosedMove DEF TakeExclusive, Open
<1>5. CASE BeginUpdate(u)
  <2>1. Open' => Open
    BY <1>5 DEF BeginUpdate, Open, Owns, GateTypeOK
  <2> QED
    BY <1>5, <2>1, ClosedMove DEF BeginUpdate
<1>6. CASE InvalidateMaterializations(u)
  BY <1>6, ClosedMove DEF InvalidateMaterializations, Invalidates, Open
<1>7. CASE InvalidateDatasets(u)
  BY <1>7, ClosedMove DEF InvalidateDatasets, Invalidates, Open
<1>8. CASE RunScript(u)
  <2>1. CASE Owns(u, "updating")
    <3>1. Quiet /\ ~Open
      BY <2>1 DEF DrainInv, DrainIsComplete, Owns, Open, Quiet
    <3>2. \A p \in Paper : Reading(p) => Unlocked(p)
      BY <1>8, NobodyReads DEF RunScript, Holding, Readers
    <3>3. \A v \in Updaters : updater'[v] # "passed"
      BY <1>8, <2>1 DEF RunScript, LockInv, Holding, UGoto, GateTypeOK
    <3> QED
      BY <1>8, <2>1, <3>1, <3>2, <3>3
         DEF RunScript, ClosedInv, Open, Quiet, Reading, Unlocked
  <2>2. CASE ~Owns(u, "updating")
    BY <1>8, <2>2, ClosedMove DEF RunScript, Open
  <2> QED
    BY <2>1, <2>2
<1>9. CASE QualityPasses(u)
  BY <1>9 DEF QualityPasses, ClosedInv
<1>10. CASE Succeed(u)
  <2>1. whole /\ whole'
    BY <1>10 DEF Succeed, ClosedInv
  <2> QED
    BY <1>10, <2>1 DEF Succeed, ClosedInv
<1>11. CASE Fail(u)
  <2>1. Open' => Open
    BY <1>11 DEF Fail, Open
  <2> QED
    BY <1>11, <2>1, ClosedMove DEF Fail
<1>12. CASE Close(u)
  BY <1>12, ClosedMove DEF Close, ReleaseLocks, Open
<1>13. CASE ScriptEnds(u)
  BY <1>13, ClosedFrame DEF ScriptEnds
<1>14. CASE Raise(u)
  BY <1>14, ClosedMove DEF Raise, Open
<1>15. CASE Die(u)
  BY <1>15, ClosedMove DEF Die, ReleaseLocks, Open
<1> QED
  BY <1>1, <1>2, <1>3, <1>4, <1>5, <1>6, <1>7, <1>8, <1>9, <1>10, <1>11, <1>12, <1>13,
     <1>14, <1>15
     DEF WindowStep

LEMMA NextClosedInv ==
  GateTypeOK /\ LockInv /\ DrainInv /\ ClosedInv /\ [GateNext]_gateVars => ClosedInv'
<1> SUFFICES ASSUME GateTypeOK, LockInv, DrainInv, ClosedInv, [GateNext]_gateVars
             PROVE  ClosedInv'
  OBVIOUS
<1>1. CASE WorkStep
  BY <1>1, WorkClosedInv
<1>2. ASSUME NEW r \in Readers,
             Begin(r) \/ ReaderStep(r) \/ PublishDataset(r) \/ PaperSyncs(r)
      PROVE  ClosedInv'
  BY <1>2, ReaderClosedInv
<1>3. ASSUME NEW u \in Updaters,
             Start(u) \/ WindowStep(u) \/ ScriptEnds(u) \/ Raise(u) \/ Die(u)
      PROVE  ClosedInv'
  BY <1>3, UpdaterClosedInv
<1>4. CASE UNCHANGED gateVars
  BY <1>4, ClosedFrame DEF gateVars
<1> QED
  BY <1>1, <1>2, <1>3, <1>4 DEF GateNext

\* Tables a window left half rewritten are read by no paper run that has its lock, and
\* no work is taken on or left for them, until a later window has passed the quality
\* gate.
THEOREM BrokenTablesStayClosed == GateSpec => []ClosedUntilWhole
<1>1. ClosedInv => ClosedUntilWhole
  BY DEF ClosedInv, ClosedUntilWhole, Quiet, Open
<1> QED
  BY InitGateTypeOK, NextGateTypeOK, InitLockInv, NextLockInv, InitDrainInv, NextDrainInv,
     InitClosedInv, NextClosedInv, <1>1, PTL
     DEF GateSpec

-----------------------------------------------------------------------------
(* Types.                                                                    *)

WorkTyped == work \in [Work -> {"none", "checked", "active", "ended"}]

\* What the study's own variables are.
StudyVarsOK ==
  /\ study \in {"none", "queued", "running", "cancel_requested", "done"}
  /\ creating \in BOOLEAN /\ refused \in BOOLEAN /\ unheard \in BOOLEAN
  /\ folding \in {"no", "queued", "running", "looping"}
  /\ seen \subseteq Annual
  /\ tries \in [Children -> 0 .. MaxTries]
  /\ outcome \in [Children -> {"none", "evidence", "empty", "cancelled"}]
  /\ doomed \subseteq Children

\* What makes the types inductive: a follow-up that is past its first reads is owed.
FollowUpsOwed ==
  /\ folding # "no" => Owed(Discovery)
  /\ \A a \in seen : Owed(a)

StudyTyped == StudyTypeOK /\ FollowUpsOwed

LEMMA Members ==
  /\ Study \in Work /\ Study \notin Children /\ Children \subseteq Work
  /\ Discovery \in Children /\ Final \in Children /\ Annual \subseteq Children
  /\ Discovery # Final /\ Discovery \notin Annual /\ Final \notin Annual
  /\ \A w \in Work \ Managed : w # Study /\ w \notin Children
  /\ \A j \in Jobs : j # Study /\ j \notin Children
BY StudyAssumption, ActorsAssumption DEF Work, Children

LEMMA StudyTypedParts ==
  /\ StudyTyped <=> GateTypeOK /\ StudyVarsOK /\ (Active(Study) <=> StudyOpen) /\ FollowUpsOwed
  /\ StudyTyped' <=> GateTypeOK' /\ StudyVarsOK' /\ (Active(Study)' <=> StudyOpen') /\ FollowUpsOwed'
BY DEF StudyTyped, StudyTypeOK, StudyVarsOK

\* Setting work to a status is all that a step of the study does to the gate.
LEMMA SetWorkType ==
  ASSUME GateTypeOK, NEW ws \in SUBSET Work, NEW status \in {"active", "ended"},
         SetWork(ws, status) \/ UNCHANGED work, UNCHANGED gateRest
  PROVE  GateTypeOK'
<1>1. work' \in [Work -> {"none", "checked", "active", "ended"}]
  BY DEF SetWork, GateTypeOK
<1> QED
  BY <1>1 DEF GateTypeOK, gateRest, lockVars, dataVars

LEMMA SetWorkDoes ==
  ASSUME NEW ws \in SUBSET Work, NEW status, SetWork(ws, status)
  PROVE  \A w \in Work : work'[w] = IF w \in ws THEN status ELSE work[w]
BY DEF SetWork

\* The gate's own steps leave the study's work alone.
LEMMA GateLeavesStudies ==
  ASSUME GateTypeOK, GateNext
  PROVE  \A w \in Children \cup {Study} : work'[w] = work[w]
<1>1. ASSUME NEW w \in Work \ Managed, Submit(w) \/ Commit(w) \/ Abandon(w) \/ EndWork(w)
      PROVE  \A c \in Children \cup {Study} : work'[c] = work[c]
  BY <1>1, Members DEF Submit, Commit, Abandon, EndWork, GateTypeOK
<1>2. ASSUME NEW e \in Experiments, NEW j \in Jobs, Spawn(e, j)
      PROVE  \A c \in Children \cup {Study} : work'[c] = work[c]
  BY <1>2, Members DEF Spawn, GateTypeOK
<1>3. ASSUME NEW r \in Readers,
             Begin(r) \/ ReaderStep(r) \/ PublishDataset(r) \/ PaperSyncs(r)
      PROVE  UNCHANGED work
  BY <1>3 DEF Begin, ReaderStep, AcquireShared, Admit, Refuse, EndRead, PublishDataset,
              PaperSyncs, workVars
<1>4. ASSUME NEW u \in Updaters,
             Start(u) \/ WindowStep(u) \/ ScriptEnds(u) \/ Raise(u) \/ Die(u)
      PROVE  UNCHANGED work
  BY <1>4 DEF Start, WindowStep, Drain, FindNoWork, TakeExclusive, BeginUpdate,
              InvalidateMaterializations, InvalidateDatasets, Invalidates, RunScript, QualityPasses,
              Succeed, Fail, Close, ScriptEnds, Raise, Die, workVars
<1> QED
  BY <1>1, <1>2, <1>3, <1>4 DEF GateNext, WorkStep

\* A step of the gate, or of nobody, as the study sees it.
LEMMA GateStepTyped ==
  ASSUME StudyTyped, (GateNext /\ UNCHANGED studyVars) \/ UNCHANGED vars
  PROVE  StudyTyped'
<1>1. GateTypeOK'
  BY NextGateTypeOK, StudyTypedParts DEF vars
<1>2. work'[Study] = work[Study]
  BY GateLeavesStudies, StudyTypedParts DEF vars, gateVars
<1> QED
  BY <1>1, <1>2, StudyTypedParts DEF studyVars, vars, StudyVarsOK, Active, StudyOpen, FollowUpsOwed, Owed

\* The follow-up of c is paid or fails.
LEMMA TriesWrites ==
  ASSUME StudyVarsOK, NEW c \in Children, Owed(c), Paid(c) \/ Retried(c)
  PROVE  /\ tries' \in [Children -> 0 .. MaxTries]
         /\ \A b \in Children : b # c => tries'[b] = tries[b]
<1>1. tries[c] \in 1 .. MaxTries /\ MaxTries \in Nat
  BY TriesAssumption DEF StudyVarsOK, Owed
<1>2. tries[c] - 1 \in 0 .. MaxTries /\ 0 \in 0 .. MaxTries
  BY <1>1
<1> QED
  BY <1>2 DEF StudyVarsOK, Paid, Retried

\* Where the work of the study itself is left alone.
LEMMA StudyWorkKept ==
  ASSUME StudyTyped, study' = study, work'[Study] = work[Study]
  PROVE  Active(Study)' <=> StudyOpen'
BY StudyTypedParts DEF Active, StudyOpen

LEMMA CreatesTyped ==
  ASSUME StudyTyped, CreateStudy \/ CreateDiscovery
  PROVE  StudyTyped'
<1>1. CASE CreateStudy
  <2>1. GateTypeOK'
    BY <1>1, Members, SetWorkType, StudyTypedParts DEF CreateStudy
  <2>2. work'[Study] = "active" /\ study' = "queued"
    BY <1>1, Members, SetWorkDoes DEF CreateStudy
  <2> QED
    BY <1>1, <2>1, <2>2, StudyTypedParts DEF CreateStudy, StudyVarsOK, Active, StudyOpen, FollowUpsOwed, Owed
<1>2. CASE CreateDiscovery
  <2>1. SetWork({Discovery}, "active") \/ UNCHANGED work
    BY <1>2 DEF CreateDiscovery
  <2>2. GateTypeOK'
    BY <1>2, <2>1, Members, SetWorkType, StudyTypedParts DEF CreateDiscovery
  <2>3. work'[Study] = work[Study]
    BY <2>1, Members, SetWorkDoes
  <2>4. StudyVarsOK' /\ FollowUpsOwed'
    BY <1>2, StudyTypedParts DEF CreateDiscovery, StudyVarsOK, FollowUpsOwed, Owed
  <2> QED
    BY <1>2, <2>2, <2>3, <2>4, StudyWorkKept, StudyTypedParts DEF CreateDiscovery
<1> QED
  BY <1>1, <1>2

\* What a child may have to show when it ends.
LEMMA OutcomeWrites ==
  ASSUME StudyVarsOK, NEW c \in Children, NEW o \in Outcomes(c) \cup {"cancelled"},
         outcome' = [outcome EXCEPT ![c] = o]
  PROVE  outcome' \in [Children -> {"none", "evidence", "empty", "cancelled"}]
BY DEF StudyVarsOK, Outcomes

LEMMA EndsTyped ==
  ASSUME StudyTyped, NEW c \in Children, EndChild(c) \/ EndUnheard(c) \/ CancelChild(c)
  PROVE  StudyTyped'
<1>1. SetWork({c}, "ended") \/ UNCHANGED work
  BY DEF EndChild, EndUnheard, CancelChild
<1>2. GateTypeOK'
  BY <1>1, Members, SetWorkType, StudyTypedParts DEF EndChild, EndUnheard, CancelChild
<1>3. work'[Study] = work[Study]
  BY <1>1, Members, SetWorkDoes
<1>4. StudyVarsOK' /\ FollowUpsOwed'
  <2>1. CASE EndChild(c)
    <3>1. PICK n \in 1 .. MaxTries : tries' = [tries EXCEPT ![c] = n]
      BY <2>1 DEF EndChild
    <3>2. n \in 0 .. MaxTries /\ n > 0
      BY TriesAssumption
    <3>3. outcome' \in [Children -> {"none", "evidence", "empty", "cancelled"}]
      BY <2>1, OutcomeWrites, StudyTypedParts DEF EndChild
    <3>4. StudyVarsOK'
      BY <2>1, <3>1, <3>2, <3>3, StudyTypedParts DEF EndChild, StudyVarsOK
    <3>5. FollowUpsOwed'
      BY <2>1, <3>1, <3>2, Members, StudyTypedParts DEF EndChild, StudyVarsOK, FollowUpsOwed, Owed
    <3> QED
      BY <3>4, <3>5
  <2>2. CASE EndUnheard(c)
    <3>1. outcome' \in [Children -> {"none", "evidence", "empty", "cancelled"}]
      BY <2>2, OutcomeWrites, StudyTypedParts DEF EndUnheard
    <3>2. unheard' \in BOOLEAN
      BY <2>2, Zenon DEF EndUnheard
    <3> QED
      BY <2>2, <3>1, <3>2, StudyTypedParts DEF EndUnheard, StudyVarsOK, FollowUpsOwed, Owed
  <2>3. CASE CancelChild(c)
    BY <2>3, StudyTypedParts DEF CancelChild, StudyVarsOK, FollowUpsOwed, Owed
  <2> QED
    BY <2>1, <2>2, <2>3
<1> QED
  BY <1>2, <1>3, <1>4, StudyWorkKept, StudyTypedParts DEF EndChild, EndUnheard, CancelChild

\* The round of the discovery that nobody follows up changes nothing else.
LEMMA WaitTyped ==
  ASSUME StudyTyped, WaitUnheard
  PROVE  StudyTyped'
<1>1. GateTypeOK' /\ work' = work
  BY StudyTypedParts DEF WaitUnheard, gateVars, GateTypeOK
<1>2. StudyVarsOK' /\ FollowUpsOwed'
  BY StudyTypedParts DEF WaitUnheard, StudyVarsOK, FollowUpsOwed, Owed
<1> QED
  BY <1>1, <1>2, StudyWorkKept, StudyTypedParts DEF WaitUnheard

LEMMA ConcludesTyped ==
  ASSUME StudyTyped, NEW c \in Children, Conclude(c) \/ Ignore(c)
  PROVE  StudyTyped'
<1>1. Owed(c) /\ ~Busy(c) /\ Paid(c)
  BY DEF Conclude, Ignore, Advances
<1>2. StudyVarsOK' /\ FollowUpsOwed'
  BY <1>1, TriesWrites, Members, StudyTypedParts
     DEF Conclude, Ignore, Finalize, StudyVarsOK, FollowUpsOwed, Owed, Busy
<1>3. CASE Conclude(c)
  <2>1. GateTypeOK'
    BY <1>3, Members, SetWorkType, StudyTypedParts DEF Conclude, Finalize
  <2>2. work'[Study] = "ended" /\ study' = "done"
    BY <1>3, Members, SetWorkDoes DEF Conclude, Finalize
  <2> QED
    BY <1>2, <2>1, <2>2, StudyTypedParts DEF Active, StudyOpen
<1>4. CASE Ignore(c)
  <2>1. GateTypeOK'
    BY <1>4, Members, SetWorkType, StudyTypedParts DEF Ignore
  <2> QED
    BY <1>2, <1>4, <2>1, StudyWorkKept, StudyTypedParts DEF Ignore
<1> QED
  BY <1>3, <1>4

LEMMA FoldsTyped ==
  ASSUME StudyTyped, LookForFolds \/ StartFolds \/ CreateFold
  PROVE  StudyTyped'
<1>1. CASE LookForFolds
  <2>1. GateTypeOK'
    BY <1>1, Members, SetWorkType, StudyTypedParts DEF LookForFolds
  <2>2. StudyVarsOK' /\ FollowUpsOwed'
    BY <1>1, TriesWrites, Members, StudyTypedParts
       DEF LookForFolds, Advances, Busy, StudyVarsOK, FollowUpsOwed, Owed
  <2> QED
    BY <1>1, <2>1, <2>2, StudyWorkKept, StudyTypedParts DEF LookForFolds
<1>2. CASE StartFolds
  <2>1. SetWork({Study}, "active") \/ UNCHANGED work
    BY <1>2 DEF StartFolds
  <2>2. GateTypeOK'
    BY <1>2, <2>1, Members, SetWorkType, StudyTypedParts DEF StartFolds
  <2>3. StudyVarsOK' /\ FollowUpsOwed'
    BY <1>2, StudyTypedParts DEF StartFolds, StudyVarsOK, FollowUpsOwed, Owed
  <2>4. Active(Study)' <=> StudyOpen'
    <3>1. CASE folding = "queued"
      BY <1>2, <3>1, Members, SetWorkDoes DEF StartFolds, Active, StudyOpen
    <3>2. CASE folding # "queued"
      BY <1>2, <3>2, StudyWorkKept DEF StartFolds
    <3> QED
      BY <3>1, <3>2
  <2> QED
    BY <2>2, <2>3, <2>4, StudyTypedParts
<1>3. CASE CreateFold
  <2>1. (\E a \in Annual : SetWork({a}, "active")) \/ UNCHANGED work
    BY <1>3 DEF CreateFold
  <2>2. GateTypeOK'
    BY <1>3, <2>1, Members, SetWorkType, StudyTypedParts DEF CreateFold
  <2>3. work'[Study] = work[Study]
    BY <2>1, Members, SetWorkDoes
  <2>4. StudyVarsOK' /\ FollowUpsOwed'
    BY <1>3, TriesWrites, Members, StudyTypedParts DEF CreateFold, StudyVarsOK, FollowUpsOwed, Owed
  <2> QED
    BY <1>3, <2>2, <2>3, <2>4, StudyWorkKept, StudyTypedParts DEF CreateFold
<1> QED
  BY <1>1, <1>2, <1>3

LEMMA FinalTyped ==
  ASSUME StudyTyped, NEW a \in Annual, LookForFinal(a) \/ CreateFinal(a)
  PROVE  StudyTyped'
<1>1. SetWork({Final}, "active") \/ UNCHANGED work
  BY DEF LookForFinal, CreateFinal
<1>2. GateTypeOK'
  BY <1>1, Members, SetWorkType, StudyTypedParts DEF LookForFinal, CreateFinal
<1>3. work'[Study] = work[Study]
  BY <1>1, Members, SetWorkDoes
<1>4. CASE LookForFinal(a)
  <2>1. StudyVarsOK' /\ FollowUpsOwed'
    BY <1>4, TriesWrites, Members, StudyTypedParts
       DEF LookForFinal, Advances, Busy, StudyVarsOK, FollowUpsOwed, Owed
  <2> QED
    BY <1>2, <1>3, <1>4, <2>1, StudyWorkKept, StudyTypedParts DEF LookForFinal
<1>5. CASE CreateFinal(a)
  <2>1. Owed(a) /\ (Paid(a) \/ Retried(a)) /\ seen' = seen \ {a}
    BY <1>5, StudyTypedParts DEF CreateFinal, FollowUpsOwed
  <2>2. StudyVarsOK' /\ FollowUpsOwed'
    BY <1>5, <2>1, TriesWrites, Members, StudyTypedParts
       DEF CreateFinal, StudyVarsOK, FollowUpsOwed, Owed
  <2> QED
    BY <1>2, <1>3, <1>5, <2>2, StudyWorkKept, StudyTypedParts DEF CreateFinal
<1> QED
  BY <1>4, <1>5

LEMMA OperatorsTyped ==
  ASSUME StudyTyped, CancelStudy \/ RetryReport
  PROVE  StudyTyped'
<1>1. StudyVarsOK' /\ FollowUpsOwed'
  BY StudyTypedParts DEF CancelStudy, RetryReport, Finalize, StudyVarsOK, FollowUpsOwed, Owed
<1>2. CASE CancelStudy
  <2>1. GateTypeOK' /\ work' = work
    BY <1>2, StudyTypedParts DEF CancelStudy, gateVars, GateTypeOK
  <2>2. Active(Study)' <=> StudyOpen'
    BY <1>2, <2>1, StudyTypedParts DEF CancelStudy, Active, StudyOpen
  <2> QED
    BY <1>1, <2>1, <2>2, StudyTypedParts
<1>3. CASE RetryReport
  <2>1. GateTypeOK'
    BY <1>3, Members, SetWorkType, StudyTypedParts DEF RetryReport, Finalize
  <2>2. work'[Study] = "ended" /\ study' = "done"
    BY <1>3, Members, SetWorkDoes DEF RetryReport, Finalize
  <2> QED
    BY <1>1, <2>1, <2>2, StudyTypedParts DEF Active, StudyOpen
<1> QED
  BY <1>2, <1>3

LEMMA NextStudyTyped ==
  ASSUME StudyTyped, [Next]_vars
  PROVE  StudyTyped'
<1>1. ASSUME NEW c \in Children, FollowUp(c) PROVE StudyTyped'
  BY <1>1, ConcludesTyped, FoldsTyped, FinalTyped DEF FollowUp
<1> QED
  BY <1>1, GateStepTyped, CreatesTyped, EndsTyped, WaitTyped, OperatorsTyped DEF Next, StudyStep

LEMMA InitStudyTyped == Init => StudyTyped
<1> SUFFICES ASSUME Init PROVE StudyTyped
  OBVIOUS
<1>1. GateTypeOK
  BY InitGateTypeOK DEF Init
<1>2. StudyVarsOK /\ FollowUpsOwed
  <2>1. 0 \in 0 .. MaxTries
    BY TriesAssumption
  <2>2. tries \in [Children -> 0 .. MaxTries]
    BY <2>1 DEF Init
  <2> QED
    BY <2>2 DEF Init, StudyVarsOK, FollowUpsOwed, Owed
<1>3. Active(Study) <=> StudyOpen
  BY Members DEF Init, GateInit, Active, StudyOpen
<1> QED
  BY <1>1, <1>2, <1>3, StudyTypedParts

\* Every variable has the shape the code gives it, and the gate counts the parent
\* as active work exactly while it is open: a study is never ended behind the
\* gate's back, nor waited for when it has ended.
THEOREM StudyTypesKept == Spec => []StudyTypeOK
<1>1. StudyTyped => StudyTypeOK
  BY DEF StudyTyped
<1>2. StudyTyped /\ [Next]_vars => StudyTyped'
  BY NextStudyTyped
<1> QED
  BY InitStudyTyped, <1>1, <1>2, PTL DEF Spec

-----------------------------------------------------------------------------
(* The stages. Nothing is assumed about the gate, nor about operators who    *)
(* retry a report early.                                                     *)

FoldsDone == \A a \in Annual : Ended(a) /\ outcome[a] # "cancelled"
HasChampion == Ended(Discovery) /\ outcome[Discovery] = "evidence"

\* What a follow-up may assume after its first reads, and who is there when.
StageInv ==
  /\ StagesInOrder
  /\ seen # {} => FoldsDone
  /\ folding # "no" => HasChampion
  /\ folding \in {"queued", "running"} => \A a \in Annual : ~Exists(a)
  /\ creating => ~Exists(Discovery)
  /\ study = "none" => ~creating /\ \A c \in Children : ~Exists(c)
  /\ \A c \in Children : Owed(c) => Ended(c)

\* An ended child stays as it ended.
LEMMA EndedStay ==
  ASSUME StageInv,
         \A c \in Children : Ended(c) => Ended(c)' /\ outcome'[c] = outcome[c]
  PROVE  (FoldsDone => FoldsDone') /\ (HasChampion => HasChampion')
BY Members DEF FoldsDone, HasChampion

\* Nothing of the study but its status and the work of its parent changes.
LEMMA StagesKept ==
  ASSUME StageInv, \A c \in Children : work'[c] = work[c],
         UNCHANGED <<creating, seen, outcome>>,
         \A c \in Children : Owed(c)' => Owed(c),
         study' = "none" => study = "none",
         folding' # "no" => folding # "no",
         folding' \in {"queued", "running"} => folding' = folding
  PROVE  StageInv'
BY Members DEF StageInv, StagesInOrder, FoldsDone, HasChampion, Exists, Ended

LEMMA NextStages ==
  ASSUME StudyTyped, StageInv, [Next]_vars
  PROVE  StageInv'
<1> USE Members
<1>0. StudyVarsOK /\ GateTypeOK /\ FollowUpsOwed
  BY StudyTypedParts
<1>1. CASE (GateNext /\ UNCHANGED studyVars) \/ UNCHANGED vars
  <2>1. \A c \in Children : work'[c] = work[c]
    BY <1>0, <1>1, GateLeavesStudies DEF vars, gateVars
  <2> QED
    BY <1>1, <2>1, StagesKept DEF studyVars, vars, Owed
<1>2. CASE CreateStudy
  <2>1. \A c \in Children : work'[c] = work[c]
    BY <1>2, SetWorkDoes DEF CreateStudy
  <2> QED
    BY <1>2, <2>1 DEF CreateStudy, StageInv, StagesInOrder, FoldsDone, HasChampion, Exists, Ended, Owed
<1>3. CASE CreateDiscovery
  <2>1. \A c \in Children : c # Discovery => work'[c] = work[c]
    BY <1>3, SetWorkDoes DEF CreateDiscovery
  <2>2. ~Exists(Discovery) /\ ~Ended(Discovery) /\ study # "none"
    BY <1>3 DEF CreateDiscovery, StageInv, Exists, Ended
  <2>3. (\A a \in Annual : ~Exists(a)) /\ folding = "no" /\ ~Owed(Discovery)
    BY <2>2 DEF StageInv, StagesInOrder, HasChampion
  <2> QED
    BY <1>3, <2>1, <2>2, <2>3
       DEF CreateDiscovery, StageInv, StagesInOrder, FoldsDone, Exists, Ended, Owed
<1>4. ASSUME NEW c \in Children, EndChild(c) PROVE StageInv'
  <2>1. /\ work'[c] = "ended" /\ work[c] = "active"
        /\ \A b \in Children : b # c => work'[b] = work[b] /\ outcome'[b] = outcome[b] /\ tries'[b] = tries[b]
    BY <1>0, <1>4, SetWorkDoes DEF EndChild, Active, StudyVarsOK
  <2>2. ~Ended(c) /\ Exists(c)
    BY <2>1 DEF Ended, Exists
  <2>3. (FoldsDone => FoldsDone') /\ (HasChampion => HasChampion')
    BY <2>1, <2>2, EndedStay DEF Ended
  <2>4. \A b \in Children : /\ Exists(b)' <=> Exists(b)
                            /\ Owed(b)' => Ended(b)'
    BY <2>1 DEF Exists, Owed, Ended, StageInv
  <2>5. StagesInOrder'
    BY <2>3, <2>4 DEF StageInv, StagesInOrder, FoldsDone, HasChampion
  <2> QED
    BY <1>4, <2>3, <2>4, <2>5 DEF EndChild, StageInv
<1>5. ASSUME NEW c \in Children, CancelChild(c) \/ EndUnheard(c) PROVE StageInv'
  <2>1. \/ UNCHANGED <<work, outcome>>
        \/ /\ work'[c] = "ended" /\ work[c] = "active"
           /\ \A b \in Children : b # c => work'[b] = work[b] /\ outcome'[b] = outcome[b]
    BY <1>0, <1>5, SetWorkDoes DEF CancelChild, EndUnheard, Active, StudyVarsOK
  <2>2. \A b \in Children : /\ Ended(b) => Ended(b)' /\ outcome'[b] = outcome[b]
                            /\ Exists(b)' <=> Exists(b)
    BY <2>1 DEF Ended, Exists
  <2>3. (FoldsDone => FoldsDone') /\ (HasChampion => HasChampion')
    BY <2>2, EndedStay
  <2>4. StagesInOrder'
    BY <2>2, <2>3 DEF StageInv, StagesInOrder, FoldsDone, HasChampion
  <2> QED
    BY <1>5, <2>2, <2>3, <2>4 DEF CancelChild, EndUnheard, StageInv, Owed
<1>6. ASSUME NEW c \in Children, Conclude(c) \/ Ignore(c) PROVE StageInv'
  <2>1. \A b \in Children : work'[b] = work[b]
    BY <1>6, SetWorkDoes DEF Conclude, Ignore, Finalize
  <2>2. \A b \in Children : Owed(b)' => Owed(b)
    BY <1>0, <1>6, TriesWrites DEF Conclude, Ignore, Advances, Paid, StudyVarsOK, Owed
  <2> QED
    BY <1>6, <2>1, <2>2, StagesKept DEF Conclude, Ignore, Finalize
<1>7. CASE LookForFolds
  <2>1. \A b \in Children : Owed(b)' => Owed(b)
    BY <1>0, <1>7 DEF LookForFolds, Paid, StudyVarsOK, Owed
  <2>2. Owed(Discovery) /\ Ended(Discovery)
    BY <1>7 DEF LookForFolds, Advances, StageInv
  <2>3. UNCHANGED <<work, study, creating, seen, outcome>>
    BY <1>7 DEF LookForFolds
  <2>4. CASE \E a \in Annual : Exists(a)
    BY <1>7, <2>1, <2>3, <2>4, StagesKept DEF LookForFolds
  <2>5. CASE ~\E a \in Annual : Exists(a)
    <3>1. outcome[Discovery] = "evidence"
      BY <1>7, <2>5 DEF LookForFolds
    <3> QED
      BY <2>1, <2>2, <2>3, <2>5, <3>1 DEF StageInv, StagesInOrder, FoldsDone, HasChampion, Exists, Ended
  <2> QED
    BY <2>4, <2>5
<1>8. CASE StartFolds
  <2>1. \A b \in Children : work'[b] = work[b]
    BY <1>8, SetWorkDoes DEF StartFolds
  <2> QED
    BY <1>8, <2>1, StagesKept DEF StartFolds, Owed
<1>9. CASE CreateFold
  <2>1. HasChampion /\ UNCHANGED <<study, creating, seen, outcome>>
    BY <1>9 DEF CreateFold, StageInv
  <2>2. \A b \in Children : Owed(b)' => Owed(b)
    BY <1>0, <1>9, TriesWrites DEF CreateFold, FollowUpsOwed, Owed
  <2>3. CASE UNCHANGED work
    BY <1>9, <2>1, <2>2, <2>3, StagesKept DEF CreateFold
  <2>4. ASSUME NEW a \in Annual, ~Exists(a), SetWork({a}, "active"), UNCHANGED folding PROVE StageInv'
    <3>1. work'[a] = "active" /\ \A b \in Children : b # a => work'[b] = work[b]
      BY <2>4, SetWorkDoes
    <3>2. ~FoldsDone /\ ~Exists(Final)
      BY <2>4 DEF FoldsDone, StageInv, StagesInOrder, Exists, Ended
    <3>3. folding = "looping" /\ folding' = "looping"
      BY <1>9, <2>4 DEF CreateFold
    <3>4. HasChampion'
      BY <2>1, <3>1 DEF HasChampion, Ended
    <3>5. \A b \in Children : /\ Owed(b)' => Ended(b)'
                              /\ b # a => (Exists(b)' <=> Exists(b))
      BY <2>2, <2>4, <3>1 DEF StageInv, Exists, Ended
    <3>6. StagesInOrder'
      BY <3>2, <3>4, <3>5 DEF StagesInOrder, HasChampion
    <3>7. ~creating /\ study # "none"
      BY <2>1 DEF StageInv, HasChampion, Exists, Ended
    <3> QED
      BY <2>1, <3>2, <3>3, <3>4, <3>5, <3>6, <3>7 DEF StageInv
  <2> QED
    BY <1>9, <2>3, <2>4 DEF CreateFold
<1>10. ASSUME NEW a \in Annual, LookForFinal(a) PROVE StageInv'
  <2>1. UNCHANGED <<work, study, creating, folding, outcome>>
    BY <1>10 DEF LookForFinal
  <2>2. \A b \in Children : Owed(b)' => Owed(b)
    BY <1>0, <1>10 DEF LookForFinal, Paid, StudyVarsOK, Owed
  <2>3. seen' = seen \/ FoldsDone
    BY <1>10 DEF LookForFinal, FoldsDone
  <2> QED
    BY <2>1, <2>2, <2>3 DEF StageInv, StagesInOrder, FoldsDone, HasChampion, Exists, Ended
<1>11. ASSUME NEW a \in Annual, CreateFinal(a) PROVE StageInv'
  <2>1. FoldsDone /\ UNCHANGED <<study, creating, folding, outcome>> /\ seen' \subseteq seen
    BY <1>11 DEF CreateFinal, StageInv
  <2>2. \A b \in Children : Owed(b)' => Owed(b)
    BY <1>0, <1>11, TriesWrites DEF CreateFinal, FollowUpsOwed, Owed
  <2>3. CASE UNCHANGED work
    BY <2>1, <2>2, <2>3 DEF StageInv, StagesInOrder, FoldsDone, HasChampion, Exists, Ended
  <2>4. CASE ~Exists(Final) /\ SetWork({Final}, "active")
    <3>1. work'[Final] = "active" /\ \A b \in Children : b # Final => work'[b] = work[b]
      BY <2>4, SetWorkDoes
    <3>2. FoldsDone'
      BY <2>1, <3>1 DEF FoldsDone, Ended
    <3>3. \A b \in Children : Owed(b)' => Ended(b)'
      BY <2>2, <2>4, <3>1 DEF StageInv, Exists, Ended
    <3>4. study # "none"
      BY <2>1, StudyAssumption DEF StageInv, FoldsDone, Exists, Ended
    <3> QED
      BY <2>1, <3>1, <3>2, <3>3, <3>4 DEF StageInv, StagesInOrder, FoldsDone, HasChampion, Exists, Ended
  <2> QED
    BY <1>11, <2>3, <2>4 DEF CreateFinal
<1>12. CASE CancelStudy \/ RetryReport
  <2>1. \A b \in Children : work'[b] = work[b]
    BY <1>12, SetWorkDoes DEF CancelStudy, RetryReport, Finalize, gateVars
  <2> QED
    BY <1>12, <2>1, StagesKept DEF CancelStudy, RetryReport, Finalize, Owed
<1>13. CASE WaitUnheard
  BY <1>13, StagesKept DEF WaitUnheard, gateVars, Owed
<1> QED
  BY <1>1, <1>2, <1>3, <1>4, <1>5, <1>6, <1>7, <1>8, <1>9, <1>10, <1>11, <1>12, <1>13
     DEF Next, StudyStep, FollowUp

LEMMA InitStages == Init => StageInv
BY Members DEF Init, GateInit, StageInv, StagesInOrder, Exists, Ended, Owed, FoldsDone, HasChampion

\* advance_effectiveness_study: the sealed holdout is opened only on the evidence
\* of every annual fold and the folds only on that of the discovery, whichever
\* follow-ups race, are repeated, or refused by the gate.
THEOREM StagesStayInOrder == Spec => []StagesInOrder
<1>1. StageInv => StagesInOrder
  BY DEF StageInv
<1>2. StudyTyped /\ StageInv /\ [Next]_vars => (StudyTyped /\ StageInv)'
  BY NextStudyTyped, NextStages
<1> QED
  BY InitStudyTyped, InitStages, <1>1, <1>2, PTL DEF Spec

-----------------------------------------------------------------------------
(* One version of the data, where a report is retried only after the study.  *)

\* A follow-up that has read the parent brings back nothing.
ParentInv == folding \in {"queued", "running"} => StudyOpen

LEMMA NextParent ==
  ASSUME ~EarlyReports, StudyTyped, StageInv, ParentInv, [Next]_vars
  PROVE  ParentInv'
<1>1. ASSUME folding \in {"queued", "running"}, NEW c \in Children, Owed(c) PROVE c = Discovery
  <2>1. Ended(c) /\ \A a \in Annual : ~Exists(a)
    BY <1>1 DEF StageInv
  <2>2. ~Exists(Final)
    BY <2>1, StudyAssumption DEF StageInv, StagesInOrder, Exists, Ended
  <2> QED
    BY <2>1, <2>2 DEF Children, Exists, Ended
<1>2. ASSUME NEW c \in Children, Conclude(c) \/ Ignore(c) PROVE ParentInv'
  <2>1. Owed(c) /\ ~Busy(c) /\ UNCHANGED folding
    BY <1>2 DEF Conclude, Ignore, Advances
  <2> QED
    BY <1>1, <2>1 DEF ParentInv, Busy
<1>3. CASE RetryReport
  BY <1>3 DEF RetryReport, ParentInv, StudyOpen
<1>4. CASE LookForFolds \/ StartFolds \/ CreateFold
  BY <1>4 DEF LookForFolds, StartFolds, CreateFold, Advances, ParentInv, StudyOpen
<1>5. ASSUME NEW c \in Children, EndChild(c) \/ EndUnheard(c) \/ CancelChild(c)
      PROVE  ParentInv'
  BY <1>5 DEF EndChild, EndUnheard, CancelChild, ParentInv, StudyOpen
<1>6. ASSUME NEW a \in Annual, LookForFinal(a) \/ CreateFinal(a) PROVE ParentInv'
  BY <1>6 DEF LookForFinal, CreateFinal, ParentInv, StudyOpen
<1>7. CASE CreateStudy \/ CreateDiscovery \/ CancelStudy \/ WaitUnheard
  BY <1>7 DEF CreateStudy, CreateDiscovery, CancelStudy, WaitUnheard, ParentInv, StudyOpen
<1>8. CASE UNCHANGED studyVars
  BY <1>8 DEF studyVars, ParentInv, StudyOpen
<1> QED
  BY <1>2, <1>3, <1>4, <1>5, <1>6, <1>7, <1>8 DEF Next, StudyStep, FollowUp, vars

\* Work of the study comes only through an open gate.
LEMMA DrainWork ==
  ASSUME DrainInv, UNCHANGED gateRest,
         Open \/ \A w \in Work : work'[w] \in {work[w], "ended"}
  PROVE  DrainInv'
<1>1. UNCHANGED <<gate, updater>>
  BY DEF gateRest
<1>2. CASE Open
  BY <1>1, <1>2 DEF DrainInv, DrainIsComplete, Open, Owns
<1>3. CASE \A w \in Work : work'[w] \in {work[w], "ended"}
  <2>1. (RowFree => RowFree') /\ (Quiet => Quiet')
    BY <1>3 DEF RowFree, Quiet
  <2> QED
    BY <1>1, <2>1 DEF DrainInv, DrainIsComplete, Quiet, Open, Owns
<1> QED
  BY <1>2, <1>3

LEMMA NextStudyDrain ==
  ASSUME StudyTyped, ParentInv, DrainInv, [Next]_vars
  PROVE  DrainInv'
<1> USE Members
<1>1. CASE (GateNext /\ UNCHANGED studyVars) \/ UNCHANGED vars
  BY <1>1, NextDrainInv, StudyTypedParts DEF vars
<1>2. CASE CreateStudy \/ CreateDiscovery
  BY <1>2, DrainWork DEF CreateStudy, CreateDiscovery
<1>3. ASSUME NEW c \in Children,
             EndChild(c) \/ EndUnheard(c) \/ CancelChild(c) \/ Conclude(c) \/ Ignore(c)
      PROVE  DrainInv'
  <2>1. \A w \in Work : work'[w] \in {work[w], "ended"}
    BY <1>3, SetWorkDoes DEF EndChild, EndUnheard, CancelChild, Conclude, Ignore, Finalize
  <2> QED
    BY <1>3, <2>1, DrainWork DEF EndChild, EndUnheard, CancelChild, Conclude, Ignore
<1>4. CASE StartFolds
  <2>1. folding = "queued" => work[Study] = "active"
    BY <1>4, StudyTypedParts DEF ParentInv, Active
  <2>2. \A w \in Work : work'[w] = work[w]
    BY <1>4, <2>1, SetWorkDoes DEF StartFolds
  <2> QED
    BY <1>4, <2>2, DrainWork DEF StartFolds
<1>5. ASSUME NEW a \in Annual, LookForFolds \/ CreateFold \/ LookForFinal(a) \/ CreateFinal(a)
      PROVE  DrainInv'
  <2>1. UNCHANGED gateRest /\ (Open \/ UNCHANGED work)
    BY <1>5 DEF LookForFolds, CreateFold, LookForFinal, CreateFinal
  <2> QED
    BY <2>1, DrainWork
<1>6. CASE CancelStudy \/ WaitUnheard
  BY <1>6, DrainWork DEF CancelStudy, WaitUnheard, gateVars, gateRest, lockVars, dataVars
<1>7. CASE RetryReport
  <2>1. \A w \in Work : work'[w] \in {work[w], "ended"}
    BY <1>7, SetWorkDoes DEF RetryReport, Finalize
  <2> QED
    BY <1>7, <2>1, DrainWork DEF RetryReport
<1>8. \E a : a \in Annual
  BY StudyAssumption
<1> QED
  BY <1>1, <1>2, <1>3, <1>4, <1>5, <1>6, <1>7, <1>8 DEF Next, StudyStep, FollowUp

\* The source tables are written from an update that found nothing under way.
LEMMA WritesFindNoStudy ==
  ASSUME StudyTyped, DrainInv, [Next]_vars, version' # version
  PROVE  ~StudyOpen
<1>1. \E u \in Updaters : Owns(u, "updating")
  <2>1. GateNext
    BY DEF Next, StudyStep, FollowUp, CreateStudy, CreateDiscovery, EndChild, EndUnheard,
           WaitUnheard, Conclude, Ignore,
           LookForFolds, StartFolds, CreateFold, LookForFinal, CreateFinal, CancelChild, CancelStudy,
           RetryReport, gateRest, gateVars, dataVars, vars
  <2>2. ~WorkStep
    BY WorkFrame
  <2>3. ASSUME NEW r \in Readers PROVE ~(Begin(r) \/ ReaderStep(r) \/ PublishDataset(r) \/ PaperSyncs(r))
    BY DEF Begin, ReaderStep, AcquireShared, Admit, Refuse, EndRead, PublishDataset, PaperSyncs, dataVars
  <2>4. ASSUME NEW u \in Updaters, Start(u) \/ WindowStep(u) \/ ScriptEnds(u) \/ Raise(u) \/ Die(u)
        PROVE  Owns(u, "updating")
    BY <2>4 DEF Start, WindowStep, Drain, FindNoWork, TakeExclusive, BeginUpdate,
                InvalidateMaterializations, InvalidateDatasets, Invalidates, RunScript, QualityPasses,
                Succeed, Fail, Close, ScriptEnds, Raise, Die, dataVars
  <2> QED
    BY <2>1, <2>2, <2>3, <2>4 DEF GateNext
<1>2. gate.status = "updating"
  BY <1>1 DEF Owns
<1>3. ~Active(Study)
  BY <1>2, Members DEF DrainInv, DrainIsComplete, Active
<1> QED
  BY <1>3, StudyTypedParts

StudyDrainInv == StudyTyped /\ StageInv /\ ParentInv /\ DrainInv

LEMMA StudyDrainAlways == ASSUME ~EarlyReports PROVE Spec => []StudyDrainInv
<1>1. Init => StudyDrainInv
  BY InitStudyTyped, InitStages, InitDrainInv DEF Init, ParentInv, StudyDrainInv
<1>2. StudyDrainInv /\ [Next]_vars => StudyDrainInv'
  BY NextStudyTyped, NextStages, NextParent, NextStudyDrain DEF StudyDrainInv
<1> QED
  BY <1>1, <1>2, PTL DEF Spec

\* What DrainsCompletely says of the gate alone holds with a study under way, whose
\* folds and final holdout are created by follow-ups at any time: once the row says
\* updating no experiment of the study is left, nor comes.
THEOREM DrainsWaitForStudies == ASSUME ~EarlyReports PROVE Spec => []DrainIsComplete
<1>1. StudyDrainInv => DrainIsComplete
  BY DEF StudyDrainInv, DrainInv
<1> QED
  BY StudyDrainAlways, <1>1, PTL

\* research-experiments.md: the update waits for the entire experiment. A study
\* sees one version of the market data from its first child to its last, if nobody
\* retries the report of a study that has not ended.
THEOREM StudiesSeeOneVersion == ASSUME ~EarlyReports PROVE Spec => StudySeesOneVersion
<1>1. StudyDrainInv /\ [Next]_vars => [version' # version => ~StudyOpen]_vars
  BY WritesFindNoStudy DEF StudyDrainInv
<1> QED
  BY StudyDrainAlways, <1>1, PTL DEF Spec, StudySeesOneVersion
====

---------------------------- MODULE BacktestRuns ----------------------------
(***************************************************************************)
(* run_backtest (backtest_engine.py) from the row of the run to its last   *)
(* commit, over PreparedDatasets, and the support/resistance               *)
(* materialization that runs with the same detector share                  *)
(* (support_resistance_persistence_service.py).                            *)
(*                                                                         *)
(* What a run writes after the pipeline is closed is one transaction. Of   *)
(* the materialization the committed row is a variable; a transaction that *)
(* builds one shows in its program counter, in the advisory lock it holds  *)
(* until it ends and in the live row it has inserted.                      *)
(***************************************************************************)
EXTENDS PreparedDatasets

CONSTANT Papers   \* paper runs that persist the same materialization

ASSUME PapersAssumption == NoRun \notin Papers /\ Papers \cap Runs = {}

VARIABLES
  status,     \* of the row of each run
  live,       \* the live materialization: none, failed or completed
  keyLock,    \* who holds the advisory lock of its cache key
  inserting,  \* who has inserted a live row and not committed it
  built,      \* the transaction has built the materialization
  stale,      \* whose session has loaded the row as failed
  made,       \* who has committed a materialization it has built
  paper,      \* program counter of each paper run
  recorded    \* a paper run has inserted the record of its failure

buildVars == <<live, keyLock, inserting, built, stale, made>>
runVars   == <<status, buildVars, paper, recorded>>
vars      == <<dataVars, runVars>>

Builders == Runs \cup Papers

-----------------------------------------------------------------------------
\* The row is committed running before anything is read.
Begin(r) ==
  /\ main[r] = "idle"
  /\ status' = Set(status, r, "running") /\ MainGo(r, "preflight")
  /\ UNCHANGED <<cacheVars, threadVars, pipeVars, hand, taken, verdict, crashes, halfway,
                 buildVars, paper, recorded>>

mainRest == <<cacheVars, threadVars, pipeVars, hand, taken, crashes, halfway>>

\* The transaction goes on, or the run raises out of it.
Proceeds(r, pc) == MainGo(r, pc) /\ UNCHANGED verdict
Aborts(r) == verdict' = Set(verdict, r, "raised") /\ MainGo(r, "aborting")

\* The job may be cancelled and persist_native_result may fail; an exception
\* passed close() on its way out.
WriteDetails(r) ==
  /\ main[r] = "closed"
  /\ \/ verdict[r] = "done" /\ Proceeds(r, "seeking")
     \/ Aborts(r)
  /\ UNCHANGED <<mainRest, runVars>>

-----------------------------------------------------------------------------
(* persist_support_resistance_run, for a backtest and for a paper run.      *)

\* Where the transaction of b stands.
Stands(b) == IF b \in Runs THEN main[b] ELSE paper[b]
Moves(b, pc) ==
  IF b \in Runs THEN Proceeds(b, pc) /\ UNCHANGED paper
                ELSE paper' = Set(paper, b, pc) /\ UNCHANGED <<main, verdict>>

\* A completed materialization is reused without the lock. Any other row of the key is
\* loaded as well, and stays in the session.
Seek(b) ==
  /\ Stands(b) = "seeking"
  /\ Moves(b, IF live = "completed" THEN "attaching" ELSE "locking")
  /\ stale' = IF live = "failed" THEN stale \cup {b} ELSE stale
  /\ UNCHANGED <<mainRest, status, live, keyLock, inserting, built, made, recorded>>

LockKey(b) ==
  /\ Stands(b) = "locking" /\ keyLock = NoRun
  /\ keyLock' = b /\ Moves(b, "looking")
  /\ UNCHANGED <<mainRest, status, live, inserting, built, stale, made, recorded>>

\* Fault: under the lock a row that is there is taken for one that failed.
LookBlind(b) ==
  /\ Stands(b) = "looking"
  /\ Moves(b, IF live = "none" THEN "inserting" ELSE "building")
  /\ UNCHANGED <<mainRest, status, buildVars, recorded>>

\* Under the lock it is looked for again; a failed one is emptied and rebuilt. A row the
\* session has loaded is not read again: what was failed before the lock counts as
\* failed under it, whatever has become of it.
Look(b) ==
  /\ Stands(b) = "looking"
  /\ Moves(b, CASE live = "none" -> "inserting"
                [] live = "failed" \/ (live = "completed" /\ b \in stale) -> "building"
                [] live = "completed" /\ b \notin stale -> "attaching")
  /\ UNCHANGED <<mainRest, status, buildVars, recorded>>

\* A partial unique index admits one live row of the key: an INSERT waits for
\* the transaction that has inserted one, and clashes with it if that commits.
InsertRow(b) ==
  /\ Stands(b) = "inserting" /\ inserting = NoRun
  /\ IF live = "none" THEN inserting' = b /\ Moves(b, "building")
                      ELSE Moves(b, "clashed") /\ UNCHANGED inserting
  /\ UNCHANGED <<mainRest, status, live, keyLock, built, stale, made, recorded>>

Raised(b) ==
  IF b \in Runs THEN Aborts(b) /\ UNCHANGED paper
                ELSE paper' = Set(paper, b, "aborting") /\ UNCHANGED <<main, verdict>>

Clash(b) ==
  /\ Stands(b) = "clashed"
  /\ Raised(b)
  /\ UNCHANGED <<mainRest, status, buildVars, recorded>>

\* What raises while the rows are written is a SupportResistanceMaterializationBuildError,
\* which only paper trading looks at.
BuildRaised(b) ==
  IF b \in Runs THEN Raised(b)
                ELSE paper' = Set(paper, b, "failing") /\ UNCHANGED <<main, verdict>>

\* Zones, regimes and events in batches, then the status.
Build(b) ==
  /\ Stands(b) = "building"
  /\ \/ built' = built \cup {b} /\ Moves(b, "attaching")
     \/ BuildRaised(b) /\ UNCHANGED built
  /\ UNCHANGED <<mainRest, status, live, keyLock, inserting, stale, made, recorded>>

\* _replace_run_audit_rows: the run's link and its events.
Attach(b) ==
  /\ Stands(b) = "attaching"
  /\ \/ Moves(b, "committing")
     \/ IF b \in built THEN BuildRaised(b) ELSE Raised(b)
  /\ UNCHANGED <<mainRest, status, buildVars, recorded>>

\* The end of a transaction, either way.
Release(b) ==
  /\ keyLock' = IF keyLock = b THEN NoRun ELSE keyLock
  /\ inserting' = IF inserting = b THEN NoRun ELSE inserting
  /\ built' = built \ {b}

StatusOf(b, s) == status' = IF b \in Runs THEN Set(status, b, s) ELSE status

Commit(b) ==
  /\ Stands(b) = "committing"
  /\ IF b \in built THEN live' = "completed" /\ made' = made \cup {b}
                     ELSE UNCHANGED <<live, made>>
  /\ Release(b) /\ StatusOf(b, "completed") /\ Moves(b, "over")
  /\ UNCHANGED <<mainRest, stale, recorded>>

\* Rollback, then the status of the run in a transaction of its own.
Abort(b) ==
  /\ Stands(b) = "aborting"
  /\ Release(b) /\ StatusOf(b, "failed") /\ Moves(b, "over")
  /\ UNCHANGED <<mainRest, live, stale, made, recorded>>

-----------------------------------------------------------------------------
(* record_failed_materialization_after_rollback, without the advisory lock. *)

PaperGo(p, pc) == paper' = Set(paper, p, pc)

RollBack(p) ==
  /\ paper[p] = "failing"
  /\ Release(p) /\ PaperGo(p, "recording")
  /\ UNCHANGED <<dataVars, status, live, stale, made, recorded>>

\* A row that is completed or failed keeps its status.
Record(p) ==
  /\ paper[p] = "recording"
  /\ PaperGo(p, IF live = "none" THEN "noting" ELSE "over")
  /\ UNCHANGED <<dataVars, status, buildVars, recorded>>

\* If the INSERT clashes the record is given up.
NoteInsert(p) ==
  /\ paper[p] = "noting" /\ inserting = NoRun
  /\ IF live = "none" THEN inserting' = p /\ PaperGo(p, "noted")
                      ELSE PaperGo(p, "over") /\ UNCHANGED inserting
  /\ UNCHANGED <<dataVars, status, live, keyLock, built, stale, made, recorded>>

NoteCommit(p) ==
  /\ paper[p] = "noted"
  /\ live' = "failed" /\ recorded' = TRUE /\ PaperGo(p, "over")
  /\ Release(p)
  /\ UNCHANGED <<dataVars, status, stale, made>>

-----------------------------------------------------------------------------
\* The row stays running; what becomes of its job is BacktestJobs.
Crash(r) ==
  /\ main[r] \notin {"idle", "over", "killed"}
  /\ Vanish(r) /\ MainGo(r, "killed") /\ Release(r)
  /\ UNCHANGED <<status, live, stale, made, paper, recorded>>

Init ==
  /\ DataInit
  /\ status = [r \in Runs |-> "none"]
  /\ live = "none" /\ keyLock = NoRun /\ inserting = NoRun /\ built = {}
  /\ stale = {} /\ made = {}
  /\ paper = [p \in Papers |-> "seeking"] /\ recorded = FALSE

Persist(b) ==
  \/ Seek(b) \/ LockKey(b) \/ Look(b) \/ InsertRow(b) \/ Clash(b)
  \/ Build(b) \/ Attach(b) \/ Commit(b) \/ Abort(b)

MainStep(r) ==
  \/ Begin(r) \/ (ConsumerStep(r) /\ UNCHANGED runVars)
  \/ WriteDetails(r) \/ Persist(r)

ThreadStep(r) == ProducerStep(r) /\ UNCHANGED runVars

PaperStep(p) == Persist(p) \/ RollBack(p) \/ Record(p) \/ NoteInsert(p) \/ NoteCommit(p)

\* When all is over.
Rest ==
  /\ \A r \in Runs : main[r] \in {"over", "killed"}
  /\ \A p \in Papers : paper[p] = "over"
  /\ UNCHANGED vars

Next ==
  \/ \E r \in Runs : MainStep(r) \/ ThreadStep(r) \/ Crash(r)
  \/ \E p \in Papers : PaperStep(p)
  \/ Rest

Spec == Init /\ [][Next]_vars

-----------------------------------------------------------------------------
(* Properties.                                                              *)

\* A run that goes on to store its result has computed on every chunk of its
\* window that has rows, each once and in order, and on each with its split
\* adjustments: no error of the producer, no early end and no entry rebuilt by
\* another process is taken for the whole window. The splits are not sure once kills
\* have left two entries torn, or one removed and not replaced: a run that had
\* counted on both may rebuild one of them without having read the splits.
WholeResult ==
  \A r \in Runs : verdict[r] = "done" =>
    /\ {taken[r][i].chunk : i \in DOMAIN taken[r]} = Chunks \ Empty
    /\ \A i, j \in DOMAIN taken[r] : i < j => taken[r][i].chunk < taken[r][j].chunk
    /\ halfway \/ \A i \in DOMAIN taken[r] : taken[r][i].sidecar = "full"

\* A chunk is mapped as long as the kernel reads it, and a run that has left the
\* pipeline, however it left, has no thread, no item and no mapping behind it.
AllClosed ==
  \A r \in Runs :
    /\ main[r] = "computing" => hand[r].chunk \in mapped[r]
    /\ main[r] \in {"closed", "seeking", "committing", "aborting", "over"} =>
         producer[r] = "dead" /\ queue[r] = <<>> /\ mapped[r] = {}

\* Backtests and paper runs that need the same materialization share it: none fails
\* on the row of another, but for the record of a failure.
BuildersShare == \A b \in Builders : Stands(b) = "clashed" => recorded

\* What a run computes on is whole while it is used, and gone afterwards.
RunsAreWhole == WholeResult /\ AllClosed

\* A completed run is attached to a completed materialization, and no failure of
\* another run takes that back.
AttachedIsCompleted == (\E r \in Runs : status[r] = "completed") => live = "completed"

\* Who waits for the lock of the key finds what its holder has built: two transactions
\* build the materialization only if a failure was recorded and one of them had loaded
\* the row while it was failed.
OneBuilds == \A a, b \in made : a # b => recorded /\ (a \in stale \/ b \in stale)

\* The materialization of a key is built once but for those rows, shared, and never taken
\* back.
BuiltOnce == OneBuilds /\ BuildersShare /\ AttachedIsCompleted
=============================================================================

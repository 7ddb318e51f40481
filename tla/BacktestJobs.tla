---------------------------- MODULE BacktestJobs ----------------------------
(***************************************************************************)
(* The durable backtest queue of backtest_job_service.py: rows of          *)
(* backtest_jobs (one per StrategyRun), claimed under a lease by the pool   *)
(* children of worker coordinators, swept back when the lease runs out,     *)
(* cancelled by API clients, retried and deleted.                           *)
(*                                                                         *)
(* The database runs at READ COMMITTED and the sessions read a row, decide, *)
(* and write at commit only the columns they changed, WHERE id = ... and    *)
(* nothing else.  A handler that does not lock what it reads is therefore   *)
(* two steps here, a read that takes a snapshot and a write that flushes    *)
(* the difference; a handler that reads FOR UPDATE is one step.             *)
(***************************************************************************)
EXTENDS Naturals

CONSTANTS
  Jobs,          \* backtest_jobs rows and, by the unique run_id, their StrategyRuns
  Source,        \* [Jobs -> {"manual", "research", "verification"}]
  MaxAttempts,   \* max_attempts of every job
  Coordinators,  \* worker ids (hostname:pid of a worker coordinator)
  Children,      \* slots of the process pools
  Coordinator,   \* [Children -> Coordinators]: the worker id a child runs under
  Sweepers,      \* sessions that may be in recover_expired_jobs at once
  Clients,       \* API requests that may be in request_backtest_cancel at once
  NoJob, NoWorker,
  Interleaved,   \* TRUE: transactions interleave as READ COMMITTED lets them
                 \* FALSE: as if every handler locked the rows it reads
  LateChildren,  \* TRUE: a lease may run out under a child that is still alive
  MaxLate,       \* bound on the leases lost under a live child
  MaxCrashes     \* bound on the crashes of coordinators

Sources == {"manual", "research", "verification"}

ASSUME BudgetAssumption == MaxAttempts \in Nat /\ MaxAttempts >= 1
ASSUME BoundsAssumption == MaxLate \in Nat /\ MaxCrashes \in Nat
ASSUME JobsAssumption ==
  /\ Source \in [Jobs -> Sources]
  /\ NoJob \notin Jobs
ASSUME WorkersAssumption ==
  /\ Coordinator \in [Children -> Coordinators]
  /\ NoWorker \notin Coordinators
ASSUME SwitchesAssumption == Interleaved \in BOOLEAN /\ LateChildren \in BOOLEAN

VARIABLES
  job,        \* the backtest_jobs rows
  run,        \* strategy_runs.status
  details,    \* attempts whose signal/transaction/snapshot rows are stored for the run
  trial,      \* experiment_trials.status of the linked trial (research jobs)
  verif,      \* aggregate_metrics["verification"] of the candidate
  retriedBy,  \* payload["retried_by_run_id"]
  child,      \* the pool children: program counter and local values
  beat,       \* a heartbeat session between its check and its write
  sweep,      \* rows a recovery sweep has read and not yet written
  client,     \* a cancel request between its read and its write
  late,       \* leases lost so far under a live child
  crashes     \* coordinator crashes so far

vars == <<job, run, details, trial, verif, retriedBy,
          child, beat, sweep, client, late, crashes>>

Terminal == {"completed", "failed", "cancelled"}
Status   == {"none", "queued", "running", "deleted"} \cup Terminal

\* The columns of a row that decide anything.  lease abstracts
\* lease_expires_at: NULL, in the future, or in the past.
Row == [status    : Status,
        attempt   : Nat,
        by        : Coordinators \cup {NoWorker},
        lease     : {"null", "live", "expired"},
        cancelReq : BOOLEAN]

FreshRow == [status |-> "none", attempt |-> 0, by |-> NoWorker,
             lease |-> "null", cancelReq |-> FALSE]

WithStatus(row, status) == [row EXCEPT !.status = status]
WithLease(row, lease)   == [row EXCEPT !.lease = lease]

Queued(j) == job[j].status = "queued"

\* Fault: a commit that writes back every column it loaded.
FlushWhole(stored, loaded, wanted) == wanted

\* What a commit does to a row: only the columns that differ from the values
\* the session loaded are written, the others keep what is stored.
Flush(stored, loaded, wanted) ==
  [c \in DOMAIN stored |-> IF wanted[c] = loaded[c] THEN stored[c] ELSE wanted[c]]

NoRequest == [job |-> NoJob, seen |-> FreshRow]
NoSweep == [j \in {} |-> FreshRow]

Idle == [pc |-> "idle", job |-> NoJob, attempt |-> 0, why |-> "none", seen |-> FreshRow]

\* Transactions that have read and not yet written.
Open == {<<"sweep", s>> : s \in {x \in Sweepers : DOMAIN sweep[x] # {}}}
   \cup {<<"client", c>> : c \in {x \in Clients : client[x].job # NoJob}}
   \cup {<<"beat", e>> : e \in {x \in Children : beat[x] # NoJob}}
   \cup {<<"child", e>> : e \in {x \in Children : child[x].pc \in {"completing", "failing"}}}

MayRun(tx) == Interleaved \/ Open \subseteq {tx}
Quiet      == Interleaved \/ Open = {}

Init ==
  /\ job = [j \in Jobs |-> FreshRow]
  /\ run = [j \in Jobs |-> "none"]
  /\ details = [j \in Jobs |-> {}]
  /\ trial = [j \in Jobs |-> "none"]
  /\ verif = [status |-> "none", run |-> NoJob]
  /\ retriedBy = [j \in Jobs |-> NoJob]
  /\ child = [e \in Children |-> Idle]
  /\ beat = [e \in Children |-> NoJob]
  /\ sweep = [s \in Sweepers |-> NoSweep]
  /\ client = [c \in Clients |-> NoRequest]
  /\ late = 0
  /\ crashes = 0

-----------------------------------------------------------------------------
(* Submission: enqueue_backtest_job and its callers, retry, delete.         *)

NewJob(j) ==
  /\ job' = [job EXCEPT ![j] = WithStatus(@, "queued")]
  /\ run' = [run EXCEPT ![j] = "queued"]

\* A candidate's verification refers to the job that is to verify it.
VerifiedBy(j) ==
  verif' = IF Source[j] = "verification" THEN [status |-> "queued", run |-> j] ELSE verif

\* A manual run, a research trial whose job is created, or a candidate whose
\* verification promote_candidates finds absent or cancelled.
Enqueue(j) ==
  /\ Quiet
  /\ job[j].status = "none"
  /\ NewJob(j)
  /\ trial' = IF Source[j] = "research" THEN [trial EXCEPT ![j] = "running"] ELSE trial
  /\ Source[j] = "verification" => verif.status \in {"none", "cancelled"}
  /\ VerifiedBy(j)
  /\ UNCHANGED <<details, retriedBy, child, beat, sweep, client, late, crashes>>

\* Fault: retrying puts the failed row itself back into the queue.
RetryInPlace(j, k) ==
  /\ Quiet
  /\ job[j].status = "failed" /\ retriedBy[j] = NoJob
  /\ job' = [job EXCEPT ![j].status = "queued", ![j].attempt = 0]
  /\ run' = [run EXCEPT ![j] = "queued"]
  /\ retriedBy' = [retriedBy EXCEPT ![j] = k]
  /\ UNCHANGED <<details, trial, verif, child, beat, sweep, client, late, crashes>>

\* retry_failed_backtest_job holds the failed job FOR UPDATE: one step.
Retry(j, k) ==
  /\ Quiet
  /\ job[j].status = "failed" /\ Source[j] # "research"
  /\ retriedBy[j] = NoJob
  /\ job[k].status = "none" /\ Source[k] = Source[j]
  /\ NewJob(k)
  /\ retriedBy' = [retriedBy EXCEPT ![j] = k]
  /\ Source[j] = "verification" => verif.run \in {j, NoJob}
  /\ VerifiedBy(k)
  /\ UNCHANGED <<details, trial, child, beat, sweep, client, late, crashes>>

\* delete_terminal_backtest_run holds run and job FOR UPDATE: one step.
Delete(j) ==
  /\ Quiet
  /\ run[j] \in Terminal /\ job[j].status \in Terminal
  /\ Source[j] = "verification" => verif.run = j
  /\ job' = [job EXCEPT ![j] = WithStatus(@, "deleted")]
  /\ run' = [run EXCEPT ![j] = "deleted"]
  /\ details' = [details EXCEPT ![j] = {}]
  /\ verif' = IF Source[j] = "verification" THEN [verif EXCEPT !.run = NoJob] ELSE verif
  /\ UNCHANGED <<trial, retriedBy, child, beat, sweep, client, late, crashes>>

-----------------------------------------------------------------------------
(* request_backtest_cancel: the job is read without a lock.                 *)

CancelRead(c, j) ==
  /\ Quiet
  /\ client[c].job = NoJob
  /\ job[j].status \in {"queued", "running"}
  /\ client' = [client EXCEPT ![c] = [job |-> j, seen |-> job[j]]]
  /\ UNCHANGED <<job, run, details, trial, verif, retriedBy,
                 child, beat, sweep, late, crashes>>

\* Finish the linked trial as _finalize_linked_trial does.
TrialEnds(j, status) ==
  trial' = IF Source[j] = "research" THEN [trial EXCEPT ![j] = status] ELSE trial

CancelQueued(j) ==
  /\ run' = [run EXCEPT ![j] = "cancelled"]
  /\ TrialEnds(j, "cancelled")
  /\ verif' = IF Source[j] = "verification" THEN [verif EXCEPT !.status = "cancelled"] ELSE verif

CancelMarked(row) ==
  [status    |-> IF row.status = "queued" THEN "cancelled" ELSE row.status,
   attempt   |-> row.attempt, by |-> row.by, lease |-> row.lease,
   cancelReq |-> TRUE]

CancelWrite(c) ==
  LET j == client[c].job
      seen == client[c].seen
  IN  /\ MayRun(<<"client", c>>)
      /\ j # NoJob
      /\ client' = [client EXCEPT ![c] = NoRequest]
      /\ IF job[j].status = "deleted"
           THEN UNCHANGED <<job, run, trial, verif>>     \* the flush finds no row
           ELSE /\ job' = [job EXCEPT ![j] = Flush(@, seen, CancelMarked(seen))]
                /\ IF seen.status = "queued"
                     THEN CancelQueued(j)
                     ELSE UNCHANGED <<run, trial, verif>>
      /\ UNCHANGED <<details, retriedBy, child, beat, sweep, late, crashes>>

-----------------------------------------------------------------------------
(* recover_expired_jobs: one sweep reads every expired running row without  *)
(* a lock and commits what it made of all of them together.                 *)

LeaseExpires(j) ==
  /\ Quiet
  /\ job[j].status = "running" /\ job[j].lease = "live"
  /\ IF \E e \in Children : child[e].job = j
       THEN LateChildren /\ late < MaxLate /\ late' = late + 1
       ELSE late' = late
  /\ job' = [job EXCEPT ![j] = WithLease(@, "expired")]
  /\ UNCHANGED <<run, details, trial, verif, retriedBy, child, beat, sweep, client, crashes>>

Due == {j \in Jobs : job[j].status = "running" /\ job[j].lease = "expired"}

SweepRead(s) ==
  /\ Quiet
  /\ DOMAIN sweep[s] = {}
  /\ Due # {}
  /\ sweep' = [sweep EXCEPT ![s] = [j \in Due |-> job[j]]]
  /\ UNCHANGED <<job, run, details, trial, verif, retriedBy, child, beat, client, late, crashes>>

\* Fault: one attempt too many.
RecoveredOneMore(row) ==
  IF row.cancelReq THEN "cancelled"
  ELSE IF row.attempt <= MaxAttempts THEN "queued" ELSE "failed"

RecoveredStatus(row) ==
  IF row.cancelReq THEN "cancelled"
  ELSE IF row.attempt < MaxAttempts THEN "queued" ELSE "failed"

Released(row, status) ==
  [row EXCEPT !.status = status, !.by = NoWorker, !.lease = "null"]

SweepWrite(s) ==
  LET seen == sweep[s]
      status == [j \in DOMAIN seen |-> RecoveredStatus(seen[j])]
  IN  /\ MayRun(<<"sweep", s>>)
      /\ DOMAIN seen # {}
      /\ sweep' = [sweep EXCEPT ![s] = NoSweep]
      /\ IF \E j \in DOMAIN seen : job[j].status = "deleted"
           THEN UNCHANGED <<job, run, trial>>
           ELSE /\ job' = [j \in Jobs |->
                             IF j \in DOMAIN seen
                               THEN Flush(job[j], seen[j], Released(seen[j], status[j]))
                               ELSE job[j]]
                /\ run' = [j \in Jobs |-> IF j \in DOMAIN seen THEN status[j] ELSE run[j]]
                /\ trial' = [j \in Jobs |->
                               IF j \in DOMAIN seen /\ Source[j] = "research" /\ status[j] \in Terminal
                                 THEN status[j] ELSE trial[j]]
      /\ UNCHANGED <<details, verif, retriedBy, child, beat, client, late, crashes>>

-----------------------------------------------------------------------------
(* claim_next_backtest_job: FOR UPDATE SKIP LOCKED, so one step.  Any queued *)
(* job may be the one claimed: the order by priority passes over jobs that   *)
(* are locked or not yet available again.                                    *)

\* Fault: the lease is left to the first heartbeat.
ClaimedUnleased(row, w) ==
  [row EXCEPT !.status = "running", !.attempt = @ + 1, !.by = w]

Claimed(row, w) ==
  [status |-> "running", attempt |-> row.attempt + 1, by |-> w,
   lease |-> "live", cancelReq |-> row.cancelReq]

\* The child that was handed job j, in the attempt the claim counted.
Holding(j, attempt) ==
  [pc |-> "claimed", job |-> j, attempt |-> attempt, why |-> "none", seen |-> FreshRow]

Claim(e, j) ==
  /\ Quiet
  /\ child[e].pc = "idle" /\ beat[e] = NoJob
  /\ Queued(j) /\ ~job[j].cancelReq
  /\ job' = [job EXCEPT ![j] = Claimed(@, Coordinator[e])]
  /\ run' = [run EXCEPT ![j] = "running"]
  /\ child' = [child EXCEPT ![e] = Holding(j, job[j].attempt + 1)]
  /\ UNCHANGED <<details, trial, verif, retriedBy, beat, sweep, client, late, crashes>>

\* A queued row that carries a cancel request is closed instead of claimed.
ClaimCancelled(e, j) ==
  /\ Quiet
  /\ child[e].pc = "idle"
  /\ Queued(j) /\ job[j].cancelReq
  /\ job' = [job EXCEPT ![j] = WithStatus(@, "cancelled")]
  /\ run' = [run EXCEPT ![j] = "cancelled"]
  /\ UNCHANGED <<details, trial, verif, retriedBy, child, beat, sweep, client, late, crashes>>

-----------------------------------------------------------------------------
(* execute_backtest_job in a pool child, with run_backtest's own commits.   *)

AtPC(local, pc)     == [local EXCEPT !.pc = pc]
Raised(local, why)  == [local EXCEPT !.pc = "raised", !.why = why, !.seen = FreshRow]
Having(local, pc, row) == [local EXCEPT !.pc = pc, !.seen = row]

Goto(e, pc)      == child' = [child EXCEPT ![e] = AtPC(@, pc)]
Raise(e, why)    == child' = [child EXCEPT ![e] = Raised(@, why)]
Read(e, pc)      == child' = [child EXCEPT ![e] = Having(@, pc, job[child[e].job])]
Leave(e)         == child' = [child EXCEPT ![e] = Idle]
Gone(j)          == job[j].status = "deleted"

Engine == <<job, trial, verif, retriedBy, beat, sweep, client, late, crashes>>

\* The only ownership check, then the previous attempt's rows are dropped.
Begin(e) ==
  LET j == child[e].job
  IN  /\ Quiet
      /\ child[e].pc = "claimed"
      /\ IF job[j].status = "running" /\ job[j].by = Coordinator[e]
           THEN /\ Goto(e, "computing")
                /\ details' = [details EXCEPT ![j] = {}]
                /\ run' = [run EXCEPT ![j] = "running"]
           ELSE Leave(e) /\ UNCHANGED <<details, run>>
      /\ UNCHANGED Engine

\* The last cancel_check before persistence finds nothing.
StartPersisting(e) ==
  /\ Quiet
  /\ child[e].pc = "computing"
  /\ ~job[child[e].job].cancelReq
  /\ Goto(e, "persisting")
  /\ UNCHANGED <<run, details>> /\ UNCHANGED Engine

InEngine(e) == child[e].pc \in {"computing", "persisting"}

EngineEnds(e, status) ==
  LET j == child[e].job
  IN  run' = IF Gone(j) THEN run ELSE [run EXCEPT ![j] = status]

\* A cancel_check sees the request; run_backtest marks the run and re-raises.
EngineCancelled(e) ==
  /\ Quiet
  /\ InEngine(e)
  /\ job[child[e].job].cancelReq /\ ~Gone(child[e].job)
  /\ EngineEnds(e, "cancelled")
  /\ Raise(e, "cancelled")
  /\ UNCHANGED details /\ UNCHANGED Engine

\* Any other exception, before (run untouched) or after the engine took over.
EngineRaises(e) ==
  /\ Quiet
  /\ InEngine(e)
  /\ EngineEnds(e, "failed") \/ (child[e].pc = "computing" /\ run' = run)
  /\ Raise(e, "error")
  /\ UNCHANGED details /\ UNCHANGED Engine

KeepsDetails(j) == Source[j] # "research"      \* persist_level "full"

\* Fault: the run is committed and its rows are not.
EngineCommitsRunOnly(e) ==
  /\ Quiet
  /\ child[e].pc = "persisting" /\ ~Gone(child[e].job)
  /\ run' = [run EXCEPT ![child[e].job] = "completed"]
  /\ Goto(e, "ran")
  /\ UNCHANGED details /\ UNCHANGED Engine

\* The commit of the run and its rows; (run_id, ts) of the snapshots is unique,
\* so rows another attempt stored in the meantime make it an EngineRaises.
EngineCommits(e) ==
  LET j == child[e].job
  IN  /\ Quiet
      /\ child[e].pc = "persisting"
      /\ ~Gone(j) /\ details[j] = {}
      /\ run' = [run EXCEPT ![j] = "completed"]
      /\ details' = IF KeepsDetails(j)
                      THEN [details EXCEPT ![j] = {child[e].attempt}] ELSE details
      /\ Goto(e, "ran")
      /\ UNCHANGED Engine

\* The job is refreshed, without a lock and without an ownership check; a
\* verification whose metrics differ raises.
CompleteRead(e) ==
  LET j == child[e].job
  IN  /\ Quiet
      /\ child[e].pc = "ran"
      /\ IF Gone(j)
           THEN Leave(e)
           ELSE \/ Read(e, "completing")
                \/ Source[j] = "verification" /\ Raise(e, "verification")
      /\ UNCHANGED <<run, details>> /\ UNCHANGED Engine

Completed(row) == [row EXCEPT !.status = "completed", !.lease = "null"]

CompleteWrite(e) ==
  LET j == child[e].job
      seen == child[e].seen
  IN  /\ MayRun(<<"child", e>>)
      /\ child[e].pc = "completing"
      /\ IF Source[j] = "research" /\ ~Gone(j) THEN Goto(e, "finishing") ELSE Leave(e)
      /\ IF Gone(j)
           THEN UNCHANGED <<job, trial, verif>>
           ELSE /\ job' = [job EXCEPT ![j] = Flush(@, seen, Completed(seen))]
                /\ TrialEnds(j, "completed")
                /\ verif' = IF Source[j] = "verification"
                              THEN [status |-> "completed", run |-> j] ELSE verif
      /\ UNCHANGED <<run, details, retriedBy, beat, sweep, client, late, crashes>>

\* _finalize_research_experiment follows the commit inside the same try: what
\* it raises reaches the handler that undoes an attempt.
FinalizeExperiment(e) ==
  /\ Quiet
  /\ child[e].pc = "finishing"
  /\ Leave(e) \/ Raise(e, "error")
  /\ UNCHANGED <<run, details>> /\ UNCHANGED Engine

\* The terminal commit itself fails and is rolled back.
CompleteFails(e) ==
  /\ MayRun(<<"child", e>>)
  /\ child[e].pc = "completing"
  /\ Raise(e, "error")
  /\ UNCHANGED <<run, details>> /\ UNCHANGED Engine

\* The exception handler reads the job again after its rollback.
FailRead(e) ==
  LET j == child[e].job
  IN  /\ Quiet
      /\ child[e].pc = "raised"
      /\ IF Gone(j)
           THEN Leave(e)
           ELSE Read(e, "failing")
      /\ UNCHANGED <<run, details>> /\ UNCHANGED Engine

FailedStatus(why, row) ==
  IF why = "cancelled" \/ row.cancelReq THEN "cancelled"
  ELSE IF why = "verification" THEN "failed"
  ELSE IF row.attempt < MaxAttempts THEN "queued" ELSE "failed"

VerificationEnds(j, why, status) ==
  verif' = IF Source[j] = "verification" /\ (status = "cancelled" \/ why = "verification")
             THEN [verif EXCEPT !.status = status] ELSE verif

FailWrite(e) ==
  LET j == child[e].job
      seen == child[e].seen
      status == FailedStatus(child[e].why, seen)
  IN  /\ MayRun(<<"child", e>>)
      /\ child[e].pc = "failing"
      /\ Leave(e)
      /\ IF Gone(j)
           THEN UNCHANGED <<job, run, trial, verif>>
           ELSE /\ job' = [job EXCEPT ![j] = Flush(@, seen, Released(seen, status))]
                /\ run' = [run EXCEPT ![j] = status]
                /\ IF status \in Terminal THEN TrialEnds(j, status) ELSE trial' = trial
                /\ VerificationEnds(j, child[e].why, status)
      /\ UNCHANGED <<details, retriedBy, beat, sweep, client, late, crashes>>

-----------------------------------------------------------------------------
(* _heartbeat_job and _update_job_progress: a session of their own that     *)
(* checks status and worker id and then renews the lease.                   *)

Beating(e) == child[e].pc \notin {"idle", "claimed"}

HeartbeatCheck(e) ==
  LET j == child[e].job
  IN  /\ Quiet
      /\ Beating(e) /\ beat[e] = NoJob
      /\ job[j].status = "running" /\ job[j].by = Coordinator[e]
      /\ beat' = [beat EXCEPT ![e] = j]
      /\ UNCHANGED <<job, run, details, trial, verif, retriedBy,
                     child, sweep, client, late, crashes>>

HeartbeatWrite(e) ==
  /\ MayRun(<<"beat", e>>)
  /\ beat[e] # NoJob
  /\ beat' = [beat EXCEPT ![e] = NoJob]
  /\ job' = IF Gone(beat[e]) THEN job ELSE [job EXCEPT ![beat[e]] = WithLease(@, "live")]
  /\ UNCHANGED <<run, details, trial, verif, retriedBy, child, sweep, client, late, crashes>>

\* A coordinator dies, or its pool breaks, with every child it has.
Crash(w) ==
  LET dead == {e \in Children : Coordinator[e] = w}
  IN  /\ Quiet
      /\ crashes < MaxCrashes
      /\ \E e \in dead : child[e].pc # "idle"
      /\ child' = [e \in Children |-> IF e \in dead THEN Idle ELSE child[e]]
      /\ beat' = [e \in Children |-> IF e \in dead THEN NoJob ELSE beat[e]]
      /\ crashes' = crashes + 1
      /\ UNCHANGED <<job, run, details, trial, verif, retriedBy, sweep, client, late>>

-----------------------------------------------------------------------------
ChildStep(e) ==
  \/ Begin(e) \/ StartPersisting(e)
  \/ EngineCancelled(e) \/ EngineRaises(e) \/ EngineCommits(e)
  \/ CompleteRead(e) \/ CompleteWrite(e) \/ CompleteFails(e)
  \/ FinalizeExperiment(e)
  \/ FailRead(e) \/ FailWrite(e)

Next ==
  \/ \E j \in Jobs : Enqueue(j) \/ Delete(j) \/ LeaseExpires(j)
  \/ \E j, k \in Jobs : Retry(j, k)
  \/ \E c \in Clients : CancelWrite(c) \/ \E j \in Jobs : CancelRead(c, j)
  \/ \E s \in Sweepers : SweepRead(s) \/ SweepWrite(s)
  \/ \E e \in Children, j \in Jobs : Claim(e, j) \/ ClaimCancelled(e, j)
  \/ \E e \in Children : ChildStep(e) \/ HeartbeatCheck(e) \/ HeartbeatWrite(e)
  \/ \E w \in Coordinators : Crash(w)

Spec == Init /\ [][Next]_vars

\* The manager polls for ever, so expired leases are swept, queued jobs find a
\* worker, and a live child finishes what it does.  Leases pass by themselves
\* once nobody renews them.  Nothing obliges a client, a crash or a delay.
DeadLeaseExpires(j) == LeaseExpires(j) /\ \A e \in Children : child[e].job # j

Fairness ==
  /\ \A j \in Jobs : WF_vars(DeadLeaseExpires(j))
  /\ \A s \in Sweepers : WF_vars(SweepRead(s)) /\ WF_vars(SweepWrite(s))
  /\ \A j \in Jobs : WF_vars(\E e \in Children : Claim(e, j) \/ ClaimCancelled(e, j))
  /\ \A e \in Children : WF_vars(ChildStep(e)) /\ WF_vars(HeartbeatWrite(e))
  /\ \A c \in Clients : WF_vars(CancelWrite(c))

FairSpec == Spec /\ Fairness

-----------------------------------------------------------------------------
ChildPC == {"idle", "claimed", "computing", "persisting", "ran", "completing", "finishing",
            "raised", "failing"}
Why == {"none", "cancelled", "verification", "error"}

Local == {l \in [pc : ChildPC, job : Jobs \cup {NoJob}, attempt : Nat, why : Why, seen : Row] :
            l.pc # "idle" => l.job # NoJob}
Request == [job : Jobs \cup {NoJob}, seen : Row]
SweptRows(rows) == DOMAIN rows \subseteq Jobs /\ rows \in [DOMAIN rows -> Row]

\* Every variable has the shape the code gives it.
TypeOK ==
  /\ job \in [Jobs -> Row]
  /\ run \in [Jobs -> Status]
  /\ details \in [Jobs -> SUBSET Nat]
  /\ trial \in [Jobs -> {"none", "running"} \cup Terminal]
  /\ verif \in [status : {"none", "queued"} \cup Terminal, run : Jobs \cup {NoJob}]
  /\ retriedBy \in [Jobs -> Jobs \cup {NoJob}]
  /\ child \in [Children -> Local]
  /\ beat \in [Children -> Jobs \cup {NoJob}]
  /\ DOMAIN sweep = Sweepers
  /\ \A s \in Sweepers : SweptRows(sweep[s])
  /\ client \in [Clients -> Request]
  /\ late \in Nat
  /\ crashes \in Nat

(* What holds of the code as it runs: every interleaving, leases lost late. *)

\* Two children never work for the same attempt of a job: SKIP LOCKED hands a
\* queued row to one claimer, and each claim is a new attempt.
OneChildPerAttempt ==
  \A e, f \in Children :
    e # f /\ child[e].job = child[f].job /\ child[e].job # NoJob
      => child[e].attempt # child[f].attempt

\* A cancel request, once committed, is neither overwritten by a session that
\* read the row before it nor followed by another attempt.
CancelRequestSticks ==
  [][\A j \in Jobs : job[j].cancelReq =>
       job'[j].cancelReq /\ job'[j].attempt = job[j].attempt]_vars

\* No job ends cancelled unless somebody asked for it.
CancelledOnRequest ==
  \A j \in Jobs : job[j].status = "cancelled" => job[j].cancelReq

\* Every job that is queued or running ends, whatever crashes and races occur.
ActiveJobsEnd ==
  \A j \in Jobs : (job[j].status \in {"queued", "running"})
                    ~> (job[j].status \in Terminal \cup {"deleted"})

(* What holds when handlers do not interleave, even if leases are lost late. *)

\* attempt never passes max_attempts: every way back to the queue leaves room
\* for the claim that follows.
AttemptsWithinBudget ==
  \A j \in Jobs : job[j].attempt <= MaxAttempts
                  /\ (Queued(j) => job[j].attempt < MaxAttempts)

\* A job that waits in the queue carries no cancel request: cancelling a queued
\* job ends it, and no requeue forgets a request.
QueuedIsWanted ==
  \A j \in Jobs : Queued(j) => ~job[j].cancelReq

\* A linked research trial ends with its job, in the same state.
TrialFollowsJob ==
  \A j \in Jobs : Source[j] = "research" /\ job[j].status \in Terminal
                    => trial[j] = job[j].status

(* What holds when, besides, no lease is lost under a live child.           *)

\* A job that has ended stays as it ended (or is deleted).
StaysEnded(j) ==
  job[j].status \in Terminal => job'[j].status \in {job[j].status, "deleted"}

TerminalIsFinal == [][\A j \in Jobs : Source[j] # "research" => StaysEnded(j)]_vars

\* The same for research jobs, whose child still has an experiment to advance
\* when the job is committed completed.
ResearchTerminalIsFinal == [][\A j \in Jobs : Source[j] = "research" => StaysEnded(j)]_vars

\* The run a job executed ends in the job's state.
RunFollowsJob ==
  \A j \in Jobs : job[j].status \in Terminal => run[j] = job[j].status

\* A completed job kept the rows of exactly the attempt that completed it
\* (backtest-performance.md: workers "clear only the current run's incomplete
\* details before retry").
EvidenceOfOneAttempt ==
  \A j \in Jobs : job[j].status = "completed" /\ KeepsDetails(j)
                    => details[j] = {job[j].attempt}

\* A candidate counts as verified only on the word of a completed run.
VerifiedByCompletedRun ==
  verif.status = "completed" /\ verif.run # NoJob => run[verif.run] = "completed"

\* A run that was retried stays the failed record it was retried from.
RetriedStaysFailed ==
  \A j \in Jobs : retriedBy[j] # NoJob => job[j].status \in {"failed", "deleted"}

\* The job, the run it executed, the rows of one attempt, the research trial and
\* the candidate it serves tell one story.
OneStory == RunFollowsJob /\ EvidenceOfOneAttempt /\ TrialFollowsJob /\ VerifiedByCompletedRun

\* Attempts and retries: within the budget, wanted by their user, and never in
\* the place of the failure they follow.
RetriesInOrder == AttemptsWithinBudget /\ QueuedIsWanted /\ RetriedStaysFailed

(* What a document says and the code does not do.                           *)

\* research-experiments.md: cancelling verification through the task center
\* also makes the owning candidate's verification status cancelled.
CancelledVerificationIsCancelled ==
  \A j \in Jobs : job[j].status = "cancelled" /\ verif.run = j
                    => verif.status = "cancelled"
=============================================================================

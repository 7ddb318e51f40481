------------------------ MODULE ResearchExperiments ------------------------
(***************************************************************************)
(* One adaptive experiment (research_experiment_service.py and the round    *)
(* protocol of adaptive_research_service.py): its trials, the durable job   *)
(* of each trial, the controllers of the API process that turn trials into  *)
(* jobs, the requests of users and of the agent, the stop policy, and the   *)
(* finalisation that every handler which ends a trial runs in a transaction *)
(* of its own; and the promotion of candidates, which a full backtest of    *)
(* the candidate must confirm first.                                        *)
(*                                                                         *)
(* The queue is what BacktestJobs shows it to be: a queued job is claimed,  *)
(* a running one ends or is tried again, and its end is committed together  *)
(* with the end of its trial.                                               *)
(***************************************************************************)
EXTENDS Naturals, FiniteSets

CONSTANTS
  Trials,        \* experiment_trials rows
  Round,         \* [Trials -> 1 .. MaxRounds]: the round a trial is created in
  Evidence,      \* the out-of-sample base trials: they rank their candidate
  MaxRounds,     \* searchPolicy.maxRounds
  Controllers,   \* threads in process_next_trial
  QueueLimit,    \* RESEARCH_JOB_QUEUE_LIMIT
  MaxAttempts,   \* max_attempts of a job
  HasPolicy,     \* TRUE: the experiment has a stop policy
  Overtaken,     \* TRUE: other handlers run between two steps of a handler
                 \* FALSE: a handler that has read the experiment, or has yet
                 \*        to finalise it, is not overtaken
  NoTrial,
  MaxRuns,       \* bound on the verification runs of a candidate
  MaxCrashes     \* bound on the crashes of the API process

ASSUME RoundsAssumption ==
  /\ MaxRounds \in Nat \ {0}
  /\ Round \in [Trials -> 1 .. MaxRounds]
  /\ Evidence \subseteq Trials
  /\ NoTrial \notin Trials
ASSUME LimitsAssumption ==
  /\ QueueLimit \in Nat \ {0} /\ MaxAttempts \in Nat \ {0}
  /\ MaxRuns \in Nat /\ MaxCrashes \in Nat
  /\ HasPolicy \in BOOLEAN /\ Overtaken \in BOOLEAN

VARIABLES
  exp,         \* the research_experiments row: status, termination, rounds so far
  trial,       \* the experiment_trials rows
  job,         \* the backtest_jobs row of each trial (its run is reused)
  ctl,         \* controller threads
  fin,         \* the finalisation owed by the handler that ended a trial
  cand,        \* the candidate of each evidence trial: rank, verification, strategy
  request,     \* cancel_experiment between its read and its commit
  recovering,  \* running trials that recover_orphaned_trials has read
  due,         \* the stop policy's condition holds
  alive,       \* the API process has started and recovered
  crashes

vars == <<exp, trial, job, ctl, fin, cand, request, recovering, due, alive, crashes>>

Ended  == {"completed", "partially_failed", "failed", "cancelled"}
Over   == {"completed", "failed", "cancelled"}      \* of a trial or a job
Active == {"queued", "running"}
Early  == {"policy", "novalid", "controller"}       \* termination.earlyStopped
Reasons == Early \cup {"none", "rounds"}

\* The two columns of the experiment a handler reads and writes.
Seen == [status : Active \cup {"waiting_agent", "cancel_requested"} \cup Ended,
         term   : Reasons]
Verdict0 == [status |-> "queued", term |-> "none"]

Row     == [status : {"none"} \cup Active \cup Over, cancelReq : BOOLEAN]
JobRow  == [status : {"none"} \cup Active \cup Over, cancelReq : BOOLEAN, tries : 0 .. MaxAttempts]

Resting  == [pc |-> "idle", trial |-> NoTrial]
Nothing  == [pc |-> "no", by |-> "child", seen |-> Verdict0, busy |-> {}]
Unverified == [ranked |-> FALSE, doc |-> "none", runs |-> 0, made |-> 0,
               confirmed |-> FALSE, promoted |-> FALSE]
Verifying(row) == [row EXCEPT !.doc = "queued", !.runs = @ + 1, !.made = @ + 1]
NoRequest == [pc |-> "no", seen |-> Verdict0]
Owed(by) == [Nothing EXCEPT !.pc = "due", !.by = by]

Put(row, status)   == [row EXCEPT !.status = status]
\* Requests and attempts of a row that has ended are not read again.
End(status)        == [status |-> status, cancelReq |-> FALSE]
EndJob(status)     == [status |-> status, cancelReq |-> FALSE, tries |-> 0]
InStatus(rows, S)  == {t \in Trials : rows[t].status \in S}
CancelQueued(rows) == [t \in Trials |-> IF rows[t].status = "queued" THEN End("cancelled") ELSE rows[t]]

\* Handlers that have read the experiment and not committed, or owe a finalisation.
Open == {<<"fin", t>> : t \in {x \in Trials : fin[x].pc # "no"}}
   \cup {<<"ctl", c>> : c \in {x \in Controllers : ctl[x].pc = "looking"}}
   \cup (IF request.pc = "no" THEN {} ELSE {<<"request">>})
   \cup (IF recovering = {NoTrial} THEN {} ELSE {<<"recover">>})

MayRun(handler) == Overtaken \/ Open \subseteq {handler}
Quiet           == Overtaken \/ Open = {}

-----------------------------------------------------------------------------
(* _finalize_if_ready, with finalize_adaptive_round_if_ready in it.         *)

Some(rows, status) == InStatus(rows, {status}) # {}

\* Fault: a failed trial is forgotten.
VerdictOfTheBest(rows) == IF Some(rows, "completed") THEN "completed" ELSE "failed"

\* The verdict over the trials, and the one of an experiment stopped early,
\* which is "completed" even if nothing completed and nothing failed.
Verdict(rows) ==
  IF ~Some(rows, "completed") THEN "failed"
  ELSE IF Some(rows, "failed") THEN "partially_failed" ELSE "completed"

EarlyVerdict(rows) ==
  IF ~Some(rows, "failed") THEN "completed"
  ELSE IF Some(rows, "completed") THEN "partially_failed" ELSE "failed"

\* Some candidate has finite objectives and thus a Pareto rank.
Ranked(rows) == \E t \in Evidence : rows[t].status = "completed"

\* Nobody asks whether the experiment is final already.
Finalized(seen, rows, round) ==
  IF seen.term = "none" /\ seen.status # "cancel_requested"
    THEN IF ~Ranked(rows) THEN [status |-> Verdict(rows), term |-> "novalid"]
         ELSE IF round >= MaxRounds THEN [status |-> Verdict(rows), term |-> "rounds"]
         ELSE Put(seen, "waiting_agent")
    ELSE Put(seen, IF seen.term \in Early THEN EarlyVerdict(rows)
                   ELSE IF seen.status = "cancel_requested" THEN "cancelled"
                   ELSE Verdict(rows))

\* Fault: trials that wait for a slot are not counted.
OutstandingRunning(busy) == "running" \in busy
Outstanding(busy) == busy \cap Active # {}

\* Every candidate is aggregated and ranked anew; its verification is kept in
\* the metrics that are replaced.
Reranked(busy, rows) ==
  [t \in Evidence |-> IF Outstanding(busy) THEN cand[t]
                      ELSE [cand[t] EXCEPT !.doc = "none", !.ranked = rows[t].status = "completed"]]

IfReady(seen, busy, rows, round) ==
  IF Outstanding(busy) THEN seen ELSE Finalized(seen, rows, round)

\* What a commit does to the row: only the columns that changed are written.
Flush(seen, wanted) ==
  exp' = [exp EXCEPT
            !.status = IF wanted.status = seen.status THEN @ ELSE wanted.status,
            !.term   = IF wanted.term = seen.term THEN @ ELSE wanted.term]

Columns == [status |-> exp.status, term |-> exp.term]
Statuses(rows) == {rows[t].status : t \in Trials}

\* enforce_experiment_stop_policy: the condition holds and nothing else ended
\* or is ending the experiment.  Queued trials are cancelled.
Stoppable(seen)     == seen.term = "none" /\ seen.status \notin Ended \cup {"cancel_requested"}
PolicyApplies(seen) == due /\ Stoppable(seen)

Stopped(seen) == [seen EXCEPT !.term = "policy"]

-----------------------------------------------------------------------------
(* The second transaction of _commit_trial_and_finalize_experiment.         *)

\* The experiment is read afresh, and the trials are counted.
FinalizeRead(t) ==
  /\ MayRun(<<"fin", t>>)
  /\ fin[t].pc = "due"
  /\ fin' = [fin EXCEPT ![t] = [@ EXCEPT !.pc = "read", !.seen = Columns, !.busy = Statuses(trial)]]
  /\ UNCHANGED <<exp, trial, job, ctl, cand, request, recovering, due, alive, crashes>>

FinalizeWrite(t) ==
  LET seen == fin[t].seen
      rows == IF PolicyApplies(seen) THEN CancelQueued(trial) ELSE trial
      busy == IF PolicyApplies(seen) THEN Statuses(rows) ELSE fin[t].busy
      wanted == IfReady(IF PolicyApplies(seen) THEN Stopped(seen) ELSE seen, busy, rows, exp.round)
  IN  /\ MayRun(<<"fin", t>>)
      /\ fin[t].pc = "read"
      /\ Flush(seen, wanted)
      /\ trial' = rows
      /\ cand' = Reranked(busy, rows)
      /\ fin' = [fin EXCEPT ![t] = Nothing]
      /\ UNCHANGED <<job, ctl, request, recovering, due, alive, crashes>>

-----------------------------------------------------------------------------
(* process_next_trial: claim, cancellation check, run, durable job.         *)

\* enforce_experiment_stop_policy where it runs alone: at the start of every
\* claim, and when the agent reports its use of tokens.
StopByPolicy ==
  LET rows == CancelQueued(trial)
  IN  /\ Flush(Columns, IfReady(Stopped(Columns), Statuses(rows), rows, exp.round))
      /\ trial' = rows
      /\ cand' = Reranked(Statuses(rows), rows)

EnforcePolicy ==
  /\ Quiet /\ alive
  /\ PolicyApplies(Columns)
  /\ StopByPolicy
  /\ UNCHANGED <<job, ctl, fin, request, recovering, due, alive, crashes>>

\* The running trials are counted, and then a queued one is locked.
Look(c) ==
  /\ Quiet /\ alive
  /\ ctl[c].pc = "idle" /\ ~PolicyApplies(Columns)
  /\ exp.status \in Active /\ Some(trial, "queued")
  /\ Cardinality(InStatus(trial, {"running"})) < QueueLimit
  /\ ctl' = [ctl EXCEPT ![c] = [pc |-> "looking", trial |-> NoTrial]]
  /\ UNCHANGED <<exp, trial, job, fin, cand, request, recovering, due, alive, crashes>>

Claimable == exp.status \in Active

Claim(c) ==
  /\ MayRun(<<"ctl", c>>)
  /\ ctl[c].pc = "looking"
  /\ \/ /\ ~(Claimable /\ Some(trial, "queued"))
        /\ ctl' = [ctl EXCEPT ![c] = Resting]
        /\ UNCHANGED <<exp, trial>>
     \/ \E t \in InStatus(trial, {"queued"}) :
          /\ Claimable
          /\ trial' = [trial EXCEPT ![t] = Put(@, "running")]
          /\ exp' = [exp EXCEPT !.status = "running"]
          /\ ctl' = [ctl EXCEPT ![c] = [pc |-> "claimed", trial |-> t]]
  /\ UNCHANGED <<job, fin, cand, request, recovering, due, alive, crashes>>

\* Fault: the trial ends and nobody finalises.
EndsSilently(c, status) ==
  LET t == ctl[c].trial
  IN  /\ trial' = [trial EXCEPT ![t] = End(status)]
      /\ ctl' = [ctl EXCEPT ![c] = Resting]
      /\ UNCHANGED <<exp, job, fin, cand, request, recovering, due, alive, crashes>>

\* A trial ends outside the queue: committed, and the finalisation is owed.
EndsHere(c, status) ==
  LET t == ctl[c].trial
  IN  /\ trial' = [trial EXCEPT ![t] = End(status)]
      /\ fin' = [fin EXCEPT ![t] = Owed("api")]
      /\ ctl' = [ctl EXCEPT ![c] = Resting]
      /\ UNCHANGED <<exp, job, cand, request, recovering, due, alive, crashes>>

\* The trial is refreshed: a request that came meanwhile ends it.  Otherwise
\* _prepare_backtest_run commits the run, new or reset.
FinishCancelledClaim(c) ==
  /\ Quiet
  /\ ctl[c].pc = "claimed" /\ trial[ctl[c].trial].cancelReq
  /\ EndsHere(c, "cancelled")

PrepareBacktestRun(c) ==
  /\ Quiet
  /\ ctl[c].pc = "claimed" /\ ~trial[ctl[c].trial].cancelReq
  /\ ctl' = [ctl EXCEPT ![c].pc = "prepared"]
  /\ UNCHANGED <<exp, trial, job, fin, cand, request, recovering, due, alive, crashes>>

\* The trial is locked and its request looked at once more, but on the object
\* that was refreshed before the run was committed: the session does not expire
\* objects at commit, and a locking SELECT does not populate a loaded one.  A
\* job that the run has already is not created again.
EnqueueJob(c) ==
  LET t == ctl[c].trial
  IN  /\ Quiet
      /\ ctl[c].pc = "prepared"
      /\ job' = [job EXCEPT ![t] = IF @.status = "none" THEN Put(@, "queued") ELSE @]
      /\ ctl' = [ctl EXCEPT ![c] = Resting]
      /\ UNCHANGED <<exp, trial, fin, cand, request, recovering, due, alive, crashes>>

\* Anything else that raises on the way.
TrialFails(c) ==
  /\ Quiet
  /\ ctl[c].pc \in {"claimed", "prepared"}
  /\ EndsHere(c, "failed")

-----------------------------------------------------------------------------
(* The queue as the experiment sees it (BacktestJobs).                      *)

Started(row) == [row EXCEPT !.status = "running", !.tries = @ + 1]

\* A claimed job starts; one that was asked to stop is closed, and its trial
\* is left as it is.
JobStarts(t) ==
  /\ Quiet
  /\ job[t].status = "queued"
  /\ job' = [job EXCEPT ![t] = IF @.cancelReq THEN EndJob("cancelled")
                               ELSE Started(@)]
  /\ UNCHANGED <<exp, trial, ctl, fin, cand, request, recovering, due, alive, crashes>>

\* A failure or a lost lease with attempts left.
JobRequeued(t) ==
  /\ Quiet
  /\ job[t].status = "running" /\ ~job[t].cancelReq /\ job[t].tries < MaxAttempts
  /\ job' = [job EXCEPT ![t] = Put(@, "queued")]
  /\ UNCHANGED <<exp, trial, ctl, fin, cand, request, recovering, due, alive, crashes>>

\* Job and trial end in one commit; the same handler then finalises.
JobEnds(t, status) ==
  /\ Quiet
  /\ job[t].status = "running"
  /\ status = "cancelled" => job[t].cancelReq
  /\ status = "failed" => ~job[t].cancelReq /\ job[t].tries = MaxAttempts
  /\ job' = [job EXCEPT ![t] = EndJob(status)]
  /\ trial' = [trial EXCEPT ![t] = End(status)]
  /\ fin' = [fin EXCEPT ![t] = Owed("child")]
  /\ UNCHANGED <<exp, ctl, cand, request, recovering, due, alive, crashes>>

-----------------------------------------------------------------------------
(* Requests: cancel_trial, cancel_experiment, submit_experiment_round,      *)
(* record_controller_failure.                                               *)

Ask(row) == [row EXCEPT !.cancelReq = TRUE]

\* The trial is locked.  Its job, if it has one, is asked to stop.
CancelTrial(t) ==
  /\ Quiet /\ alive
  /\ trial[t].status \in Active
  /\ job[t].status \notin Over
  /\ LET ends == job[t].status = "queued" \/ (job[t].status = "none" /\ trial[t].status = "queued")
     IN  /\ trial' = [trial EXCEPT ![t] = IF ends THEN End("cancelled") ELSE Ask(@)]
         /\ job' = IF job[t].status = "none" THEN job
                   ELSE [job EXCEPT ![t] = IF ends THEN EndJob("cancelled") ELSE Ask(@)]
         /\ fin' = IF ends THEN [fin EXCEPT ![t] = Owed("api")] ELSE fin
  /\ UNCHANGED <<exp, ctl, cand, request, recovering, due, alive, crashes>>

CancelRead ==
  /\ Quiet /\ alive
  /\ request.pc = "no" /\ exp.status \notin Ended
  /\ request' = [pc |-> "read", seen |-> Columns]
  /\ UNCHANGED <<exp, trial, job, ctl, fin, cand, recovering, due, alive, crashes>>

\* Trials without a job are cancelled by an UPDATE, those whose job is queued by
\* the session.  The trials are counted before the session is flushed, so the
\* latter still count as running.
CancelWrite ==
  LET seen   == request.seen
      wanted == InStatus(job, {"queued"})
      rows   == CancelQueued(trial)
  IN  /\ MayRun(<<"request">>)
      /\ request.pc = "read"
      /\ Flush(seen, IfReady(Put(seen, "cancel_requested"), Statuses(rows), rows, exp.round))
      /\ trial' = [t \in Trials |-> IF t \in wanted THEN End("cancelled") ELSE rows[t]]
      /\ job' = [t \in Trials |->
                   IF t \in wanted THEN EndJob("cancelled")
                   ELSE IF job[t].status = "running" THEN Ask(job[t]) ELSE job[t]]
      /\ request' = NoRequest
      /\ cand' = Reranked(Statuses(rows), rows)
      /\ UNCHANGED <<ctl, fin, recovering, due, alive, crashes>>

\* The trials of a round appear with it.
RoundTrials(r) == {t \in Trials : Round[t] = r}
WithRound(r)   == [t \in Trials |-> IF t \in RoundTrials(r) THEN Put(trial[t], "queued") ELSE trial[t]]

AwaitsRound == exp.status = "waiting_agent" /\ exp.round < MaxRounds

SubmitRound ==
  /\ Quiet /\ alive
  /\ AwaitsRound
  /\ exp' = [exp EXCEPT !.status = "queued", !.round = @ + 1]
  /\ trial' = WithRound(exp.round + 1)
  /\ UNCHANGED <<job, ctl, fin, cand, request, recovering, due, alive, crashes>>

\* update_experiment_token_usage: the report that exhausts the budget stops it.
UpdateTokenUsage ==
  /\ Quiet /\ alive
  /\ HasPolicy /\ ~due
  /\ due' = TRUE
  /\ IF Stoppable(Columns) THEN StopByPolicy ELSE UNCHANGED <<exp, trial, cand>>
  /\ UNCHANGED <<job, ctl, fin, request, recovering, alive, crashes>>

\* Once, whatever the state of the experiment.  Running trials run on.
ControllerFails ==
  LET rows == CancelQueued(trial)
  IN  /\ Quiet /\ alive
      /\ exp.term # "controller"
      /\ exp' = [exp EXCEPT !.term = "controller",
                            !.status = IF Some(rows, "completed") THEN "partially_failed" ELSE "failed"]
      /\ trial' = rows
      /\ UNCHANGED <<job, ctl, fin, cand, request, recovering, due, alive, crashes>>

-----------------------------------------------------------------------------
(* promote_candidates, and the full runs it asks for (BacktestJobs).        *)

Fresh(row) == row.doc \in {"none", "cancelled"}

\* A verification that failed blocks them all; one that is pending, or has to be
\* queued now, puts the promotion off; otherwise every one becomes a strategy.
Promote(chosen) ==
  LET waiting == \E t \in chosen : cand[t].doc # "completed"
  IN  /\ Quiet /\ alive
      /\ exp.status \in Ended
      /\ \A t \in chosen : cand[t].ranked /\ cand[t].doc # "failed"
      /\ \A t \in chosen : Fresh(cand[t]) => cand[t].made < MaxRuns
      /\ cand' = [t \in Evidence |->
                    IF t \notin chosen THEN cand[t]
                    ELSE IF ~waiting THEN [cand[t] EXCEPT !.promoted = TRUE]
                    ELSE IF Fresh(cand[t]) THEN Verifying(cand[t])
                    ELSE cand[t]]
      /\ UNCHANGED <<exp, trial, job, ctl, fin, request, recovering, due, alive, crashes>>

\* retry_failed_backtest_job of the run that the candidate waits for.
RetryVerification(t) ==
  /\ Quiet /\ alive
  /\ cand[t].doc = "failed" /\ cand[t].made < MaxRuns
  /\ cand' = [cand EXCEPT ![t] = Verifying(@)]
  /\ UNCHANGED <<exp, trial, job, ctl, fin, request, recovering, due, alive, crashes>>

\* What a run that ends makes of its candidate: completed if its metrics are
\* those of the trial.
Reported(row, status) ==
  [row EXCEPT !.doc = status, !.runs = @ - 1, !.confirmed = @ \/ status = "completed"]

\* Fault: a run that is cancelled does not tell its candidate.
Forgotten(row) == [row EXCEPT !.runs = @ - 1]

VerificationEndsUntold(t, status) ==
  /\ Quiet
  /\ cand[t].runs > 0
  /\ cand' = [cand EXCEPT ![t] = IF status = "cancelled" THEN Forgotten(@) ELSE Reported(@, status)]
  /\ UNCHANGED <<exp, trial, job, ctl, fin, request, recovering, due, alive, crashes>>

\* The full run ends.
VerificationEnds(t, status) ==
  /\ Quiet
  /\ cand[t].runs > 0
  /\ cand' = [cand EXCEPT ![t] = Reported(@, status)]
  /\ UNCHANGED <<exp, trial, job, ctl, fin, request, recovering, due, alive, crashes>>

-----------------------------------------------------------------------------
(* Time, the death of the API process and recover_orphaned_trials.          *)

PolicyFallsDue ==
  /\ HasPolicy /\ ~due
  /\ due' = TRUE
  /\ UNCHANGED <<exp, trial, job, ctl, fin, cand, request, recovering, alive, crashes>>

Crash ==
  /\ crashes < MaxCrashes
  /\ crashes' = crashes + 1
  /\ alive' = FALSE
  /\ ctl' = [c \in Controllers |-> Resting]
  /\ request' = NoRequest
  /\ recovering' = {NoTrial}
  /\ fin' = [t \in Trials |-> IF fin[t].by = "api" THEN Nothing ELSE fin[t]]
  /\ UNCHANGED <<exp, trial, job, cand, due>>

RecoverRead ==
  /\ Quiet /\ ~alive
  /\ recovering = {NoTrial}
  /\ recovering' = InStatus(trial, {"running"})
  /\ UNCHANGED <<exp, trial, job, ctl, fin, cand, request, due, alive, crashes>>

\* Fault: recovery asks for a cancellation only.
RecoveryStopsCancelled == exp.status = "cancel_requested"
RecoveryStops == exp.status = "cancel_requested" \/ exp.term \in Early

\* Trials without an active job are cancelled or queued again.
RecoverWrite ==
  LET orphans == {t \in recovering : job[t].status \notin Active}
      rows    == [t \in Trials |-> IF t \notin orphans THEN trial[t]
                                   ELSE IF RecoveryStops THEN End("cancelled") ELSE Put(trial[t], "queued")]
      idle    == IF exp.status = "running" /\ InStatus(job, Active) = {}
                   THEN Put(Columns, "queued") ELSE Columns
  IN  /\ MayRun(<<"recover">>)
      /\ recovering # {NoTrial}
      /\ trial' = rows
      /\ IF orphans # {} \/ exp.status \in Active \cup {"cancel_requested"}
           THEN /\ Flush(Columns, IfReady(idle, Statuses(rows), rows, exp.round))
                /\ cand' = Reranked(Statuses(rows), rows)
           ELSE UNCHANGED <<exp, cand>>
      /\ recovering' = {NoTrial}
      /\ alive' = TRUE
      /\ UNCHANGED <<job, ctl, fin, request, due, crashes>>

-----------------------------------------------------------------------------
\* create_category_study has committed the experiment and its first round.
Init ==
  /\ exp = [status |-> "queued", term |-> "none", round |-> 1]
  /\ trial = [t \in Trials |-> [status |-> IF Round[t] = 1 THEN "queued" ELSE "none",
                                cancelReq |-> FALSE]]
  /\ job = [t \in Trials |-> [status |-> "none", cancelReq |-> FALSE, tries |-> 0]]
  /\ ctl = [c \in Controllers |-> Resting]
  /\ fin = [t \in Trials |-> Nothing]
  /\ cand = [t \in Evidence |-> Unverified]
  /\ request = NoRequest
  /\ recovering = {NoTrial}
  /\ due = FALSE
  /\ alive = TRUE
  /\ crashes = 0

Finalizes(t) == FinalizeRead(t) \/ FinalizeWrite(t)

ControllerStep(c) ==
  Look(c) \/ Claim(c) \/ FinishCancelledClaim(c) \/ PrepareBacktestRun(c) \/ EnqueueJob(c) \/ TrialFails(c)

JobStep(t) == JobStarts(t) \/ JobRequeued(t) \/ \E status \in Over : JobEnds(t, status)

RecoverStep == RecoverRead \/ RecoverWrite

\* What the processes do by themselves.
Work ==
  \/ \E t \in Trials : Finalizes(t) \/ JobStep(t)
  \/ \E c \in Controllers : ControllerStep(c)
  \/ \E t \in Evidence, status \in Over : VerificationEnds(t, status)
  \/ EnforcePolicy \/ RecoverStep

\* What users, the agent, time and failures do.
Environment ==
  \/ \E t \in Trials : CancelTrial(t)
  \/ \E chosen \in (SUBSET Evidence) \ {{}} : Promote(chosen)
  \/ \E t \in Evidence : RetryVerification(t)
  \/ CancelRead \/ CancelWrite \/ SubmitRound \/ UpdateTokenUsage \/ ControllerFails \/ PolicyFallsDue \/ Crash

Next == Work \/ Environment

Spec == Init /\ [][Next]_vars

\* The worker loop polls, a claimed or running job goes on, and the API process
\* is started again: where something is left to do, again and again, something
\* is done.  A request that has been read is answered.
FairSpec == Spec /\ SF_vars(Work) /\ WF_vars(CancelWrite)

-----------------------------------------------------------------------------
TypeOK ==
  /\ exp \in [status : Active \cup {"waiting_agent", "cancel_requested"} \cup Ended,
              term : Reasons, round : 1 .. MaxRounds]
  /\ trial \in [Trials -> Row]
  /\ job \in [Trials -> JobRow]
  /\ ctl \in [Controllers -> [pc : {"idle", "looking", "claimed", "prepared"},
                              trial : Trials \cup {NoTrial}]]
  /\ fin \in [Trials -> [pc : {"no", "due", "read"}, by : {"api", "child"}, seen : Seen,
                         busy : SUBSET ({"none"} \cup Active \cup Over)]]
  /\ cand \in [Evidence -> [ranked : BOOLEAN, doc : {"none", "queued"} \cup Over, runs : 0 .. MaxRuns,
                            made : 0 .. MaxRuns, confirmed : BOOLEAN, promoted : BOOLEAN]]
  /\ request \in [pc : {"no", "read"}, seen : Seen]
  /\ recovering \in (SUBSET Trials) \cup {{NoTrial}}
  /\ due \in BOOLEAN /\ alive \in BOOLEAN
  /\ crashes \in 0 .. MaxCrashes

\* Stopped by its policy, by the agent or by a user.
Halted == exp.term \in Early \/ exp.status \in {"cancel_requested", "cancelled"}

\* A halted experiment stays halted and starts no trial and no round: no
\* claim, recovery, late finalisation or crash brings it back.
HaltsForGood ==
  [][Halted => /\ Halted'
               /\ exp'.round = exp.round
               /\ \A t \in Trials : trial[t].status = "queued" => trial'[t].status # "running"]_vars

\* An experiment that is final, or waits for the agent, has no trial and no job
\* left: what the agent is shown is whole.  Except where the agent ended it
\* over running trials.
SettledIsWhole ==
  exp.status \in Ended \cup {"waiting_agent"} /\ exp.term # "controller"
    => InStatus(trial, Active) = {} /\ InStatus(job, Active) = {}

\* A trial ends once: its evidence is neither taken back nor done again.
TrialEndsOnce ==
  [][\A t \in Trials : trial[t].status \in Over => trial'[t].status = trial[t].status]_vars

\* What has ended stays ended: an experiment that was halted, and every trial.
EndsAreFinal == HaltsForGood /\ TrialEndsOnce

\* The verdict is the one the trials call for, whoever ended it and when.
VerdictFits ==
  exp.status \in Ended /\ exp.term # "controller"
    => /\ exp.status = "partially_failed" => Some(trial, "completed")
       /\ exp.status = "completed" => ~Some(trial, "failed")
       /\ exp.status = "failed" => ~Some(trial, "completed")

\* A candidate becomes a strategy only after a full run confirmed its evidence,
\* and no promotion waits for a run that nobody works at.
PromotionIsEarned ==
  \A t \in Evidence : /\ cand[t].promoted \/ cand[t].doc = "completed" => cand[t].confirmed
                      /\ cand[t].doc = "queued" => cand[t].runs > 0

\* Work ends: trials and an experiment at work come to wait for the agent, to
\* an end, or to a cancellation, with no trial left open.
AtWork == exp.status \in Active \/ InStatus(trial, Active) # {}
WorkEnds == AtWork ~> ~AtWork

\* backtest-performance.md: a promotion first creates a verification job, one.
OneVerification == \A t \in Evidence : cand[t].runs <= 1

\* research-experiments.md: a cancelled experiment lets running work finish
\* before it reaches cancelled.
CancelIsCarriedOut == (exp.status = "cancel_requested") ~> (exp.status # "cancel_requested")

\* research-experiments.md: a claimed trial checks the request again before its
\* job is created.
CancelledTrialGetsNoJob ==
  [][\A t \in Trials : job[t].status = "none" /\ trial[t].cancelReq => job'[t].status = "none"]_vars
=============================================================================

# Verification of the mini quant trading platform

TLA+ models, TLC configurations and TLAPS proofs for the parts of the platform
that keep state in PostgreSQL and on disk and share it between processes: the
backtest queue, the research experiments on top of it, the maintenance gate for
market data, the worker manager, the signal centre, paper trading, and the
prepared datasets and materializations that backtests share; and for the native kernel
that runs a backtest. The strategies the kernel and paper trading share
are modelled with it. Statistics and report layout are outside.

## The system

One PostgreSQL database is shared by an API process (FastAPI), a backtest worker
manager, the worker groups it starts (each a coordinator with a process pool), a
signal worker, the paper-trading scheduler inside the API process, and a daily
maintenance script. Nothing else connects them: every interaction is a row that
one process writes and another reads, an advisory lock, or a file in the
prepared-dataset cache. The sessions run at READ COMMITTED, with
`autoflush=False` and `expire_on_commit=False` (`core/db.py`), and SQLAlchemy
writes at commit only the columns that changed, addressed by primary key. So a
handler that reads a row without `FOR UPDATE`, decides, and commits can write a
decision about a row that is no longer there: most hazards below come from that.

| component | state | operations | hard behaviour | what makes it correct |
|---|---|---|---|---|
| backtest queue (`backtest_job_service.py`, `backtest_worker.py`) | `backtest_jobs`, `strategy_runs`, the rows of a run, the linked trial, the candidate's verification | enqueue, retry, delete, cancel, lease expiry, sweep, claim, execute, heartbeat | unlocked reads, leases lost under live children, crashes, follow-up failures | one child per attempt, requests are not lost, budget respected, job / run / trial / verification agree, every job ends |
| research experiments (`research_experiment_service.py`) | `research_experiments.status`, `experiment_trials`, progress | create, claim a trial, create its job, finish, cancel trial or experiment, stop policy, recover orphans, finalise | two workers finish the last trials together, cancels race claims, controller crashes | a final experiment stays final, finalised exactly when no trial is left, cancelled when asked |
| adaptive research and promotion (`adaptive_research_service.py`) | rounds, candidates, verification documents | plan a round, rank, promote | promotion while verifications run, are cancelled or fail | promoted only when verified |
| effectiveness study (`support_resistance_validation_service.py`) | parent and child experiments | advance the study | several workers advance it at once | stages in order, the holdout opened once |
| maintenance gate (`market_data_maintenance_service.py`, `run_daily_market_backfill.py`) | singleton state row, two advisory locks | submit, read lock, drain, update, finish, fail | work in flight, crash of the updater, lost connection | no work reads while source tables are written |
| worker manager (`backtest_worker_manager.py`) | leader lock, worker process, backoff | lead, start, observe exit, stop, stand by | lost lock connection, crashing workers | at most one worker group |
| signal centre (`signal_scan_job_service.py`, `signal_report_delivery.py`) | scans, reports, deliveries, render jobs | schedule, reconcile, claim, execute, send, recover | SMTP answers lost, leases lost, worker crashes | each stage owned once, a mail is sent at most once |
| paper trading (`paper_trading_service.py`, `paper_trading_scheduler.py`, `paper_portfolio_activation_service.py`) | runs, signals, transactions, broker orders | execute, submit, synchronise, schedule, activate | broker accepts and the answer is lost, restart, two schedulers | an intent reaches the broker at most once, one run per day |
| prepared dataset cache and its pipeline (`prepared_dataset_service.py`, `columnar_market_data_loader.py`) | a directory per annual chunk, lock files; a thread, a queue and an Event per run | open, build, publish, hand over, close, invalidate | several processes build the same entry while others open it without the lock; a main thread that leaves at any moment | a run computes on the whole window and leaves nothing behind |
| support/resistance materialization (`support_resistance_persistence_service.py`) | one live row per cache key, an advisory lock | find, build, attach, record a failure | builders and a failure record that takes no lock | built once, shared, never taken back |
| strategies, baskets, allocations | versioned rows | CRUD | few | idempotent creation by key |
| engine (`backtest_engine.py`) | the row of a run; none between runs | run a backtest | cancel checks, commits, errors anywhere | completed only with its whole result |
| native kernel (`backtest_kernel.cpp`) | cash, positions, orders of the next session, detectors; the threads of a session | create, consume a chunk, finish | threads that share the rows of a session, errors in one of them, chunks cut anywhere | each row decided once, orders fill at the next open, cash and slots suffice |
| ingestion scripts, API routing, read models, frontend | none of their own | I/O, queries, display | - | - |

Interactions: the API enqueues jobs and cancels them; the manager starts a worker
group when the queue has work; a pool child executes a job, finishes the linked
trial, and finalises its experiment, which may create the next round or the next
child study; promotion enqueues verification jobs, whose result is written into
the candidate; the signal worker walks a scan through report and delivery;
maintenance drains all of these before it touches the source tables.

## Backtest queue: `BacktestJobs`

`job[j]` is a row of `backtest_jobs`: `status`, `attempt`, `by` (`claimed_by`),
`lease` (`lease_expires_at` as NULL, in the future, in the past) and `cancelReq`
(`cancel_requested_at`). `run[j]` is the status of its `strategy_runs` row (the
run id is unique, so one index serves both), `details[j]` the attempts whose
signal, transaction and snapshot rows are stored, `trial[j]` the linked research
trial, `verif` the verification document of one candidate, `retriedBy[j]` the
`retried_by_run_id` of the payload. `child[e]` is a pool process with its program
counter in `execute_backtest_job` / `run_backtest`. `sweep`, `client`, `beat` and
`child[e].seen` are the snapshots that open transactions hold.

A handler that locks what it reads (`Retry`, `Delete`, `Claim`) is one action. One
that does not is a read that takes a snapshot and a write that applies `Flush`:
the columns the handler changed relative to its snapshot are written, the others
keep what is stored. `SweepWrite` commits all rows of a sweep together, with the
runs and trials. A deleted row makes a flush fail and roll back.

| action | code |
|---|---|
| `Enqueue`, `Retry`, `Delete` | `enqueue_backtest_job`, `retry_failed_backtest_job`, `delete_terminal_backtest_run` |
| `CancelRead`, `CancelWrite` | `request_backtest_cancel` |
| `LeaseExpires` | time passes `lease_expires_at` |
| `SweepRead`, `SweepWrite` | `recover_expired_jobs` |
| `Claim`, `ClaimCancelled` | `claim_next_backtest_job` |
| `Begin` ... `EngineCommits` | the start of `execute_backtest_job` and the commits, cancel checks and handler of `run_backtest` |
| `CompleteRead`, `CompleteWrite`, `CompleteFails`, `FinalizeExperiment`, `FailRead`, `FailWrite` | the end of `execute_backtest_job`: refresh, terminal commit, follow-up, exception handler |
| `HeartbeatCheck`, `HeartbeatWrite` | `_heartbeat_job`, `_update_job_progress` |
| `Crash` | a coordinator dies or its pool breaks |

Two switches say which assumption a property needs. `Interleaved = FALSE` lets a
transaction run only when no other is between its read and its write, as if every
handler locked its rows; `TRUE` is the code as it is. `LateChildren = TRUE` lets a
lease run out under a live child (a long stall, an unreachable database).
Properties that need a switch off are true of every execution in which the race
in question does not happen; the hazards say what the race does.

| run | instance | shows |
|---|---|---|
| `jobs_live` | one research job, two groups, two sweepers, a cancel, a crash; interleaved; `FairSpec` | one child per attempt, a request is never lost, every queued or running job ends |
| `jobs_serial` | two verification jobs of one candidate beside a research job, one slot that may restart after a crash while its old job is still marked running; not interleaved; symmetric verification jobs | `OneStory`: job, run, stored rows, trial and verification agree. `RetriesInOrder`: budget, meaning of the queue, retry chain. Final states of verification jobs are final |

Bounds: `MaxAttempts = 2` is the default of the code and already has a first, a
last and an exceeded attempt. Two sweepers, two groups and one cancel are the
smallest sets in which each race can happen. `MaxLate` and `MaxCrashes` bound the
faults, not the actors. `CHECK_DEADLOCK FALSE`: the queue may be empty for ever.
Symmetry is used in `jobs_serial` only, which has no liveness property.

Fairness: the manager's worker group polls `recover_expired_jobs` and
`claim_next_backtest_job` for ever, so sweeps and claims are weakly fair; a live
child runs on; time passes, so the lease of a dead child runs out. Clients,
crashes and delays are not fair.

## Signal centre: `SignalJobs`, `MailOnce`

Scans, reports, deliveries and export jobs are four tables with the same job
columns. `row[j]` holds them (`status`, `attempts`, `by` = `claimed_by`, `lease`);
`published[r]` and `expired[r]` are the two dates of a report, `mails[d]` counts
the messages the SMTP server has accepted. A worker process holds one job at a
time; `worker[w].pc` is its place in `run_once` and in the service it calls,
`out` the status it has assigned and not yet committed.

| action | code |
|---|---|
| `EnqueueScan`, `MakeReport`, `Deliver` | `enqueue_scan`, `make_report`, `deliver` |
| `Reconcile`, `ReconcileRead`, `ReconcileWrite` | `reconcile` under the advisory lock at the start of a pass, and without it after a publication |
| `Claim`, `Recover` | `claim` with its `recover`: one commit. The claim query does not see the rows just recovered, because the sessions do not autoflush |
| `Beat`, `LeaseExpires`, `Crash` | heartbeat thread, time, death of the process |
| `Scan`, `PublishReport`, `Render` | the work of a job up to its commit |
| `Prepare`, `RefusedEarly`, `Mark`, `ServerAccepts`, `Answered` | `send_delivery`: checks under the report's shared lock, the dialogue before DATA, the `sending` commit, acceptance, answer or loss |
| `Publish` | `SELECT claimed_by ... FOR UPDATE` and commit; for a report also `published_at` and its export job |
| `HandlerRead`, `HandlerWrite` | the exception handler of `run_once` |
| `RetryRead`, `RetryWrite`, `Rerender` | API requests |
| `Tombstone`, `SweepRead`, `SweepWrite`, `CleanerCrash` | `cleanup` |

The server is nondeterministic: it refuses for now or for good, accepts, or the
connection is lost on either side of the acceptance. `LateWorkers` says whether a
lease may run out under a live worker; without it a lease runs out only under a
dead one; with it a late worker can also leave a delivery `sending` with no lease for
ever, which no recovery finds. A partial scan counts as completed (both are terminal and reported on).
Rows are claimed in any order rather than the oldest first, and a worker visits
the queues in any order: more behaviours than the code has.

`MailOnce` is the promise about one e-mail: an attempt announces itself, the
server accepts at most one message, and the attempt ends confirmed, refused or in
doubt; a doubtful attempt has no successor. `MailsOnce` maps `sending` to
"underway", `sent` to "sent", `unknown` to "doubtful" and everything else to
"open", and the runs check that every step of the code is one of the abstract
protocol or a stutter.

| run | instance | shows |
|---|---|---|
| `signals_mail` | a report that a user makes of one scan, its export job, one recipient; two workers, one user who retries and renders again, two crashes, three attempts | honest rows, verdicts stand, and at most one mail: implements `MailOnce` |
| `signals_live` | a scheduled scan and its report, one recipient; two workers, the cleanup, a crash of either, two attempts; fairness | deliveries end, reports follow scans, nothing mailed after expiry |

Bounds: `MaxAttempts` is 3 in the code and in `signals_mail`; `signals_live` has 2,
which keeps a first, a last and no further attempt. Two workers are what every
race needs; one crash is enough to stop at any point, two to lose a successor as
well. `signals_mail` with two recipients (4.4 million states) was checked by hand
with the same result. The theorems about mail cover users and cleanup together. `CHECK_DEADLOCK
FALSE`: the queues may be empty for ever. The recipients of one report and the
workers are interchangeable, and no run with symmetry has a liveness property.

Fairness (`signals_live`): a worker's own steps are weakly fair, SMTP calls having
timeouts; each queue is polled again and again because a pass gives every queue
one claim, hence strong fairness of the poll of each queue by some worker; dead
workers' leases run out. Clients, crashes and the server's answers are not fair.

## Maintenance gate: `MarketDataMaintenance`

`gate` is the row of `market_data_maintenance_state`; `coordinator` and
`exclusive` are the two session locks of the updater's connection, `shared` the
holders of the lock that readers take until their transaction ends. `work[w]` is
a counted piece of work: "checked" is a submission that has read the row `FOR
UPDATE` and not committed, "active" a queued or running job or scan, or an
experiment that has not ended. `reader[r]` is a transaction that reads market data
and `loaded` the `version` of the tables it found. `updater[u]` is the program
counter of one `MaintenanceWindow`, whose connection commits statement by
statement; `writing` are the updaters whose child script runs. `whole` is false from
the first write until the quality gate passes.

| action | code |
|---|---|
| `Submit`, `Commit`, `Abandon` | `assert_market_data_submission_allowed` and the end of the request's transaction |
| `Spawn` | `enqueue_backtest_job` with a source other than "manual": the gate is not asked |
| `Begin`, `AcquireShared`, `Admit`, `Refuse`, `EndRead` | `acquire_market_data_read_lock` (lock, then row) and the transaction around it in `run_backtest`, `execute_scan` and a paper run |
| `PublishDataset`, `PaperSyncs` | `PreparedDatasetCache.build`; `_sync_strategy_pending_orders` |
| `Start`, `Drain`, `FindNoWork`, `TakeExclusive`, `BeginUpdate`, `InvalidateMaterializations`, `InvalidateDatasets` | `MaintenanceWindow.start` |
| `RunScript`, `ScriptEnds`, `QualityPasses`, `Raise` | `_run_step`, the guard the scripts call, the quality check, an exception or a signal |
| `Succeed`, `Fail`, `Close`, `Die` | `succeed`, `fail_if_open`, the end or the death of the process |

PostgreSQL grants a shared request only if no exclusive one is held or waits
before it (`SharedGranted`); that is why a reader that is already waiting cannot
starve the updater.

Three things the code does not exclude are in the model, and the properties
name what they cost:

- `PaperSyncs`: a paper run that finds pending orders commits between taking the shared
  lock and reading market data, and the lock goes with that transaction. From then on it is
  `Unlocked`: nobody waits for it, and what it reads may change under it. It may also store a
  materialization of the version it began with; `stray` says that the one there is such.
  `NoReadWhileWriting`, `ClosedUntilWhole` and `CachesAreCurrent` except these by name;
  `LockedReadsFinish`, which does not, is what the documentation says and fails (see the findings);
- `Die` may leave the script of a killed updater running. It asked for the owner once, so it
  writes until it ends, also in a later window and after it. `NoReadWhileWriting` allows
  that writer and no other;
- `EndWork` asks only that the job is active: a sweep can end a job whose child lives on. Such
  a child may wait for the lock and be admitted by a later window, while it drains, to tables
  that a broken window left. `ClosedUntilWhole` says nothing of it.

## Effectiveness study: `EffectivenessStudies`

Composes the gate with one support/resistance study: the parent (`study`) and its
children are experiments of the gate (`Managed`: their life is described here).
Every child is created through `create_category_study`, which asks the gate, by the
follow-up of the job that ended the child before it. `tries[c]` counts how often
that follow-up can still be tried, `folding` and `seen` are follow-ups between a read
and a commit, `outcome[c]` is what an ended child has to show.

Only `_commit_trial_and_finalize_experiment` calls `advance_effectiveness_study`. A child that is
finalised by the sweep of the stop policies (which every child has), by a report of token usage,
by the recovery of orphaned trials, by a cancellation while nothing runs or by a failure of the
controller ends without a follow-up (`EndUnheard`). An annual child whose siblings' follow-ups
are still to come is seen by them; otherwise nobody ever goes on with the study, which
`unheard` records, and the study stays open. `WaitUnheard` is the same for a round of the discovery
that is not its last: the recovery finalises it and nobody submits the next.

| action | code |
|---|---|
| `CreateStudy`, `CreateDiscovery` | `create_effectiveness_study`, which commits the parent first |
| `EndChild` | `_commit_trial_and_finalize_experiment`: `_finalize_if_ready` of the child, whose job then owes a follow-up |
| `EndUnheard`, `WaitUnheard` | `_finalize_if_ready` where it is called without one: `enforce_active_experiment_stop_policies`, `update_experiment_token_usage`, `recover_orphaned_trials`, `cancel_experiment`; `record_controller_failure` |
| `Ignore`, `Conclude` | the early returns of `advance_effectiveness_study`, `finalize_validation_report` |
| `LookForFolds`, `StartFolds`, `CreateFold` | `_create_fold_children` |
| `LookForFinal`, `CreateFinal` | `_create_final_child` |
| `CancelChild`, `CancelStudy`, `RetryReport` | `cancel_experiment`, `retry_effectiveness_report` |

| run | instance | shows |
|---|---|---|
| `gate_window` | two maintenance processes, a job, an experiment, a paper run, one killed updater; fairness | no table changes under a reader that has its lock, the drain is complete, broken tables stay closed, caches follow the data, a drain ends |
| `study_stages` | a study with two annual folds, one maintenance process that may be killed, two tries per follow-up, ends without follow-up; fairness | stages in order and on complete evidence, one version of the tables per study, a study that is neither cancelled, refused nor `unheard` ends |

One switch is left, `EarlyReports`: an operator retries the report of a study that has not
ended. With it `StudySeesOneVersion` fails (see the findings).

`EffectivenessStudiesProofs` proves the four safety properties of the gate without any
hypothesis and, of the study, `StagesInOrder` and, without early reports, `StudySeesOneVersion`.

Bounds: two updaters are needed for one to find the other's locks or remains; one
job, one experiment and one paper run are one reader or work of each kind, and
the proofs cover any number. Two annual folds are enough for one to look at an
unfinished or simultaneous sibling (the code has three). `MaxTries` is the budget of
a job. `MaxDeaths` bounds the updaters killed. `CHECK_DEADLOCK FALSE`: everything
may be over.

Fairness: a reader's transaction ends, an updater goes on, a script ends, because
each is a finite piece of code without waiting other than for the locks modelled. A
job ends although its reader may come and go (`ActiveJobsEnd` shows that of the
queue), so `EndWork` is strongly fair, as is the quality gate, which comes after
finitely many scripts. Submissions, readers that begin, failures and deaths are not
fair. In the study a request that has begun, a child and a follow-up go on.

## Experiments: `ResearchExperiments`

One adaptive experiment. `exp` is its row (status, termination, rounds so far),
`trial` its trials, `job` the `backtest_jobs` row of each trial as `BacktestJobs`
leaves it to be seen from here (a job and its trial end in one commit), `cand` the
candidate each out-of-sample trial belongs to: ranked or not, the verification in
its metrics (`doc`), verification runs under way, whether one confirmed the
evidence, whether it became a strategy. `ctl[c]` is a thread in `process_next_trial`,
`request` a `cancel_experiment` between its read and its commit, `recovering` the
trials `recover_orphaned_trials` has read, `fin[t]` the second transaction of
`_commit_trial_and_finalize_experiment`, owed by the handler that ended trial `t`
and lost when its process dies.

| action | code |
|---|---|
| `EnforcePolicy`, `PolicyFallsDue`, `UpdateTokenUsage` | `enforce_experiment_stop_policy` at every claim and at a report of token usage; time, a target, a budget |
| `Look`, `Claim` | `_claim_trial`: the limit on running trials, then a locked queued trial |
| `FinishCancelledClaim`, `PrepareBacktestRun`, `EnqueueJob`, `TrialFails` | `process_next_trial` after the claim |
| `JobStarts`, `JobRequeued`, `JobEnds` | the queue, as far as a trial sees it |
| `FinalizeRead`, `FinalizeWrite` | `_commit_trial_and_finalize_experiment`, `_finalize_if_ready`, `finalize_adaptive_round_if_ready` |
| `CancelTrial`, `CancelRead`, `CancelWrite` | `cancel_trial`, `cancel_experiment` |
| `SubmitRound`, `ControllerFails` | `submit_experiment_round`, `record_controller_failure` |
| `Promote`, `RetryVerification`, `VerificationEnds` | `promote_candidates`, the retry and the end of a full verification run |
| `Crash`, `RecoverRead`, `RecoverWrite` | death of the API process, `recover_orphaned_trials` |

The session is created with `autoflush=False` and `expire_on_commit=False`. That is
part of the model: a commit writes only the columns that changed since they were
read (`Flush`), counts see the database and not the session (`CancelWrite`), and a
locked row that is loaded already keeps its old values (`EnqueueJob`).

`Overtaken` says whether other handlers run between two steps of a handler. No
property about verdicts holds if they do, because `_finalize_if_ready` neither locks
the experiment nor asks whether it is final; the run checks the logic of the
handlers with `Overtaken = FALSE`, crashes included, and the hazards name what each
property does otherwise. `ResearchExperimentsProofs` proves the safety properties for any number of trials,
rounds and controllers, and `PromotionIsEarned` with `Overtaken = TRUE` too. Three promises of the documentation fail even so:
`CancelIsCarriedOut`, `CancelledTrialGetsNoJob` and `OneVerification` are in the module for
whoever repairs them.

| run | instance | shows |
|---|---|---|
| `exps_rounds` | two rounds with two and one trials, two controllers, two attempts per job, a stop policy, one crash of the API process, two candidates with two verification runs each; fairness | settled experiments are whole, halted ones stay halted, trials end once, verdicts fit, strategies are earned, work ends |

Bounds: two trials in a round are one that finishes early and one that finishes
late; a second round is needed for evidence of an earlier one to be ranked anew;
two verification runs let one be forgotten. `MaxRuns` bounds the verification runs of a
candidate, `MaxCrashes` the crashes. `CHECK_DEADLOCK FALSE`: everything may be over.

Fairness: whenever work is left again and again, some of it is done (`Work`: the
worker's poll, jobs, finalisations, recovery), and a cancellation that has been read is
written. Users, the agent, time and crashes are not fair. Nothing is said about which
work is done first: every kind of work is finite.

## Worker manager: `WorkerManager`

`lock` is the session that holds the PostgreSQL advisory lock of the leader;
`manager[m]` is the place of a manager in its loop, whether it believes to lead, the
group it started and whether the delay before the next start is over; `group` are
the worker groups in the order of their start, `job[j]` what a manager sees of
`BacktestJobs`. `calm` is a history variable: no manager died, no leader lost the
session of its lock, and none failed while it stopped.

| action | code |
|---|---|
| `Acquire`, `AcquireFails` | `AdvisoryLeaderLock.try_acquire`: the session it has, or a connection of the pool, which may be the one the lock was left in |
| `Observe`, `QueueHasWork`, `StartWorker` | `run`: `_observe_worker_exit`, `_queue_has_work` (recovers first), `_start_worker` |
| `IterationFails`, `DelayPasses` | the handler of `run`, `restart_delay_seconds` |
| `RequestStop`, `StopWorker`, `StopFails`, `Release` | a signal, `_stop_worker`, a raise before it, the end of the process |
| `Die`, `Restart`, `LoseSession` | the process is killed and started again, the server ends a session |
| `Enqueue`, `Claim`, `FinishJob`, `Exit`, `ClaimFails`, `Drained`, `Crash`, `LeaseExpires` | the queue, and `run_worker` with `--once` |

A group has database sessions of its own and never looks at the lock: that is why
`OneGroup` needs `calm`. One death or one lost session leaves the old group beside
the one the next leader starts, although the documentation has the lock so that
only one group runs. `BacktestJobs` shows what two groups cost the jobs: nothing
that its properties promise.

| run | instance | shows |
|---|---|---|
| `manager_groups` | two managers, two jobs, two slots, two faults of any kind; fairness | one group as long as calm, and every queued job ends whatever fails |

Bounds: two managers are a leader and its successor; two jobs let a group be busy
with one while the other waits; two faults let a second thing fail while the
first is being recovered from. Deadlock is checked: a manager always polls.

Fairness: managers poll every two seconds, delays and leases pass, groups go on,
each being a loop without waiting for another. A manager whose pooled session
still holds the lock gets it back because the pool hands its connections out in
turn. Faults and clients are not fair.
`BacktestWorkersProofs` proves `OneGroup`.

## Paper trading: `PaperOrders`, `OrderBook`, `PaperEntries`

`PaperOrders` is one account at the broker that several strategies ("sleeves") of
a portfolio share. `orders` is what the broker has, `ledger` the transaction rows,
`runs` the `strategy_runs` rows, `runner[r]` a thread that runs strategies: its
place, the strategies left, and what it holds in memory (broker answers not
committed yet, positions, open orders, signals to trade, the sleeve it rebuilt).
`today` is the latest complete trade date. Prices are 1.

| action | code |
|---|---|
| `Poll`, `Request`, `Rest` | `_poll_once` with `_has_scheduler_run_for_trade_date`; the API and an activation; the loop of `run_multi_strategy_paper_trading` |
| `Begin` | `run_paper_trading` commits its row first |
| `SyncRead`, `SyncCommit` | `_sync_strategy_pending_orders`: ask the broker, commit all answers |
| `ListPositions`, `ListOrders`, `Check`, `Refuse` | the two broker calls and `build_broker_account_isolation_report` |
| `Evaluate`, `Skip`, `Submit`, `Record`, `Reject` | the sleeve is rebuilt from fills; `Asks` is what makes an instruction an order; `_execute_paper_orders`, `_submit_paper_order` |
| `Complete`, `Fail`, `LoseAnswer`, `Die` | last commit; exception handler; the broker accepts and nobody hears; the process ends |
| `Fill`, `Expire` | the broker |

`PaperOrdersProofs` proves all four properties of the run: `CompletedRunOwnsItsOrders`,
`ScheduledOnce`, `OneLotAtMost` and the refinement of `OrderBook`.

`Moved` and `Entered` are what each order has moved at the broker and by its row;
`Held`, `Booked` (of the account, `_build_local_broker_tracking_index`) and `HeldBy`,
`BookedBy` (of one sleeve) sum them. `Replayed` applies fills in the order of the
broker's time stamps, as `_rebuild_virtual_subportfolio_state` does; `Rebuilt(s)`
replays the rows of a sleeve.

`OrderBook` is the promise: an instruction is asked once, is never overfilled, and the
books follow the broker without running ahead. `Book` maps orders to `asked` (the
instruction is strategy, day, symbol and side) and ledger rows to `booked`. This
holds whatever overlaps, because a client order id is a function of the
instruction and the broker refuses a second one.

`calm` is a history variable that names what `OneLotAtMost` depends on. Outside
of it the program does go wrong, and the hazards say how: runs that overlap buy
twice; a lost answer to a sale that fills is never seen, because the isolation
report goes over the positions of the broker, and the next sale goes short; the
market moves between the four readings of a run; a sale sent while its purchase
is open is replayed first and clamped at nothing. The fifth condition, `Masked`, came out of
the proof: the isolation report adds up the account (`paper_account_service.py:452`), while a
run has synchronised its own sleeve's rows only (`paper_trading_service.py:259`). If a
purchase of sleeve 1 whose answer was lost fills, and a sale of the same symbol by sleeve 2
has filled but its row has not been read yet, the two differences cancel; the report
passes and sleeve 1 buys again. It takes four orders of four runs, which the instance of
the run does not have. Also found while modelling: `SlotsKept`
(below); a strategy that is blocked because an order of another filled
since that one's own synchronisation; `ScheduledOnce` with two scheduler processes.

`PaperEntries` follows the purchases of support/resistance strategies, which wait
for the next open: `signal` is the intent kept with a signal, `row` its transaction
row, `poll` one pass of `process_pending_support_resistance_entries` with what its
session has not committed. `Begin`, `Turn`'s alternatives (`Expire`, `Wait`, `Skip`,
`Adopt`, `Submit`/`Record`, `Reject`), the follow-up of submitted intents (`Sync`,
`Leave`, `Cancel`, `CancelRefused`) and `End` are the branches of that function;
`Abort` and `LoseAnswer` end a poll with its marks. `summary` is the count of pending
entries in a run's summary, which `End` refreshes for the runs the poll came by
(`_refresh_pending_run_summary`); when it reaches nothing the code also takes the final
equity and a snapshot. `Followed` (an open order has an intent that follows it) fails
with one lost answer, `BookedOnce` (two rows of one order do not both count its fill)
without any fault, and `SummariesFollow` (every run reports nothing pending in the end) with
one failed poll: the marks of a run go with the commit of another run's row, the poll
fails, and no later poll comes by the first run, whose entries are all decided. The
three are in the module for whoever repairs them. A submitted intent stays
actionable for ever, so every later poll asks for its orders again and adds a snapshot.
`PaperEntriesProofs` proves `ReportsAreTrue` and that decisions and rows stand.

| run | instance | shows |
|---|---|---|
| `paper_orders` | two sleeves, one symbol, the scheduler and a request, two days, two runs, two orders, one fault | a completed run owns its orders, one scheduled run a day, a sleeve between nothing and one lot while calm, implements `OrderBook` |
| `paper_entries` | three intents of two runs, two of them with one client order id, orders of two shares and of one, one fault; fairness | `ReportsAreTrue` (a submitted intent is in the ledger, no run reports too few pending entries); in the end every intent is decided, its row says what became of the order, and its run reports nothing pending |

Bounds: two sleeves in two runs that may overlap are what the isolation report and
the interference need, two orders are a purchase and its sale or one of each
sleeve. Checked by hand with the same result: two sleeves with four orders and four
runs one after another (34 million states), one sleeve with two overlapping
runners, three orders and three runs (3.5 million), and `Lot = 2`, which has
partial fills (14 million).

Fairness (`paper_entries`): the scheduler polls every minute, the cutoff passes, and
no order outlives its day. The broker need not fill anything, and faults need not
happen. `PaperOrders` promises no progress: a failed day is not taken up again.

## Prepared datasets and runs: `PreparedDatasets`, `BacktestRuns`

`PreparedDatasets` is what several backtests do to one manifest of annual chunks.
Of each entry on disk it keeps the metadata ("none", "full", or "bare" if it was
built without split adjustments), whether the arrays are there, and the holder of the
lock file (`flock`). A run has a main thread (`main`) and a producer thread
(`producer`) that works one chunk ahead of it; between them are `queue` with room for
one item, the Event `stop`, and the arrays `mapped`. `taken` is what the kernel has
consumed, `verdict` how the main thread left. Files disappear one by one when an
entry is removed, so an entry can be torn: initially any may be.

| action | code |
|---|---|
| `Preflight`, `LoadSplits`, `Hydrate` | `_load_prepared_dataset`: if the metadata of every chunk is there, the splits are not read |
| `Check`, `Stopped`, `OpenMetadata`, `OpenArrays` | `_produce_chunks`: the same preflight again, then `open` without the lock |
| `Reuse`, `Write`, `Unlink`, `Replace` | `PreparedDatasetCache.build` |
| `Offer`, `Put` | `_offer`, `_produce`: the error and the end go through the same queue |
| `Take`, `Compute` | `__next__`, the loop of `run_backtest` |
| `SetStop`, `Drain`, `Sweep` | `close` |

`BacktestRuns` extends it with what comes before and after: the row of the run, the
transaction that stores its result, the error handler, and the materialization
that runs with the same detector share: the `live` row of the key, the advisory
lock, the row inserted and not committed, and a paper run that may record a
failure without the lock. `stale` are the runs whose session loaded the row as failed in the
search without the lock (`Seek`): the select under the lock gives them the same object, which the
session does not read again, so `Look` takes a row that another run has completed meanwhile for
failed, and builds it again. `made` are those who have committed a build.

| action | code |
|---|---|
| `Begin`, `WriteDetails`, `Commit`, `Abort` | `run_backtest` |
| `Seek`, `LockKey`, `Look`, `InsertRow`, `Clash`, `Build`, `Attach` | `persist_support_resistance_run`; the partial unique index makes an INSERT wait for the other one and then fail |
| `RollBack`, `Record`, `NoteInsert`, `NoteCommit` | `record_failed_materialization_after_rollback` |
| `Crash` | a worker process is killed: the kernel drops its lock files and mappings |

| run | instance | shows |
|---|---|---|
| `backtest_data` | two backtests over two chunks, a paper run, one killed process; symmetric runs | a completed run has computed on its whole window with its splits, nothing is left behind, a materialization is built once and shared, but for the second build below, a failure takes none back; and nobody blocks for ever |

Deadlock is checked, with `Rest` as the only end: `close` never waits for a
thread that waits for it, and no lock is held by nobody. Bounds: two runs race for an
entry and for the key, two chunks have a first and a last and let the second be
built while the first is computed on. By hand: three chunks without the paper run,
and chunks without any row (`Empty`), with the same result.

`WholeResult` leaves the splits open under `halfway`. The race is real: a run whose
first preflight saw the metadata of every chunk reads no splits; if its thread's
preflight then misses one entry that another run is replacing, it rebuilds any other
torn entry without corporate actions, and publishes that for all later runs. It
takes two torn entries, and three chunks without a kill or two with one
(`prepared_dataset_service.py:225`). `BuiltOnce` has three parts: whoever is attached to the
materialization finds it completed (`AttachedIsCompleted`); `OneBuilds` counts the builds
that are committed; `BuildersShare` says that nobody fails on the unique index. The last two except the
record of a failure. Its INSERT takes no lock, and a builder that found no row fails on it. And of
two that have built the same key one is `stale`: it loaded the failed row before it had the lock.
The run reaches both.
No fairness and no liveness: a finite program, whose end the deadlock check covers.
`BacktestRunsProofs` proves `RunsAreWhole` and `BuiltOnce` for any number of runs, chunks and kills.

## The native kernel: `BacktestKernel`, `DayExecutor`, `PatternDetectors`, `SupportResistance`, `DaySignals`, `NextOpenLedger`

`BacktestKernel` is one backtest session of the C++ kernel: `run` is its strategy and
window, `clock` the place in `consume`, the date, the end of the chunk and the two
session counters, `book` what survives a session (cash, positions, last marks, the
orders of the next session, the rows seen and the detector of each instrument), `day`
what one session computes. What a row holds is chosen when its session begins, from
`RowsOf`: for the three indicator strategies a sign stands for the values they
compare, for the five patterns and for support/resistance a row is a bar. Money is whole numbers.

| action | code |
|---|---|
| `Consume`, `ConsumeRejected` | the chunk checks and the creation of the executor in `consume_native_backtest` |
| `OpenSession` | warm-up or formal; splits, delistings |
| `SellFill`, `SellDropped`, `StartBuying`, `BuyFill`, `BuyDropped`, `StopBuying` | the fills at the open, one order at a time; `EstimateBuy` is `estimate_buy`, `SizedOrder` what support/resistance makes of it (channel, risk budget, fees of both ends) |
| `StartDecisions`, `EvaluateRow`, `DecisionsReady` | `for_each` over the rows; `TrendSignal`, `MeanReversionSignal`, `MomentumSignal`, `PatternSignal`, `SupportSignal` are the branches of `evaluate_signal`, `Excluded` the universe policy; in the warm-up the rows only feed the detectors |
| `CloseSession` | orders for the next session, marks, the control callback, the count of formal sessions |
| `FinishBacktest`, `Destroy` | `finish_native_backtest`, which raises if there was no formal session or, for support/resistance, if the callback cancels while the audit is finalised; the session object goes |

`DayExecutor` is `DayParallelExecutor`: `pool` is what its mutex protects, `worker[w]` and
`caller` the local variables of `worker_loop` and `for_each`. Critical sections are one
step, a condition variable may wake a thread for no reason (`Spurious`).

`PatternDetectors` is `pattern_core.cpp` as operators, without variables: the five bottom
patterns (island reversal, double bottom, head and shoulders, rounded bottom, V
reversal), the exits of a position by pattern, and the stages of an entry. Four of them
look at the bars kept; the double bottom remembers a left bottom, a pattern and a
breakout by their places in the bars, moves the places when it drops the oldest bar
(`Prune`) and advances one bar at a time (`Advance`). `AppendBar` and `EvaluatePattern` are
`append_pattern_bar` and `evaluate_pattern`; `Replayed` is the loop of
`evaluate_pattern_day`, which paper trading calls with the bars it read. Prices and
ratios are whole numbers and percentages; the fitted parabola of the rounded bottom is
`Bowl`, which the instance gives as the vertex of a tape.

`SupportResistance` is `support_resistance_core.cpp`, also without variables. What is kept
of an instrument is one record; `AdvanceSymbol` is `advance_market_symbol`, one bar: open or
end a phase (`OpenPhase`), find the channel and the regime, settle the exits of the position
and of the episode the statistics follow, weigh the bounces (`Candidate`, `Eligible`), then
confirm pivots and fit new zones to them (`ConfirmPivots`, `RebuildZones`). Lines are fitted
as the code does, through weighted medians of the slopes between pivots, in whole parts of
a price (`Grain`); `Decay` gives the weight of an age. A run can be given the zones and
regimes an earlier one stored (`Hydrated`, `ActivateZones`, `CachedRegime`); then it fits
nothing. `ReplayedFrom` is the loop of `evaluate_support_resistance_day`, which paper trading
calls. Audit events are left out.

`DaySignals` is what paper trading calls for a day (`evaluate_day` of `quant_kernel.cpp`,
`annotate_signal_strength`, `_inject_virtual_positions`), also without variables: the snapshot of
a row, the three indicator strategies in their second implementation, the dispatch to the
detectors, the strength of a purchase.

`NextOpenLedger` is the promise about orders, whatever the strategy, the prices and
the chunks; `Ledger` maps the kernel to it.

| run | instance | shows |
|---|---|---|
| `kernel_days` | a trend backtest with two threads and three instruments, a mean reversion and a momentum one without threads, with every way to cut three to five sessions into chunks, one gap, one split, one delisting; a backtest per pattern on a tape with one instrument, a warm-up and two chunks; a support/resistance backtest of three instruments (one tape that ranges, rises, falls), with a warm-up and two chunks; fairness | `RowsOnce`, `Solvent`, `FillsAtNextOpen` (the refinement), `DecidesAsReplayed` and `BacktestEnds` |

`DecidesAsReplayed` says that a backtest, whose detector has lived since the warm-up,
decides every close as a new detector would that is given only the bars kept, which is
how paper trading and the backtest come to the same decision. It depends on three things:
the history kept is long enough for the parameters (`HistoryLimit`), every remembered
place moves when a bar goes, and nothing is remembered that the kept bars do not show. For
support/resistance it says more: zones, phase, regimes, channel, statistics and the decision
of a run that has lived since the warm-up are those of a run fed the same bars from nothing,
and those of a run that takes zones and regimes from the stored timelines. The second depends
on every place where a zone or a regime changes leaving a version of the right date behind:
a version counts from the session after it was written, and a phase that ends must close the
versions of its zones. The cooldown after a stop is passed in by both callers; paper trading
derives it from its transactions (`paper_trading_service.py:333`) and finds one stop per
position, so the equality is stated with the same stops on both sides. The service reuses a
stored run only when it covers exactly the same instruments and dates
(`support_resistance_persistence_service.py:121`), which is why one run's own timelines are what
is compared.

Bounds: two threads share three rows, so that one has one and the other two; a gap is a
missing row or open; three instruments and two slots make a purchase that finds no
slot; the cash and the fees make one whose fee does not fit any more. `MCPatternTapes`
holds one tape per pattern, long enough for its setup, entry, next stage and exit, with
bars that may be replaced at the places where the pattern can fail. The windows of the
patterns are small (three-bar ATR, `HistoryFloor` and `HistorySlack` 0 where the code has
40 and 10), so that the double bottom's history of 17 bars is exceeded by its
tape and pruning happens under a remembered breakout. A split moves neither the
remembered prices nor the level that invalidates a setup; the pattern backtests have no
split. The support/resistance
tape makes two pivots of each kind, a channel, a bounce and a purchase; its replacements make
an open that is too dear or below the channel, a close that stops the position, one that breaks the
support, and one that does nothing. Its windows are small (pivots one bar wide, lines four bars
long), as are the caps on zones.
Fairness: the caller and each worker run while they can (`Fairness`); that a thread goes on
to its next row is stated of the executor alone (`WF_executorVars` of `RunRow`), which
only `EvaluateRow` can do, so it is the same and cheaper to check. Spurious wake-ups are not
fair, and no property needs them.

`BacktestWorkersProofs` proves `RowsOnce`, `Solvent` and the refinement `FillsAtNextOpen` for any rows,
prices, strategies, chunks and numbers of threads, and `DecidesAsReplayed` of every strategy but
double bottoms and support/resistance (`ReplayAgrees`). `DecidesAsReplayed` of those two and
`BacktestEnds` are model-checked only.

## Findings

These were met while modelling, at the lines the hazards give. To see one, state the
property named in an instance of its module:

- a purchase that the broker has accepted and not filled counts neither as a position
  nor as spent cash (`paper_trading_service.py:1707`): with one slot a run sends two
  purchases, although `docs/signal-strength.md:11` says that entries run until cash or
  `max_positions` is exhausted (`SlotsKept` of `PaperOrders`, with the sleeves of
  `Alone`, two symbols, `MaxPositions = 1` and no fault);
- the isolation report compares the account, not the sleeve
  (`paper_account_service.py:452`), with rows of which only one sleeve's were synchronised: a
  purchase without a row and another sleeve's sale not read yet make up for each other, and the
  first sleeve buys a second lot (`OneLotAtMost` without `Masked` in `Watch`, with
  four runs and four orders);
- a verification job that is cancelled while it runs and whose worker then dies is
  closed by the sweep (`backtest_job_service.py:415`) without
  `_cancel_candidate_verification`: the candidate's verification stays `queued`
  and blocks promotion (`CancelledVerificationIsCancelled`);
- the follow-up on the experiment (`:774`) runs after the job was committed
  `completed` and inside the `try` of the attempt: when it raises, the completed job
  goes back to the queue (`ResearchTerminalIsFinal`);
- `send_delivery` commits `sending` without asking who owns the row
  (`signal_report_delivery.py:49`): a worker whose lease ran out writes over the
  `sent` of its successor and mails again (`VerdictStands` with `LateWorkers = TRUE`);
- while a window drains, the next child of a running study is refused like a new
  study (`adaptive_research_service.py:389`): the study never ends, and the drain
  waits for it for ever (`run_daily_market_backfill.py:115`; `StudyLetsTheDrainEnd`);
- a paper run with pending orders commits after it took the shared lock
  (`paper_trading_service.py:2068`) and before it reads market data, so the update does not
  wait for it, although `docs/backtest-performance.md:132` says that work which already holds
  a shared advisory lock can finish (`LockedReadsFinish`); what it reads may change under it, and a
  materialization it stores may be of the old version and stay until the next window;
- a child of a study that the stop policies, a report of token usage, the recovery of
  orphaned trials, a cancellation or a failure of the controller end is followed up by
  nobody (`research_experiment_service.py:276`, `:628`, `:781`, `:253`,
  `adaptive_research_service.py:699`): the study stays open and every later drain
  waits for it (`StudyEnds` without `unheard`);
- a run that loaded a failed materialization before it waited for the advisory lock
  sees it failed under the lock as well (`support_resistance_persistence_service.py:308`, an
  object the session has is not read again): it deletes and builds again what another run
  has completed and runs are attached to (`OneBuilds` without its exception);
- the history a pattern keeps follows its parameters in a backtest
  (`pattern_kernel.cpp:193`), and is a constant of the strategy type in paper trading
  (`strategy_engine.py:379`): with windows longer than the defaults paper trading sees
  fewer bars than the pattern needs, although `docs/bottom-reversal-strategies.md:5` says
  that both share the detection (`DecidesAsReplayed` with a shorter `HistoryLimit`);
- paper trading counts the holding days of the indicator strategies in calendar days
  (`paper_trading_service.py:2395`), a backtest in sessions (`backtest_kernel.cpp:1270`):
  over a weekend the two sell on different dates (`DecidesAsReplayed` with a
  `CalendarDay` that has weekends);
- `CancelIsCarriedOut`, `CancelledTrialGetsNoJob`, `OneVerification` of
  `ResearchExperiments`, `Followed` and `BookedOnce` of `PaperEntries`, and the
  datasets without corporate actions, all described above.

The switches show further disagreements between what a handler read and what it
writes, which the hazards of PROJECT.json describe without a run of their own:

- with `Interleaved = TRUE`, `TrialFollowsJob` fails (a cancel that commits between the
  read and the write of a requeue; the claim then closes the job without finishing its
  trial) and, with two sweepers, `AttemptsWithinBudget`;
- with `LateChildren = TRUE`, `EvidenceOfOneAttempt` fails; with two `Clients` or
  `LateWorkers = TRUE`, `VerdictStands`;
- with `EarlyReports = TRUE`, `StudySeesOneVersion` fails.

## What is proved

TLAPS checks the theorems for every value of the constants: any number of jobs,
workers, sweepers, clients and recipients, any budget, any number of crashes. The
named `ASSUME`s of the modules say that the kinds of jobs are disjoint and that
the null values are no elements of the sets; TLC evaluates them in every run.

**Queue** (`BacktestJobsProofs`), first with no assumption on the interleaving of
handlers or on leases. `TypeCorrect` is `TypeOK`. `RequestInvariant` is the
inductive invariant `TypeOK /\ RequestInv`, where `RequestInv` has four parts:
`CancelledOnRequest` and `OneChildPerAttempt`, which are what we want, and two
that make them inductive. `RequestsSeen`: whatever an open transaction has read
(a sweep, a child, a client) knows of a cancel request only if the stored row
has one. `AttemptsCounted`: no child works for an attempt above the row's count,
so a claim always starts a fresh one. Both follow from one fact about the flush,
the lemma `FlushStep`: a handler writes the columns it changed, and neither
`attempt` nor a set `cancelReq` is among the columns a handler takes back.
`NextRequests` goes through the actions with it. `AttemptsAreExclusive`,
`CancelledIsRequested` and `RequestsStick` are its consequences; the last is an
action property.

The other theorems about the queue have two hypotheses, the ones of the run
`jobs_serial`: `~Interleaved`, handlers act as if they locked what they read, and
`~LateChildren`, no live child loses its lease. Without either they are false, as the
findings above show. The invariant `SerialInv` has

- `JobOK`: what a job shows in each state of its row, in its run, its stored rows, its
  trial, its candidate and its retry;
- `ChildOK`: what a child may assume at each point of an attempt: it owns the row it
  works for (`Owned`), except that the child of a research job still has an experiment to
  advance when that job is completed or even deleted (`Advancing`); once the engine has
  committed, run and rows are those of its attempt (`Delivered`); and a
  heartbeat that is about to write belongs to an attempt that goes on;
- `Apart`: two children never work for one job;
- `SweepOK`, `ClientOK`: a sweep or a cancel request that is open finds the rows as it
  read them, which makes each flush the write the handler wanted (`FlushUnchanged`).

`SerialStep` reduces a step to the jobs and the children it touches; `StoriesAgree` and
`RetriesAreOrderly` follow from the invariant, `EndedJobsStayEnded` from the steps
(`EndsKept`). That a queued row is never claimed with a cancel request on it
(`ClaimCancelled` never happens here) is one of the consequences.

**Signal centre** (`SignalJobsProofs`). `TypeCorrect` holds
without assumptions. The theorems about mail assume `KeptLeases` (no lease runs
out under a live worker, which the finding above shows is needed) and `OneUser`
(at most one user at a time decides on a retry: two users can each read `failed`
before either writes). `AtMostOneMail` is far from inductive: whether the next
step may mail depends on where each worker is, on what the row says and on
whether the report is expired. The inductive invariant `IInv` is `TypeOK` with

- `MailsAgree`: for each delivery, what its status says about the mails accepted
  (none while it is queued, running, failed or expired; one when sent; none or
  one when sending or unknown; a verdict has no lease);
- `WorkersOwn`: a worker with a job owns its row, its lease has not run out, the
  status is one it can have while somebody is at it, and for a delivery the stage
  of the SMTP dialogue fits status, mails accepted and expiry;
- `ExpiryFits`: no delivery of an expired report is being sent, and a delivery is
  expired only with its report;
- `RetriesFailed`: the delivery a user is about to requeue is still failed, and its
  report is not expired;
- `SweepsExpired`: what a cleanup is about to expire belongs to its report, which is
  expired, and has not been mailed.

`MailInvariant` proves it action by action; `MailedAtMostOnce`, `RowsAreHonest`,
`JobsAreOwned` follow by implication, `VerdictsStand` and `ExpiredIsNotMailed` by
looking at the steps from a state that satisfies it. `ImplementsMailOnce` proves
that the code implements the abstract protocol: under `IInv` every action
leaves the phase and the mails of every delivery alone, or begins an attempt, or is
the acceptance of one mail, or ends an attempt, or is a recovery that ends
several at once. `MailOnce!Doubt` takes a set for that reason: one commit
of `recover` settles every crashed attempt it finds.

**Maintenance gate** (first part of `EffectivenessStudiesProofs`). No theorem of the gate has a
hypothesis. `DrainsCompletely` rests on `DrainInv`:
a row that is not "ready" is a row no submission has locked, because every writer
of the row waits for that lock and every submission reads "ready" under it; so an
owner that counted no work while it drained still has none, and nothing can come.
`LockInv` says who holds what: a reader past its first statement is in `shared`,
a paper run until it commits the lock away; an exclusive holder leaves `shared`
empty; an updater from "locked" on is the exclusive holder; and whoever writes is in
its pipeline or was killed there. `DataInv` says that a reader which has its lock sees the version it
loaded, that the caches are current, and that between invalidation and first write they are empty
or, the materializations, `stray`. The two give `ReadersSeeOneVersion` and
`CachesFollowTheData`: under the exclusive lock only a paper run without its own can publish.
`BrokenTablesStayClosed` adds `ClosedInv`: while the tables are not whole the gate is not open, no work is
left and a paper run that reads has lost its lock; and an updater has passed only whole tables.
A child that outlives its job needs no exception there, since the gate counts work, not readers.

**Effectiveness study** (second part of `EffectivenessStudiesProofs`). `StudyTypesKept`
and `StagesStayInOrder` need no hypothesis. `StageInv` adds to `StagesInOrder` what a follow-up may
still assume after its unlocked reads: one that found no final child found every fold ended
(`FoldsDone`), one that looks for champions found the discovery ended with evidence and no fold, and
a follow-up is owed by an ended child only. It is inductive because an ended child stays as it
ended (`EndedStay`). `StudiesSeeOneVersion` assumes `~EarlyReports`, without which
it is false. Its argument: the tables are written from "updating", `DrainInv` says that nothing counted is
left then, and the parent is counted while it is open. That the study's steps keep `DrainInv`
rests on `ParentInv`, which is where the hypothesis enters: a follow-up that will write the parent
`running` finds it open, so that write brings nothing back.

**Worker manager** (last part of `BacktestWorkersProofs`). `GroupIsAlone` rests on `GroupInv`: while
`calm`, a manager that acts as leader, or has a group, has the lock of the server,
whatever it believes (`LeadersHold`); one that may start a group has none
(`HandsFree`); and no living group is without the manager that started it
(`GroupsOwned`). Each of the three needs the others; a fault that could break one takes
`calm` away.

**Native kernel** (`BacktestWorkersProofs`). The hypothesis is `KernelAssumption`: costs and
cash are not negative whole numbers, a row has one open, one ATR and one z-score at most, split
factors are whole, a session has no more rows than `MaxRows`. `KernelHolds` is the invariant
`KernelInv == ExecutorInv /\ SessionInv`.

- `ExecutorInv` is about the threads. A worker is `Behind` while it has not finished the present
  call, whether it sleeps, is about to look or runs; `CallerFits` says that `unfinished` counts those
  workers, so that the caller returns when none is left and no worker can still have an old call to
  run. `Mine(t)` are the rows thread `t` has still to run: `RowsShared` says that no row is two
  threads', that what somebody has still to run was not run, and that every other row was run once,
  unless something raised. That the shares of `run_chunk` leave no gap and do not
  overlap is arithmetic (`ShareIs`, from `Euclid` and `DivBounds`).
- `SessionInv` is about the session: the places of the clock and what they exclude
  (`ClockFits`: rows are run only while the caller is in `for_each`, a warm-up has no orders), one order
  per instrument in what is pending, sold, bought and decided (`OrdersFit`), and the slots
  (`SlotsFit`). `DecisionsFit` ties the two: an instrument has a decision only if its row has been
  run. With `RowsShared` an evaluation never finds one, and with `OneSignal` (a row
  yields one order at most, whichever of the nine strategies) the decisions stay unique.

`RowsRunOnce` and `StaysSolvent` follow; the second needs that a purchase costs what was found to fit,
for support/resistance that the size by risk is no more than the cash pays (`AffordableFits`).
`FillsAsPromised` is the refinement. Its mapping depends on the place of the clock (`LedgerSees`), and each step of
the kernel is one step of `NextOpenLedger` or none: opening a session writes off,
a fill is a `Sell`, an `Add` or an `Open`, an order that cannot trade is a `Drop`, evaluating rows
is none. That orders are unique per instrument is what makes a fill take exactly one order out of the
ledger. A chunk that ends or is refused in the middle shows as no step at all.

`ReplayAgrees` is `DecidesAsReplayed` but for double bottoms and support/resistance. The two
sides are two implementations: the session evaluates rows on several threads with a detector that
has lived since the warm-up, `evaluate_day` a snapshot of the row with a detector that is fed the
bars kept. `HistoryAssumption` adds that instruments are numbered and that a detector keeps some bars.
Of mean reversion it assumes `EverySessionADay`: the session counts formal sessions across
chunks, paper trading calendar days. `HistoryInv` is inductive beside `KernelInv`:

- `DetectorsFit`: the detector of an instrument is the bars it was given, at most
  `HistoryLimit`, in the order of their dates (`Dated`), all of them before `Today`, the first date it may
  still be given; once the row of the day is `Completed` its bar is the last;
- `DecidedFit`: what the day has for a completed row is what the strategy makes of the row,
  the position and that detector, or something was raised. Rows are completed one by one, by
  any thread, and none of them changes what another reads (`SignalsStay`);
- `SessionsFit`: the sessions counted over chunks and the dates go together, and no position was
  entered after the present one;
- `ErrorsFit`, `RowsCounted`: an error is that of a row which raises; when `for_each` returns
  without one, every row is completed, which is `RowsOnce`.

Then the two sides are compared (`SignalsAgree`): a detector that is fed its own bars is itself
(`ReplayIs`, by induction over the bars, with `Induct` as `SetInduct` below), the bar of the day takes
its own place among them (`PreparedIs`), a snapshot and a position show a detector the same
(`ViewsAgree`), and components, strengths and exits are equal, strategy by strategy. The proof
led to three changes of the model: `Replayed` is a recursive function instead of a fold, `PreparedBars`
the dictionary of the code instead of a filter, and a falling component of a strength is one because the
code says so and not because its ideal is below its gate.

**Paper trading** (`PaperOrdersProofs`). `TypesKept` says that rows and what threads hold
in memory are well formed. Its inductive form `Typed` has one part that is no type:
`Stamped`, some order is the last that anything happened to, without which the maximum
that stamps the next is not known to exist. `CompletedOwns` needs `OwnInv`: every busy thread has a run of its
own, which is still running (`Rows`), and an order without a row belongs to a run that
has not completed, whose thread, if it is still at it, has the answer in memory
(`AnswersHeld`). `OncePerDay` has two hypotheses, stated in the theorem: `OneScheduler`, since
two processes that poll do start a day twice, and `AllocatedOnce`, that a portfolio lists
a strategy once. Its invariant `PassFresh` says that what is left of a pass has no
scheduled run for the date of the pass. `Implements` is the refinement of `OrderBook`:
`BookInv` says that an order's id is what it is for and no two are for the same
(`Intents`), and that what rows and threads know of an order was true once
(`NothingAhead`); under it each action is one action of `OrderBook` or none.

`LotKept` is `OneLotAtMost`, for any number of sleeves, symbols, threads, orders and faults, any
lot, and any partial fills. That a sleeve holds between nothing and a lot says
nothing about why the next order keeps it so: the run decides by a book it has replayed from rows, at a
time when the broker may know more than the rows. `LotInv` is the inductive invariant. It has

- `Stamps` and `Unfilled`: no two orders have the same time stamp, and an order is open only while
  there is something to fill;
- `Sized`, of each position of a sleeve. An open order is the only one and the latest
  (`Alone`). `Sure` sums the orders the ledger counts on: those with a row, and every
  sale; at no time in the past was it negative (`NeverShort`). An open sale can sell no
  more than is sure (`SalesCovered`), and an open purchase buys no more than there is
  room for in a lot (`Room`). Purchases without a row are in what is held but not in what
  is sure, so `0 <= Sure <= HeldBy <= Lot`, which is the property;
- `Informed`, of each run at each place: what its synchronisation holds is what the broker says,
  once it is committed its rows say the same (`Read`), its positions are the account's, and from
  the report on what it may plan is `Judged`: unless it knows of an open sale it has no more than
  is sure, and unless it knows of an open purchase a symbol it has none of is one the sleeve does not
  hold and has no open order of.

Three lemmas carry the argument. `Unclamped`: if the rows of a sleeve are as the broker says and it
was never short, the replay, which clamps a sale at nothing, clamps nowhere and gives `Sure`.
`Compared`: if the report passes (the broker holds none of the symbol, or what the ledger says)
and no other sleeve makes up for a difference, what the run rebuilds is judged. `SizedAsked`: an
order that is sent on a judgement keeps `Sized`. The rest says that nobody undoes it in between:
fills of orders that are known or of positions nobody judged (`WorkedLasts`), rows that are
added (`SizedMore`), other threads, which are not in a run (`InformedOthers`). TLC found
`LotInv` to hold before it was proved, on the instance of the run and on one with four orders.

The book is a fold over a set of fills and the holdings are sums over sets, so the proof needs
induction over finite sets. The library states it for an operator, which the provers cannot
instantiate; `SetInduct` states it for a set of sets instead (the well-foundedness of the strict subset
order is a library theorem without an operator), and from it come the existence of the
fold (`FoldExists`), what a sum is (`SumRemove`, `SumSplit`) and what a replay is (`Replaying`).

**Pending entries** (`PaperEntriesProofs`). `EntriesInv` strengthens `ReportsAreTrue` by what a
session that has not committed may hold: a mark "submitted" has its row in the ledger or in the
same session (`MarksAreBooked`), no mark takes back a decision that was committed (`Undecided`), the
intent that was sent and not recorded is pending and its row waits (`Sent`), and a poll has marks
only of intents it is done with and looks at each once (`PollTyped`). The last is what makes a
commit in the middle of a poll harmless: the marks that go with the row of another intent are
never changed again. A count in a summary stays high enough because decisions stand
(`DecisionsStandAlways`), so the set it counts only shrinks (`CountsHold`).

**Prepared datasets and runs** (`BacktestRunsProofs`). `RunsInv` has the types and three
parts that need each other only in one direction.

- `PipeInv`, of each run by itself: which thread is alive at which place of the main
  thread (`InPlace`); what is mapped is exactly what is offered, queued or in hand
  (`MappedIsUsed`); chunks computed on, in hand, in the queue and coming are in
  order (`Ordered`); and what has been got is all of the window before the chunk the
  producer is at, with an end only after everything or behind an error
  (`NothingMissed`).
- `CacheInv`: who writes an entry holds its lock file (`WritersLock`); and until kills
  have left what one run cannot mend (`halfway`), one entry at most is torn or being
  refilled (`EntriesWhole`), a run without splits has seen every entry and if it builds all
  the same nothing is torn any more (`SplitsRead`), so every chunk handed over has its
  splits (`WithSplits`).
- `BuildInv`: who looks under the advisory lock has it (`BuildersLock`), a row is
  built by the one who inserted it, or on one that is there already (`RowsOwned`), the record of a failure is inserted where there is none
  (`RecordsAlone`), and whoever goes for a row that was built already has loaded it as
  failed, which takes a record (`LaterAreStale`).

`WindowsAreWhole` and `MaterializedOnce` follow. The places in the code where a step could
break them are few, and the lemmas are named for them (`PutsPipe`, `GivesUp`,
`CrashCache`, `ReleaseBuild`).

**Experiments** (`ResearchExperimentsProofs`). `TypesKept` and `PromotionsAreEarned` hold
with any interleaving. The type invariant is inductive only with two bounds: a job that
waits has an attempt left (`TriesLeft`), and no more verification runs are under way than
were made (`RunsMade`). The other three theorems assume `~Overtaken`, the hypothesis of the run: a
handler that has read the experiment, or owes it a finalisation, is not overtaken by
another. Crashes are in any place. The invariant `ResInv` has

- `JobsFollow` and `InHand`: an open job belongs to a running trial; a controller past its
  claim has a running trial without an open job, for itself. So whatever ends a
  trial ends one that is open, and ends it once;
- `AsRead` and `Restarts`: what a finalisation, a cancel request or a recovery has read
  is still so when it commits, which makes `Flush` the write it wanted (`FlushWrites`); a
  recovery finds no controller at work;
- `SettledIsWhole`, `VerdictFits` and `NothingOwed`: a settled experiment is owed no
  finalisation, so none comes late and decides again;
- `Waits`, `HaltedIsEmpty` and `RoundsToCome`: an experiment that waits for the
  agent has no termination, a halted one no queued trial, and the trials of later rounds are not
  there. The first forbids a new round of what was stopped, the second a claim, the
  third says that a new round touches no trial that has ended.

Five handlers finalise. `Concluded` says what `_finalize_if_ready` makes of an experiment and its
trials, and `ConcludingIsSound` that writing it keeps the invariant, whatever the handler has
done to the trials first; each of the five only has to show what it did to them.

**Only model-checked**: liveness (`ActiveJobsEnd`, `DeliveryEnds`, `ReportFollows`,
`DrainEnds`, `StudyEnds`, `WorkEnds`, `EntriesEnd`, `QueuedJobsEnd`, `BacktestEnds`), which
is out of the prover's reach, and `DecidesAsReplayed` of double bottoms, of support/resistance, and
of mean reversion on a calendar with weekends. The first two compare a detector that remembers
setups, zones and regimes with one that has read the kept bars in a loop: what the two remember
alike is a statement about recursive data for each of their steps. The last is false (see the
findings); the run has no weekends either.

## What is not modelled

Of the modelled components: progress documents, error texts, performance
figures, the comparison of a verification's metrics (its outcome is a choice),
what a scan computes, how a report is rendered, the editing of plans, the deletion
of shared assets, `signal_data_ready`, the scheduled rounds inside a child of a
study, and a follow-up of a study that is lost because its process dies; grid
experiments, what a candidate is; prices, fractional shares, staged entries, dry
runs, accounts and allocations as rows; the shards a chunk is cut from, and the
cleanup of the dataset cache, which could race with a build and which nothing in
the program calls; zones and events as rows, several cache keys. Of the rest of
the repository: floating point, performance figures, audit events and condition sets of the kernel, the ingestion scripts (calls to data vendors), routing, read models and
the frontend (no state of their own), and the versioned CRUD of strategies,
baskets and allocations.

Most of the implementation's lines are of these kinds, which is why the map
covers well under a third of them: what is mapped is the code that decides
what shared state becomes.

## Plan

Modelled so far, in the order of importance: the queue, the signal centre, the
maintenance gate and the effectiveness study, experiments and promotion, the
worker manager, paper trading, prepared datasets and runs, the native kernel with
its detectors. What is left:

1. Models: the portfolio operations around paper trading (activation status,
   accounts and allocations), the idempotent creation of strategies, what the deletion of a
   strategy leaves of its orders, the grid experiments, and the pure algorithms
   with reference definitions (Pareto ranking, progress normalisation, the retry
   delay of the manager, staged entries).
2. Theorems: every invariant and action property that a run checks is proved, but for liveness and
   for `DecidesAsReplayed` of the two strategies whose detectors have a memory. For a double bottom
   what is left is an invariant of `Advance` and `Prune` (what is remembered is what a detector finds in
   the bars kept), for support/resistance the same of zones, regimes and stored versions; then the
   properties of the models above.

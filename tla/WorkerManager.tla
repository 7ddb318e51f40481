---------------------------- MODULE WorkerManager ----------------------------
(***************************************************************************)
(* backtest_worker_manager.py and run_worker of backtest_worker.py: the    *)
(* managers contend for an advisory lock, and the one that has it starts a *)
(* group of worker processes when the queue has work. A group takes jobs   *)
(* until there are none and exits; a group that fails is started again     *)
(* after a delay. A group runs in a session of its own: it outlives a      *)
(* manager that dies.                                                      *)
(*                                                                         *)
(* The queue is what the managers see of BacktestJobs: a job is queued,    *)
(* taken by a group, and ends; when the processes of its group are gone    *)
(* its lease runs out, and a sweep puts it back. The delays (1 to 30 s)    *)
(* are "some time"; the rows of backtest_worker_managers, which only the   *)
(* status pages read, are left out: a failing write of one is a fault.     *)
(***************************************************************************)
EXTENDS Naturals, Sequences, FiniteSets

CONSTANTS
  Managers,
  Nobody,      \* holder of a free lock
  Jobs,
  Slots,       \* BACKTEST_WORKER_CONCURRENCY
  MaxFaults    \* bound: stops, deaths, lost connections, failing calls, crashes

ASSUME ManagerAssumption ==
  /\ Nobody \notin Managers /\ Slots \in Nat \ {0} /\ MaxFaults \in Nat

VARIABLES
  lock,      \* whose session the server has the advisory lock in
  manager,   \* place in the loop, whether it believes to hold the lock, its
             \* group (0: none), whether a group may be started now
  group,     \* the groups in the order of their start
  job,       \* status, group and whether the lease has run out
  faults,    \* faults so far
  calm       \* history: no manager died, no session of a leader was lost, and
             \* no manager failed to stop its group

managerVars == <<lock, manager, group, job, faults, calm>>

Fresh == [pc |-> "poll", holds |-> FALSE, worker |-> 0, due |-> TRUE]

At(m, pc) == manager[m].pc = pc
Goto(m, pc) == [manager EXCEPT ![m].pc = pc]

Alive(g) == group[g] \in {"running", "draining"}

Waiting == [status |-> "queued", by |-> 0, expired |-> FALSE]
Ended   == [status |-> "ended", by |-> 0, expired |-> FALSE]

HeldBy(g) == {j \in Jobs : job[j].status = "running" /\ job[j].by = g}

\* recover_expired_jobs, for jobs with attempts left.
Recovered == [j \in Jobs |-> IF job[j].expired THEN Waiting ELSE job[j]]

Queued(rows) == {j \in Jobs : rows[j].status = "queued"}

\* Something that need not happen, and happens MaxFaults times at most.
Fault == faults < MaxFaults /\ faults' = faults + 1

-----------------------------------------------------------------------------
(* The loop of a manager.                                                   *)

\* try_acquire: a session that still holds the lock says so. Otherwise a
\* connection of the pool asks for it: it gets a free lock, and a lock of this
\* process if it is the connection that had it.
Acquire(m) ==
  /\ At(m, "poll")
  /\ IF manager[m].holds /\ lock = m
     THEN manager' = Goto(m, "leading") /\ UNCHANGED lock
     ELSE \/ /\ lock \in {Nobody, m} /\ lock' = m
             /\ manager' = [manager EXCEPT ![m].pc = "leading", ![m].holds = TRUE]
          \/ /\ lock # Nobody /\ UNCHANGED lock
             /\ manager' = [manager EXCEPT ![m].holds = FALSE]
  /\ UNCHANGED <<group, job, faults, calm>>

\* The iteration fails while the lock is looked after: the connection goes back
\* to the pool, and the session may have the lock.
AcquireFails(m) ==
  /\ Fault /\ At(m, "poll") /\ lock \in {Nobody, m} /\ lock' = m
  /\ manager' = [manager EXCEPT ![m].holds = FALSE, ![m].due = FALSE]
  /\ UNCHANGED <<group, job, calm>>

\* A group that is alive is left alone; an exit is noted, and a failure delays
\* the next start.
Observe(m) ==
  /\ At(m, "leading")
  /\ LET g == manager[m].worker IN
     manager' =
       IF g = 0 THEN Goto(m, "queue")
       ELSE IF Alive(g) THEN Goto(m, "poll")
       ELSE [manager EXCEPT ![m].pc = "queue", ![m].worker = 0, ![m].due = group[g] = "exited"]
  /\ UNCHANGED <<lock, group, job, faults, calm>>

\* Fault: the queue is counted and nothing is recovered.
QueueHasWorkOnly(m) ==
  /\ At(m, "queue") /\ UNCHANGED job
  /\ manager' = IF Queued(job) = {} THEN [manager EXCEPT ![m].pc = "poll", ![m].due = TRUE]
                ELSE Goto(m, IF manager[m].due THEN "start" ELSE "poll")
  /\ UNCHANGED <<lock, group, faults, calm>>

\* _queue_has_work recovers and counts; what follows depends on the delay.
QueueHasWork(m) ==
  /\ At(m, "queue")
  /\ job' = Recovered
  /\ manager' = IF Queued(Recovered) = {} THEN [manager EXCEPT ![m].pc = "poll", ![m].due = TRUE]
                ELSE Goto(m, IF manager[m].due THEN "start" ELSE "poll")
  /\ UNCHANGED <<lock, group, faults, calm>>

StartWorker(m) ==
  /\ At(m, "start")
  /\ group' = Append(group, "running")
  /\ manager' = [manager EXCEPT ![m].pc = "poll", ![m].worker = Len(group) + 1, ![m].due = TRUE]
  /\ UNCHANGED <<lock, job, faults, calm>>

\* Whatever fails in an iteration delays the next start.
IterationFails(m) ==
  /\ Fault /\ manager[m].pc \in {"poll", "leading", "queue", "start"}
  /\ manager' = [manager EXCEPT ![m].pc = "poll", ![m].due = FALSE]
  /\ UNCHANGED <<lock, group, job, calm>>

DelayPasses(m) ==
  /\ ~manager[m].due /\ manager' = [manager EXCEPT ![m].due = TRUE]
  /\ UNCHANGED <<lock, group, job, faults, calm>>

-----------------------------------------------------------------------------
(* The end of a manager.                                                    *)

\* A signal asks it to stop, which it does between two iterations.
RequestStop(m) ==
  /\ Fault /\ At(m, "poll")
  /\ manager' = Goto(m, "stopping")
  /\ UNCHANGED <<lock, group, job, calm>>

\* Fault: the group is asked to end and not waited for.
StopWorkerUnwaited(m) ==
  /\ At(m, "stopping")
  /\ manager' = [manager EXCEPT ![m].pc = "release", ![m].worker = 0]
  /\ group' = [g \in DOMAIN group |->
                 IF g = manager[m].worker /\ Alive(g) THEN "draining" ELSE group[g]]
  /\ UNCHANGED <<lock, job, faults, calm>>

\* _stop_worker waits until the processes of the group are gone.
StopWorker(m) ==
  /\ At(m, "stopping")
  /\ manager' = [manager EXCEPT ![m].pc = "release", ![m].worker = 0]
  /\ group' = [g \in DOMAIN group |->
                 IF g = manager[m].worker /\ Alive(g) THEN "failed" ELSE group[g]]
  /\ UNCHANGED <<lock, job, faults, calm>>

\* The write of the status before it raises: the group is not stopped.
StopFails(m) ==
  /\ Fault /\ At(m, "stopping")
  /\ manager' = [manager EXCEPT ![m].pc = "release", ![m].worker = 0] /\ calm' = FALSE
  /\ UNCHANGED <<lock, group, job>>

Freed(m) == IF lock = m THEN Nobody ELSE lock

\* The process ends, and with it all its sessions.
Release(m) ==
  /\ At(m, "release")
  /\ lock' = Freed(m) /\ manager' = Goto(m, "off")
  /\ UNCHANGED <<group, job, faults, calm>>

Die(m) ==
  /\ Fault /\ ~At(m, "off")
  /\ lock' = Freed(m) /\ manager' = [manager EXCEPT ![m] = [Fresh EXCEPT !.pc = "off"]]
  /\ calm' = FALSE
  /\ UNCHANGED <<group, job>>

\* make and Docker Compose start it again.
Restart(m) ==
  /\ At(m, "off") /\ manager' = [manager EXCEPT ![m] = Fresh]
  /\ UNCHANGED <<lock, group, job, faults, calm>>

\* The server ends the session of a leader, which does not notice at once.
LoseSession(m) ==
  /\ Fault /\ lock = m /\ lock' = Nobody /\ calm' = FALSE
  /\ UNCHANGED <<manager, group, job>>

-----------------------------------------------------------------------------
(* Groups and jobs.                                                         *)

Enqueue(j) ==
  /\ job[j].status = "none" /\ job' = [job EXCEPT ![j] = Waiting]
  /\ UNCHANGED <<lock, manager, group, faults, calm>>

\* run_worker: every claim comes after a sweep.
Claim(g, j) ==
  /\ group[g] = "running" /\ Cardinality(HeldBy(g)) < Slots /\ j \in Queued(Recovered)
  /\ job' = [Recovered EXCEPT ![j] = [status |-> "running", by |-> g, expired |-> FALSE]]
  /\ UNCHANGED <<lock, manager, group, faults, calm>>

FinishJob(g, j) ==
  /\ Alive(g) /\ j \in HeldBy(g) /\ job' = [job EXCEPT ![j] = Ended]
  /\ UNCHANGED <<lock, manager, group, faults, calm>>

\* --once: nothing under way and nothing to claim.
Exit(g) ==
  /\ group[g] = "running" /\ HeldBy(g) = {} /\ Queued(Recovered) = {}
  /\ job' = Recovered /\ group' = [group EXCEPT ![g] = "exited"]
  /\ UNCHANGED <<lock, manager, faults, calm>>

\* A claim raises: the executor waits for the jobs under way, then the group fails.
ClaimFails(g) ==
  /\ Fault /\ group[g] = "running" /\ group' = [group EXCEPT ![g] = "draining"]
  /\ UNCHANGED <<lock, manager, job, calm>>

Drained(g) ==
  /\ group[g] = "draining" /\ HeldBy(g) = {} /\ group' = [group EXCEPT ![g] = "failed"]
  /\ UNCHANGED <<lock, manager, job, faults, calm>>

\* The pool breaks, or the processes are killed.
Crash(g) ==
  /\ Fault /\ Alive(g) /\ group' = [group EXCEPT ![g] = "failed"]
  /\ UNCHANGED <<lock, manager, job, calm>>

\* Nobody renews the lease of a job whose processes are gone.
LeaseExpires(g, j) ==
  /\ ~Alive(g) /\ j \in HeldBy(g) /\ ~job[j].expired
  /\ job' = [job EXCEPT ![j].expired = TRUE]
  /\ UNCHANGED <<lock, manager, group, faults, calm>>

-----------------------------------------------------------------------------
ManagerInit ==
  /\ lock = Nobody /\ manager = [m \in Managers |-> Fresh] /\ group = <<>>
  /\ job = [j \in Jobs |-> [status |-> "none", by |-> 0, expired |-> FALSE]]
  /\ faults = 0 /\ calm = TRUE

ManagerStep(m) ==
  \/ Acquire(m) \/ Observe(m) \/ QueueHasWork(m) \/ StartWorker(m)
  \/ StopWorker(m) \/ Release(m) \/ Restart(m)

GroupStep(g) ==
  \/ Exit(g) \/ Drained(g)
  \/ \E j \in Jobs : Claim(g, j) \/ FinishJob(g, j)

Faults(m) ==
  AcquireFails(m) \/ IterationFails(m) \/ RequestStop(m) \/ StopFails(m) \/ Die(m) \/ LoseSession(m)

ManagerNext ==
  \/ \E m \in Managers : ManagerStep(m) \/ DelayPasses(m) \/ Faults(m)
  \/ \E j \in Jobs : Enqueue(j)
  \/ \E g \in DOMAIN group :
       GroupStep(g) \/ ClaimFails(g) \/ Crash(g) \/ \E j \in Jobs : LeaseExpires(g, j)

\* Managers poll, delays and leases pass, groups go on.
ManagerSpec ==
  /\ ManagerInit /\ [][ManagerNext]_managerVars
  /\ \A m \in Managers : WF_managerVars(ManagerStep(m)) /\ WF_managerVars(DelayPasses(m))
  /\ WF_managerVars(\E g \in DOMAIN group : GroupStep(g))
  /\ \A j \in Jobs : WF_managerVars(\E g \in DOMAIN group : LeaseExpires(g, j))

-----------------------------------------------------------------------------
(* Properties.                                                              *)

\* Through crashes of groups, failing calls, stops and changes of the leader
\* there is one group of workers at most, so that no more jobs run than the
\* configuration allows: as long as no manager dies, no leader's session is lost
\* and no manager fails while it stops. (AdvisoryLeaderLock, run, _stop_worker)
OneGroup == calm => Cardinality({g \in DOMAIN group : Alive(g)}) <= 1

\* A job that is queued ends, whichever managers and groups fail on the way: some
\* manager comes to lead, sees the job, also one that a lost group left running,
\* and starts a group. (run, _queue_has_work, run_worker)
QueuedJobsEnd == \A j \in Jobs : job[j].status = "queued" ~> job[j].status = "ended"
=============================================================================

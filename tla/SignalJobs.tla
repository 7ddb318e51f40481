----------------------------- MODULE SignalJobs -----------------------------
(***************************************************************************)
(* The signal centre's durable jobs (signal_scan_job_service.py and the     *)
(* report, delivery and retention services it calls): scans, the reports    *)
(* made of them, the e-mails (deliveries) and exports (renders) of a        *)
(* report, claimed under a lease by workers that crash, talk to an SMTP     *)
(* server that may accept a message without the worker learning it, and     *)
(* share the rows with API clients and with retention cleanup.              *)
(*                                                                         *)
(* Sessions are READ COMMITTED without autoflush: a commit writes the       *)
(* columns the handler assigned, WHERE id = ..., whoever owns the row by    *)
(* then, and a committed object keeps the values it had in memory.    *)
(* A handler is one step per commit, and two where it decides on what it    *)
(* read without a lock.                                                     *)
(***************************************************************************)
EXTENDS Naturals

CONSTANTS
  Scans, Reports, Deliveries, Renders,  \* the rows of the four queues
  Automatic,    \* reports of scheduled scans: made, mailed and expired without a user
  ScanOf,       \* [Reports -> Scans]
  ReportOf,     \* [Deliveries \cup Renders -> Reports]
  Workers,      \* signal worker processes
  Clients,      \* API requests that may be in retry_delivery at once
  Cleaners,     \* sessions that may be in cleanup at once
  NoJob, NoWorker,
  MaxAttempts,  \* 3 in the code
  MailEnabled,  \* validate_smtp accepts the environment
  LateWorkers,  \* TRUE: a lease may run out under a worker that is still alive
  MaxLate,      \* bound on the leases lost under a live worker
  MaxCrashes    \* bound on crashes

Jobs == Scans \cup Reports \cup Deliveries \cup Renders
Queues == {Scans, Reports, Deliveries, Renders}

ASSUME QueuesAssumption ==
  /\ Reports \cap Scans = {}
  /\ Deliveries \cap (Scans \cup Reports) = {}
  /\ Renders \cap (Scans \cup Reports \cup Deliveries) = {}
  /\ Automatic \subseteq Reports
  /\ ScanOf \in [Reports -> Scans]
  /\ ReportOf \in [Deliveries \cup Renders -> Reports]
  /\ NoJob \notin Jobs
  /\ NoWorker \notin Workers
ASSUME LimitsAssumption ==
  /\ MaxAttempts \in Nat \ {0} /\ MaxLate \in Nat /\ MaxCrashes \in Nat
  /\ MailEnabled \in BOOLEAN /\ LateWorkers \in BOOLEAN

VARIABLES
  row,        \* the rows: SignalJobColumns
  published,  \* SignalReport.published_at is set
  expired,    \* SignalReport.expired_at is set
  mails,      \* messages the SMTP server has accepted, per delivery
  worker,     \* the workers: program counter and local values
  client,     \* a retry request between its check and its commit
  cleaner,    \* a cleanup between its tombstone and the rest
  late,       \* leases lost so far under a live worker
  crashes     \* crashes so far

vars == <<row, published, expired, mails, worker, client, cleaner, late, crashes>>

Active == {"running", "sending"}
Status == {"none", "queued", "completed", "failed", "sent", "unknown", "expiring", "expired"}
            \cup Active

\* "none": the row does not exist.  lease abstracts lease_expires_at.
Row == [status   : Status,
        attempts : Nat,
        by       : Workers \cup {NoWorker},
        lease    : {"null", "live", "expired"}]

FreshRow == [status |-> "none", attempts |-> 0, by |-> NoWorker, lease |-> "null"]
WithStatus(r, status) == [r EXCEPT !.status = status]
WithLease(r, lease)   == [r EXCEPT !.lease = lease]
Settled(r, status)    == [r EXCEPT !.status = status, !.lease = "null"]
Requeued(r)           == [r EXCEPT !.status = "queued", !.attempts = 0]
Exists(j) == row[j].status # "none"

\* What a worker keeps in memory.  out is the status its work has assigned and
\* not committed, seen the row its exception handler read, missing what its
\* reconciliation read.
Local == [pc       : {"idle", "working", "talking", "data", "accepted", "answered", "ending",
                      "published", "reconciling", "raised", "handling"},
          job      : Jobs \cup {NoJob},
          attempts : Nat,
          out      : Status,
          answer   : {"none", "accepted", "temporary", "permanent", "lost", "recipient_refused"},
          seen     : Row,
          missing  : SUBSET Jobs]

Idle == [pc |-> "idle", job |-> NoJob, attempts |-> 0, out |-> "none",
         answer |-> "none", seen |-> FreshRow, missing |-> {}]
Cleanup == [pc     : {"idle", "tombstone", "sweeping"},
            report : Reports \cup {NoJob},
            swept  : SUBSET (Deliveries \cup Renders)]
Resting == [pc |-> "idle", report |-> NoJob, swept |-> {}]

Init ==
  /\ row = [j \in Jobs |-> FreshRow]
  /\ published = [r \in Reports |-> FALSE]
  /\ expired = [r \in Reports |-> FALSE]
  /\ mails = [d \in Deliveries |-> 0]
  /\ worker = [w \in Workers |-> Idle]
  /\ client = [c \in Clients |-> NoJob]
  /\ cleaner = [k \in Cleaners |-> Resting]
  /\ late = 0 /\ crashes = 0

Goto(l, pc) == [l EXCEPT !.pc = pc]
Ending(l, pc, status, answer) == [l EXCEPT !.pc = pc, !.out = status, !.answer = answer]
Having(l, seen)    == [l EXCEPT !.pc = "handling", !.seen = seen]
Lacking(l, missing) == [l EXCEPT !.pc = "reconciling", !.missing = missing]
Holding(j, attempts) == [Idle EXCEPT !.pc = "working", !.job = j, !.attempts = attempts]

To(w, pc) == worker' = [worker EXCEPT ![w] = Goto(@, pc)]
Rest(w)   == worker' = [worker EXCEPT ![w] = Idle]
At(w, pc, queue) == worker[w].pc = pc /\ worker[w].job \in queue

-----------------------------------------------------------------------------
(* Rows come into being: schedule_ready, reconcile and the API.             *)

Ended == {"completed", "failed"}

\* Fault: only a scan that succeeded is reported on.
MissingReportsOfSuccess ==
  {r \in Automatic : ~Exists(r) /\ row[ScanOf[r]].status = "completed"}

\* What reconcile finds missing: the reports of ended scans and the
\* deliveries of published reports.
MissingReports == {r \in Automatic : ~Exists(r) /\ row[ScanOf[r]].status \in Ended}
MissingDeliveries ==
  {d \in Deliveries :
     LET r == ReportOf[d] IN
       ~Exists(d) /\ r \in Automatic /\ row[r].status = "completed" /\ ~expired[r]}
Missing == MissingReports \cup MissingDeliveries

\* Without SMTP settings a delivery is recorded as failed from the start.
FirstStatus(j) == IF j \in Deliveries /\ ~MailEnabled THEN "failed" ELSE "queued"
Insert(new) ==
  row' = [j \in Jobs |-> IF j \in new THEN WithStatus(FreshRow, FirstStatus(j)) ELSE row[j]]

EnqueueScan(s) ==
  /\ ~Exists(s)
  /\ Insert({s})
  /\ UNCHANGED <<published, expired, mails, worker, client, cleaner, late, crashes>>

\* POST /signal-scans/{id}/reports
MakeReport(r) ==
  /\ r \notin Automatic /\ ~Exists(r) /\ row[ScanOf[r]].status \in Ended
  /\ Insert({r})
  /\ UNCHANGED <<published, expired, mails, worker, client, cleaner, late, crashes>>

\* POST /signal-reports/{id}/deliveries
Deliver(d) ==
  /\ MailEnabled /\ ~Exists(d)
  /\ row[ReportOf[d]].status = "completed" /\ ~expired[ReportOf[d]]
  /\ Insert({d})
  /\ UNCHANGED <<published, expired, mails, worker, client, cleaner, late, crashes>>

\* The start of a pass, one session at a time under the advisory lock.
Reconcile(w) ==
  /\ worker[w].pc = "idle"
  /\ Missing # {}
  /\ Insert(Missing)
  /\ UNCHANGED <<published, expired, mails, worker, client, cleaner, late, crashes>>

-----------------------------------------------------------------------------
(* The lease: recover, claim, heartbeat, expiry, crash.                     *)

Retried(attempts) == IF attempts < MaxAttempts THEN "queued" ELSE "failed"

\* A delivery that may have reached the server is never tried again.
AfterFailure(j, r) ==
  IF j \in Deliveries /\ r.status = "sending" THEN "unknown" ELSE Retried(r.attempts)

\* Fault: a delivery under way is never due.
DueRunning(j) == row[j].status = "running" /\ row[j].lease = "expired"
Due(j) == row[j].status \in Active /\ row[j].lease = "expired"
Recovered(j) == [Settled(row[j], AfterFailure(j, row[j])) EXCEPT !.by = NoWorker]
Recovery(queue) == [j \in Jobs |-> IF j \in queue /\ Due(j) THEN Recovered(j) ELSE row[j]]

Claimed(r, w) == [status |-> "running", attempts |-> r.attempts + 1, by |-> w, lease |-> "live"]

\* claim(): one commit recovers what is due and claims one row.  The query
\* does not see the rows just recovered: they are not flushed yet.
Claim(w, queue) == \E j \in queue :
  /\ worker[w].pc = "idle" /\ row[j].status = "queued"
  /\ row' = [Recovery(queue) EXCEPT ![j] = Claimed(row[j], w)]
  /\ worker' = [worker EXCEPT ![w] = Holding(j, row[j].attempts + 1)]
  /\ UNCHANGED <<published, expired, mails, client, cleaner, late, crashes>>

\* The same poll of a queue that has nothing to claim.
Recover(w, queue) ==
  /\ worker[w].pc = "idle"
  /\ \A j \in queue : row[j].status # "queued"
  /\ \E j \in queue : Due(j)
  /\ row' = Recovery(queue)
  /\ UNCHANGED <<published, expired, mails, worker, client, cleaner, late, crashes>>

Works(w, j) == worker[w].job = j /\ row[j].by = w

\* One UPDATE ... WHERE claimed_by = owner AND status is active.
Beat(w) ==
  /\ \E j \in Jobs :
        Works(w, j) /\ row[j].status \in Active /\ row' = [row EXCEPT ![j] = WithLease(@, "live")]
  /\ UNCHANGED <<published, expired, mails, worker, client, cleaner, late, crashes>>

\* Time passes.  Under a live worker only if its heartbeat thread has died (any
\* database error ends it) or the process was suspended.
LeaseExpires(j) ==
  /\ row[j].lease = "live"
  /\ \/ ~\E w \in Workers : Works(w, j)
     \/ LateWorkers /\ late < MaxLate
  /\ late' = IF \E w \in Workers : Works(w, j) THEN late + 1 ELSE late
  /\ row' = [row EXCEPT ![j] = WithLease(@, "expired")]
  /\ UNCHANGED <<published, expired, mails, worker, client, cleaner, crashes>>

Crash(w) ==
  /\ worker[w].pc # "idle" /\ crashes < MaxCrashes
  /\ crashes' = crashes + 1
  /\ Rest(w)
  /\ UNCHANGED <<row, published, expired, mails, client, cleaner, late>>

-----------------------------------------------------------------------------
(* The work: execute_scan, publish_report, render_report, send_delivery.    *)

\* The status the work assigns in memory; Publish commits it.
End(w, pc, status, answer) ==
  worker' = [worker EXCEPT ![w] = Ending(@, pc, status, answer)]

\* A partial scan counts as completed here: both are terminal and published.
Scan(w) ==
  /\ At(w, "working", Scans)
  /\ \/ \E status \in Ended : End(w, "ending", status, "none")
     \/ To(w, "raised")
  /\ UNCHANGED <<row, published, expired, mails, client, cleaner, late, crashes>>

PublishReport(w) ==
  /\ At(w, "working", Reports)
  /\ End(w, "ending", "completed", "none") \/ To(w, "raised")
  /\ UNCHANGED <<row, published, expired, mails, client, cleaner, late, crashes>>

\* From here to its commit the worker holds the report's lock, shared.
Render(w) ==
  /\ At(w, "working", Renders)
  /\ IF expired[ReportOf[worker[w].job]]
       THEN End(w, "ending", "expired", "none")
       ELSE \/ \E status \in {"completed", Retried(worker[w].attempts)} :
                 End(w, "ending", status, "none")
            \/ To(w, "raised")
  /\ UNCHANGED <<row, published, expired, mails, client, cleaner, late, crashes>>

\* Fault: the report's tombstone is not looked at.
PrepareBlind(w) ==
  /\ At(w, "working", Deliveries)
  /\ To(w, IF ~MailEnabled THEN "raised" ELSE "talking")
  /\ UNCHANGED <<row, published, expired, mails, client, cleaner, late, crashes>>

\* send_delivery, under the report's shared lock up to its "sending" commit.
Prepare(w) ==
  /\ At(w, "working", Deliveries)
  /\ To(w, IF ~MailEnabled \/ expired[ReportOf[worker[w].job]] THEN "raised" ELSE "talking")
  /\ UNCHANGED <<row, published, expired, mails, client, cleaner, late, crashes>>

\* Fault: the loss of the answer counts as a refusal.
OutcomeForgetsData(answer, dataStarted, attempts) ==
  CASE answer = "accepted"  -> "sent"
    [] answer = "permanent" -> "failed"
    [] OTHER -> Retried(attempts)

\* What the server or the network says, and the except clause that answers.
\* SMTPRecipientsRefused is an OSError: the second clause takes it, and the
\* third is never reached.
Outcome(answer, dataStarted, attempts) ==
  CASE answer = "accepted"  -> "sent"
    [] answer = "temporary" -> Retried(attempts)
    [] answer = "permanent" -> "failed"
    [] answer \in {"lost", "recipient_refused"} ->
         IF dataStarted THEN "unknown" ELSE Retried(attempts)

RefusedEarly(w) ==
  /\ At(w, "talking", Deliveries)
  /\ \E answer \in {"temporary", "permanent", "lost", "recipient_refused"} :
       End(w, "ending", Outcome(answer, FALSE, worker[w].attempts), answer)
  /\ UNCHANGED <<row, published, expired, mails, client, cleaner, late, crashes>>

\* Fault: DATA starts before anything is persisted.
MarkNothing(w) ==
  /\ At(w, "talking", Deliveries)
  /\ To(w, "data")
  /\ UNCHANGED <<row, published, expired, mails, client, cleaner, late, crashes>>

\* Persist uncertainty before the server can accept: status = 'sending', WHERE
\* id = ... and nothing else.  The commit may fail, before or after it took effect.
Mark(w) ==
  /\ At(w, "talking", Deliveries)
  /\ \/ /\ row' = [row EXCEPT ![worker[w].job] = WithStatus(@, "sending")]
        /\ To(w, "data") \/ To(w, "raised")
     \/ UNCHANGED row /\ To(w, "raised")
  /\ UNCHANGED <<published, expired, mails, client, cleaner, late, crashes>>

\* The server takes the message; the answer is still on its way.
ServerAccepts(w) ==
  /\ At(w, "data", Deliveries)
  /\ mails' = [mails EXCEPT ![worker[w].job] = @ + 1]
  /\ To(w, "accepted")
  /\ UNCHANGED <<row, published, expired, client, cleaner, late, crashes>>

Answers(w) ==
  IF worker[w].pc = "accepted" THEN {"accepted", "lost"} ELSE {"temporary", "permanent", "lost"}

Answered(w) ==
  /\ worker[w].pc \in {"data", "accepted"}
  /\ \E answer \in Answers(w) :
       End(w, "answered", Outcome(answer, TRUE, worker[w].attempts), answer)
  /\ UNCHANGED <<row, published, expired, mails, client, cleaner, late, crashes>>

-----------------------------------------------------------------------------
(* The end of a job in run_once.                                            *)

\* enqueue_render, in the transaction that publishes the report.
Rendered(rows, r) ==
  [j \in Jobs |->
     IF j \notin Renders \/ r \notin Reports THEN rows[j]
     ELSE IF ReportOf[j] # r THEN rows[j]
     ELSE IF rows[j].status = "none" THEN WithStatus(FreshRow, "queued")
     ELSE IF rows[j].status \in Ended THEN Requeued(rows[j])
     ELSE rows[j]]

\* SELECT claimed_by ... FOR UPDATE, then commit: one step.
Publish(w) ==
  LET j == worker[w].job IN
  /\ worker[w].pc \in {"ending", "answered"}
  /\ IF row[j].by = w
       THEN /\ row' = Rendered([row EXCEPT ![j] = Settled(@, worker[w].out)], j)
            /\ published' = [r \in Reports |-> published[r] \/ r = j]
            /\ IF j \in Reports THEN To(w, "published") ELSE Rest(w)
       ELSE To(w, "raised") /\ UNCHANGED <<row, published>>
  /\ UNCHANGED <<expired, mails, client, cleaner, late, crashes>>

\* reconcile after a publication, without the advisory lock: it reads what is
\* missing ...
ReconcileRead(w) ==
  /\ worker[w].pc = "published"
  /\ worker' = [worker EXCEPT ![w] = Lacking(@, Missing)]
  /\ UNCHANGED <<row, published, expired, mails, client, cleaner, late, crashes>>

\* ... and inserts it, unless a session that was faster makes a unique
\* constraint (request_key; report_id, recipient) fail.
ReconcileWrite(w) ==
  /\ worker[w].pc = "reconciling"
  /\ IF \E j \in worker[w].missing : Exists(j)
       THEN To(w, "raised") /\ UNCHANGED row
       ELSE Rest(w) /\ Insert(worker[w].missing)
  /\ UNCHANGED <<published, expired, mails, client, cleaner, late, crashes>>

\* except Exception: read the row again, without a lock ...
HandlerRead(w) ==
  /\ worker[w].pc = "raised"
  /\ IF row[worker[w].job].by = w
       THEN worker' = [worker EXCEPT ![w] = Having(@, row[worker[w].job])]
       ELSE Rest(w)
  /\ UNCHANGED <<row, published, expired, mails, client, cleaner, late, crashes>>

\* ... and write what follows from what was read.
HandlerWrite(w) ==
  LET j == worker[w].job IN
  /\ worker[w].pc = "handling"
  /\ row' = [row EXCEPT ![j] = Settled(@, AfterFailure(j, worker[w].seen))]
  /\ Rest(w)
  /\ UNCHANGED <<published, expired, mails, client, cleaner, late, crashes>>

-----------------------------------------------------------------------------
(* API clients and retention.                                               *)

\* Fault: a doubtful delivery may be retried too.
RetryReadDoubtful(c, d) ==
  /\ client[c] = NoJob
  /\ row[d].status \in {"failed", "unknown"} /\ ~expired[ReportOf[d]]
  /\ client' = [client EXCEPT ![c] = d]
  /\ UNCHANGED <<row, published, expired, mails, worker, cleaner, late, crashes>>

\* POST .../deliveries/{id}/retry checks the status it read ...
RetryRead(c, d) ==
  /\ client[c] = NoJob
  /\ row[d].status = "failed" /\ ~expired[ReportOf[d]]
  /\ client' = [client EXCEPT ![c] = d]
  /\ UNCHANGED <<row, published, expired, mails, worker, cleaner, late, crashes>>

\* ... and commits without looking again, under the report's shared lock only.
RetryWrite(c) ==
  /\ client[c] # NoJob
  /\ row' = [row EXCEPT ![client[c]] = Requeued(@)]
  /\ client' = [client EXCEPT ![c] = NoJob]
  /\ UNCHANGED <<published, expired, mails, worker, cleaner, late, crashes>>

\* POST /signal-reports/{id}/render
Rerender(r) ==
  /\ Exists(r) /\ ~expired[r] /\ row[r].status \notin {"running", "queued"}
  /\ row' = IF published[r] THEN Rendered(row, r)
            ELSE [row EXCEPT ![r] = Requeued(@)]
  /\ UNCHANGED <<published, expired, mails, worker, client, cleaner, late, crashes>>

InUse(r) ==
  \E j \in Deliveries \cup Renders :
    ReportOf[j] = r /\ row[j].status \in (IF j \in Renders THEN {"running"} ELSE Active)

\* Holders of the report's shared advisory lock.
Locked(r) ==
  \/ \E w \in Workers : /\ worker[w].pc \in {"talking", "ending"}
                        /\ worker[w].job \in Deliveries \cup Renders
                        /\ ReportOf[worker[w].job] = r
  \/ \E c \in Clients : client[c] # NoJob /\ ReportOf[client[c]] = r

\* cleanup takes the exclusive lock, looks again, and commits the tombstone.
Tombstone(k, r) ==
  /\ cleaner[k].pc = "idle" /\ r \in Automatic /\ published[r]
  /\ row[r].status \notin {"running", "queued", "expired"}
  /\ ~Locked(r) /\ ~InUse(r)
  /\ expired' = [expired EXCEPT ![r] = TRUE]
  /\ row' = [row EXCEPT ![r] = WithStatus(@, "expiring")]
  /\ cleaner' = [cleaner EXCEPT ![k] = [Resting EXCEPT !.pc = "tombstone", !.report = r]]
  /\ UNCHANGED <<published, mails, worker, client, late, crashes>>

\* It reads the report's queued deliveries and renders ...
SweepRead(k) ==
  /\ cleaner[k].pc = "tombstone"
  /\ cleaner' = [cleaner EXCEPT ![k].pc = "sweeping",
       ![k].swept = {j \in Deliveries \cup Renders :
                       ReportOf[j] = cleaner[k].report /\ row[j].status = "queued"}]
  /\ UNCHANGED <<row, published, expired, mails, worker, client, late, crashes>>

\* ... and commits their expiry with the report's.
SweepWrite(k) ==
  /\ cleaner[k].pc = "sweeping"
  /\ row' = [j \in Jobs |-> IF j \in cleaner[k].swept \cup {cleaner[k].report}
                              THEN WithStatus(row[j], "expired") ELSE row[j]]
  /\ cleaner' = [cleaner EXCEPT ![k] = Resting]
  /\ UNCHANGED <<published, expired, mails, worker, client, late, crashes>>

CleanerCrash(k) ==
  /\ cleaner[k].pc # "idle" /\ crashes < MaxCrashes
  /\ crashes' = crashes + 1
  /\ cleaner' = [cleaner EXCEPT ![k] = Resting]
  /\ UNCHANGED <<row, published, expired, mails, worker, client, late>>

-----------------------------------------------------------------------------
Polls(w, queue) == Claim(w, queue) \/ Recover(w, queue)
Delivers(w) == Prepare(w) \/ RefusedEarly(w) \/ Mark(w) \/ ServerAccepts(w) \/ Answered(w)
Computes(w) == Scan(w) \/ PublishReport(w) \/ Render(w) \/ Delivers(w)
Ends(w) == Publish(w) \/ ReconcileRead(w) \/ ReconcileWrite(w) \/ HandlerRead(w) \/ HandlerWrite(w)
WorkerStep(w) == Computes(w) \/ Ends(w)
Cleans(k) == (\E r \in Reports : Tombstone(k, r)) \/ SweepRead(k) \/ SweepWrite(k)

Next ==
  \/ \E s \in Scans : EnqueueScan(s)
  \/ \E r \in Reports : MakeReport(r) \/ Rerender(r)
  \/ \E d \in Deliveries : Deliver(d)
  \/ \E j \in Jobs : LeaseExpires(j)
  \/ \E w \in Workers : Reconcile(w) \/ WorkerStep(w) \/ Beat(w) \/ Crash(w)
  \/ \E w \in Workers, queue \in Queues : Polls(w, queue)
  \/ \E c \in Clients : RetryWrite(c) \/ \E d \in Deliveries : RetryRead(c, d)
  \/ \E k \in Cleaners : Cleans(k) \/ CleanerCrash(k)

Spec == Init /\ [][Next]_vars
-----------------------------------------------------------------------------
(* Safety.                                                                  *)

\* The rows, the flags and the local values have the shapes the code gives them.
TypeOK ==
  /\ row \in [Jobs -> Row]
  /\ published \in [Reports -> BOOLEAN] /\ expired \in [Reports -> BOOLEAN]
  /\ mails \in [Deliveries -> Nat]
  /\ client \in [Clients -> Deliveries \cup {NoJob}]
  /\ worker \in [Workers -> Local]
  /\ \A w \in Workers : worker[w].pc = "idle" <=> worker[w].job = NoJob
  /\ cleaner \in [Cleaners -> Cleanup]
  /\ late \in 0..MaxLate /\ crashes \in 0..MaxCrashes

\* The server accepts at most one message per delivery, whatever is lost,
\* crashes or is retried ("ambiguous acceptance is never blindly retried").
AtMostOneMail == \A d \in Deliveries : mails[d] <= 1

\* A row claims neither a success that did not happen nor a failure that may
\* be a success: only "unknown" and "sending" leave it open, so that what the
\* API lets a user retry was certainly not sent.
Honest ==
  \A d \in Deliveries :
    /\ row[d].status = "sent" => mails[d] = 1
    /\ row[d].status \in {"queued", "running", "failed", "expired"} => mails[d] = 0

\* Two workers are never at the same job, and a worker at a job owns its row.
OneOwner ==
  \A w \in Workers : worker[w].pc # "idle" => row[worker[w].job].by = w

-----------------------------------------------------------------------------
(* What a step may never do.                                                *)

\* Whether a mail was sent, or may have been, is never rewritten.
VerdictStands ==
  [][\A d \in Deliveries : row[d].status \in {"sent", "unknown"} => row'[d] = row[d]]_vars

\* Nothing of an expired report reaches the server any more.
NoMailAfterExpiry ==
  [][\A d \in Deliveries : expired[ReportOf[d]] => mails'[d] = mails[d]]_vars

-----------------------------------------------------------------------------
(* The signal centre implements MailOnce.                                   *)

Phase(d) ==
  CASE row[d].status = "sent"    -> "sent"
    [] row[d].status = "unknown" -> "doubtful"
    [] row[d].status = "sending" -> "underway"
    [] OTHER                     -> "open"

Mail == INSTANCE MailOnce WITH phase <- [d \in Deliveries |-> Phase(d)]

\* Every step of the signal centre is a step of the abstract protocol or
\* leaves its variables alone.
MailsOnce == Mail!Spec

-----------------------------------------------------------------------------
(* Liveness.  A worker repeats its pass for ever, and a pass reconciles and  *)
(* polls every queue once (run_once: "Give every stage one claim per pass"), *)
(* so each is tried again and again; time passes; SMTP calls time out after  *)
(* 30 seconds.  Nothing is assumed of clients, crashes or the server.        *)
Fairness ==
  /\ \A w \in Workers : WF_vars(WorkerStep(w))
  /\ SF_vars(\E w \in Workers : Reconcile(w))
  /\ \A queue \in Queues : SF_vars(\E w \in Workers : Polls(w, queue))
  /\ \A j \in Jobs : WF_vars(LeaseExpires(j) /\ ~\E w \in Workers : Works(w, j))
  /\ \A k \in Cleaners : WF_vars(SweepRead(k) \/ SweepWrite(k))

LiveSpec == Spec /\ Fairness

\* A delivery that is queued comes to an end, whatever crashes.
DeliveryEnds ==
  \A d \in Deliveries :
    row[d].status \in {"queued", "running", "sending"}
      ~> row[d].status \in {"sent", "unknown", "failed", "expired"}

\* A scheduled scan that ends has its report published or given up, and every
\* delivery of a published report is created.
ReportFollows ==
  \A r \in Automatic :
    row[ScanOf[r]].status \in Ended ~> published[r] \/ row[r].status = "failed"
=============================================================================

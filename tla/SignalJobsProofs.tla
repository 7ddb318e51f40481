--------------------------- MODULE SignalJobsProofs ---------------------------
(* Theorems about SignalJobs, for every value of its constants: its types,   *)
(* the safety of mail with the inductive invariant it needs, and that it     *)
(* implements MailOnce.                                                      *)
EXTENDS SignalJobs, TLAPS

-----------------------------------------------------------------------------
(* What the operators that rewrite a row or a worker preserve.              *)

Leases == {"null", "live", "expired"}

LEMMA RowUpdates ==
  ASSUME NEW r \in Row
  PROVE  /\ \A s \in Status : WithStatus(r, s) \in Row /\ Settled(r, s) \in Row
         /\ \A l \in Leases : WithLease(r, l) \in Row
         /\ Requeued(r) \in Row
         /\ \A w \in Workers : Claimed(r, w) \in Row
         /\ r.status \in Status /\ r.attempts \in Nat
<1>1. \A s \in Status : WithStatus(r, s) \in Row
  BY DEF Row, WithStatus
<1>2. \A s \in Status : Settled(r, s) \in Row
  BY DEF Row, Settled
<1>3. \A l \in Leases : WithLease(r, l) \in Row
  BY DEF Row, Leases, WithLease
<1>4. Requeued(r) \in Row
  BY DEF Row, Requeued, Status
<1>5. \A w \in Workers : Claimed(r, w) \in Row
  BY DEF Row, Claimed, Status, Active
<1> QED
  BY <1>1, <1>2, <1>3, <1>4, <1>5 DEF Row

LEMMA FreshRowIsRow == FreshRow \in Row
BY DEF FreshRow, Row, Status, Active

LEMMA OutcomeStatus ==
  /\ \A n \in Nat : Retried(n) \in Status
  /\ \A j : \A r \in Row : AfterFailure(j, r) \in Status
  /\ \A a \in {"accepted", "temporary", "permanent", "lost", "recipient_refused"},
        b \in BOOLEAN, n \in Nat : Outcome(a, b, n) \in Status
BY DEF Retried, AfterFailure, Outcome, Status, Active, Row

LEMMA RecoveredRow ==
  ASSUME NEW j \in Jobs, row[j] \in Row
  PROVE  Recovered(j) \in Row
<1>1. Settled(row[j], AfterFailure(j, row[j])) \in Row
  BY RowUpdates, OutcomeStatus
<1> QED
  BY <1>1 DEF Recovered, Row

Doing == {"working", "talking", "data", "accepted", "answered", "ending",
          "published", "reconciling", "raised", "handling"}
Answer == {"none", "accepted", "temporary", "permanent", "lost", "recipient_refused"}

LEMMA LocalUpdates ==
  ASSUME NEW l \in Local
  PROVE  /\ \A pc \in Doing : Goto(l, pc) \in Local
         /\ \A pc \in Doing, s \in Status, a \in Answer : Ending(l, pc, s, a) \in Local
         /\ \A r \in Row : Having(l, r) \in Local
         /\ \A m \in SUBSET Jobs : Lacking(l, m) \in Local
<1>1. \A pc \in Doing : Goto(l, pc) \in Local
  BY DEF Local, Goto, Doing
<1>2. \A pc \in Doing, s \in Status, a \in Answer : Ending(l, pc, s, a) \in Local
  BY DEF Local, Ending, Doing, Answer
<1>3. \A r \in Row : Having(l, r) \in Local
  BY DEF Local, Having
<1>4. \A m \in SUBSET Jobs : Lacking(l, m) \in Local
  BY DEF Local, Lacking
<1> QED
  BY <1>1, <1>2, <1>3, <1>4

\* What the updates change, and what they leave alone.
LEMMA LocalFields ==
  ASSUME NEW l \in Local
  PROVE  /\ \A pc : Goto(l, pc).pc = pc /\ Goto(l, pc).job = l.job
         /\ \A pc : Goto(l, pc).out = l.out /\ Goto(l, pc).seen = l.seen
         /\ \A pc, s, a : LET m == Ending(l, pc, s, a) IN
              m.pc = pc /\ m.job = l.job /\ m.out = s
         /\ \A r : LET m == Having(l, r) IN m.pc = "handling" /\ m.job = l.job /\ m.seen = r
         /\ \A x : LET m == Lacking(l, x) IN m.pc = "reconciling" /\ m.job = l.job
BY DEF Local, Goto, Ending, Having, Lacking

LEMMA LocalValues ==
  /\ Idle \in Local /\ Idle.pc = "idle" /\ Idle.job = NoJob
  /\ \A j \in Jobs, n \in Nat : /\ Holding(j, n) \in Local
                                /\ Holding(j, n).pc = "working" /\ Holding(j, n).job = j
BY FreshRowIsRow, QueuesAssumption DEF Local, Idle, Holding, Status, Active

\* A worker that is not idle has a job.
LEMMA BusyWorker ==
  ASSUME TypeOK, NEW w \in Workers, worker[w].pc # "idle"
  PROVE  /\ worker[w] \in Local /\ worker[w].job \in Jobs /\ worker[w].job # NoJob
         /\ worker[w].attempts \in Nat /\ worker[w].out \in Status /\ worker[w].seen \in Row
         /\ worker[w].missing \subseteq Jobs
BY DEF TypeOK, Local

-----------------------------------------------------------------------------
(* Type correctness.                                                        *)

LEMMA InitTypeOK == Init => TypeOK
BY FreshRowIsRow, LocalValues, LimitsAssumption
   DEF Init, TypeOK, Resting, Cleanup

\* A worker that moves on, or comes to rest, keeps its shape.
LEMMA WorkerMoves ==
  ASSUME TypeOK, NEW w \in Workers,
         \/ Rest(w)
         \/ /\ worker[w].pc # "idle"
            /\ \/ \E pc \in Doing : To(w, pc)
               \/ \E pc \in Doing, s \in Status, a \in Answer : End(w, pc, s, a)
               \/ \E r \in Row : worker' = [worker EXCEPT ![w] = Having(@, r)]
               \/ \E m \in SUBSET Jobs : worker' = [worker EXCEPT ![w] = Lacking(@, m)]
  PROVE  /\ worker' \in [Workers -> Local]
         /\ \A v \in Workers : worker'[v].pc = "idle" <=> worker'[v].job = NoJob
<1>1. CASE Rest(w)
  BY <1>1, LocalValues DEF TypeOK, Rest
<1>2. ASSUME NEW l \in Local, l.pc \in Doing, l.job = worker[w].job,
             worker[w].pc # "idle", worker' = [worker EXCEPT ![w] = l]
      PROVE  /\ worker' \in [Workers -> Local]
             /\ \A v \in Workers : worker'[v].pc = "idle" <=> worker'[v].job = NoJob
  BY <1>2, BusyWorker DEF TypeOK, Doing
<1>3. ASSUME worker[w].pc # "idle", NEW pc \in Doing, To(w, pc)
      PROVE  /\ worker' \in [Workers -> Local]
             /\ \A v \in Workers : worker'[v].pc = "idle" <=> worker'[v].job = NoJob
  <2>1. worker' = [worker EXCEPT ![w] = Goto(worker[w], pc)]
    BY <1>3 DEF To
  <2>2. Goto(worker[w], pc) \in Local /\ Goto(worker[w], pc).pc \in Doing
        /\ Goto(worker[w], pc).job = worker[w].job
    BY <2>1, <1>3, BusyWorker, LocalUpdates, LocalFields
  <2> QED
    BY <2>1, <2>2, <1>2, <1>3
<1>4. ASSUME worker[w].pc # "idle", NEW pc \in Doing, NEW s \in Status, NEW a \in Answer,
             End(w, pc, s, a)
      PROVE  /\ worker' \in [Workers -> Local]
             /\ \A v \in Workers : worker'[v].pc = "idle" <=> worker'[v].job = NoJob
  <2>1. worker' = [worker EXCEPT ![w] = Ending(worker[w], pc, s, a)]
    BY <1>4 DEF End
  <2>2. Ending(worker[w], pc, s, a) \in Local /\ Ending(worker[w], pc, s, a).pc \in Doing
        /\ Ending(worker[w], pc, s, a).job = worker[w].job
    BY <2>1, <1>4, BusyWorker, LocalUpdates, LocalFields
  <2> QED
    BY <2>1, <2>2, <1>2, <1>4
<1>5. ASSUME worker[w].pc # "idle", NEW r \in Row,
             worker' = [worker EXCEPT ![w] = Having(@, r)]
      PROVE  /\ worker' \in [Workers -> Local]
             /\ \A v \in Workers : worker'[v].pc = "idle" <=> worker'[v].job = NoJob
  <2>1. worker' = [worker EXCEPT ![w] = Having(worker[w], r)] /\ "handling" \in Doing
    BY <1>5 DEF Doing
  <2>2. Having(worker[w], r) \in Local /\ Having(worker[w], r).pc \in Doing
        /\ Having(worker[w], r).job = worker[w].job
    BY <2>1, <1>5, BusyWorker, LocalUpdates, LocalFields
  <2> QED
    BY <2>1, <2>2, <1>2, <1>5
<1>6. ASSUME worker[w].pc # "idle", NEW m \in SUBSET Jobs,
             worker' = [worker EXCEPT ![w] = Lacking(@, m)]
      PROVE  /\ worker' \in [Workers -> Local]
             /\ \A v \in Workers : worker'[v].pc = "idle" <=> worker'[v].job = NoJob
  <2>1. worker' = [worker EXCEPT ![w] = Lacking(worker[w], m)] /\ "reconciling" \in Doing
    BY <1>6 DEF Doing
  <2>2. Lacking(worker[w], m) \in Local /\ Lacking(worker[w], m).pc \in Doing
        /\ Lacking(worker[w], m).job = worker[w].job
    BY <2>1, <1>6, BusyWorker, LocalUpdates, LocalFields
  <2> QED
    BY <2>1, <2>2, <1>2, <1>6
<1> QED
  BY <1>1, <1>3, <1>4, <1>5, <1>6

LEMMA InsertedRows ==
  ASSUME TypeOK, NEW new, Insert(new)
  PROVE  row' \in [Jobs -> Row]
BY RowUpdates, FreshRowIsRow DEF TypeOK, Insert, FirstStatus, Status

LEMMA RecoveryRows ==
  ASSUME TypeOK, NEW queue
  PROVE  Recovery(queue) \in [Jobs -> Row]
BY RecoveredRow DEF TypeOK, Recovery

LEMMA RenderedRows ==
  ASSUME NEW rows \in [Jobs -> Row], NEW r
  PROVE  Rendered(rows, r) \in [Jobs -> Row]
BY RowUpdates, FreshRowIsRow DEF Rendered, Status

LEMMA NextTypeOK ==
  ASSUME TypeOK, [Next]_vars
  PROVE  TypeOK'
<1> USE DEF TypeOK
<1>1. ASSUME NEW s \in Scans, EnqueueScan(s) PROVE TypeOK'
  BY <1>1, InsertedRows DEF EnqueueScan
<1>2. ASSUME NEW r \in Reports, MakeReport(r) PROVE TypeOK'
  BY <1>2, InsertedRows DEF MakeReport
<1>3. ASSUME NEW r \in Reports, Rerender(r) PROVE TypeOK'
  <2>1. row' \in [Jobs -> Row]
    BY <1>3, RenderedRows, RowUpdates DEF Rerender
  <2> QED
    BY <1>3, <2>1 DEF Rerender
<1>4. ASSUME NEW d \in Deliveries, Deliver(d) PROVE TypeOK'
  BY <1>4, InsertedRows DEF Deliver
<1>5. ASSUME NEW j \in Jobs, LeaseExpires(j) PROVE TypeOK'
  <2>1. row' \in [Jobs -> Row]
    BY <1>5, RowUpdates DEF LeaseExpires, Leases
  <2>2. late' \in 0..MaxLate
    BY <1>5, LimitsAssumption DEF LeaseExpires
  <2> QED
    BY <1>5, <2>1, <2>2 DEF LeaseExpires
<1>6. ASSUME NEW w \in Workers, Reconcile(w) PROVE TypeOK'
  BY <1>6, InsertedRows DEF Reconcile
<1>7. ASSUME NEW w \in Workers, Scan(w) PROVE TypeOK'
  <2>1. worker[w].pc # "idle" /\ (\/ \E s \in Ended : End(w, "ending", s, "none")
                                  \/ To(w, "raised"))
    BY <1>7 DEF Scan, At
  <2>2. Ended \subseteq Status /\ {"ending", "raised"} \subseteq Doing /\ "none" \in Answer
    BY DEF Ended, Status, Doing, Answer
  <2> QED
    BY <1>7, <2>1, <2>2, WorkerMoves DEF Scan
<1>8. ASSUME NEW w \in Workers, PublishReport(w) PROVE TypeOK'
  <2>1. worker[w].pc # "idle" /\ (End(w, "ending", "completed", "none") \/ To(w, "raised"))
    BY <1>8 DEF PublishReport, At
  <2>2. "completed" \in Status /\ {"ending", "raised"} \subseteq Doing /\ "none" \in Answer
    BY DEF Status, Doing, Answer
  <2> QED
    BY <1>8, <2>1, <2>2, WorkerMoves DEF PublishReport
<1>9. ASSUME NEW w \in Workers, Render(w) PROVE TypeOK'
  <2>1. worker[w].pc # "idle"
    BY <1>9 DEF Render, At
  <2>2. Retried(worker[w].attempts) \in Status
    BY <2>1, BusyWorker, OutcomeStatus
  <2>3. {"completed", "expired"} \subseteq Status /\ {"ending", "raised"} \subseteq Doing
        /\ "none" \in Answer
    BY DEF Status, Doing, Answer
  <2>4. (\E s \in Status : End(w, "ending", s, "none")) \/ To(w, "raised")
    BY <1>9, <2>2, <2>3 DEF Render
  <2> QED
    BY <1>9, <2>1, <2>3, <2>4, WorkerMoves DEF Render
<1>10. ASSUME NEW w \in Workers, Prepare(w) PROVE TypeOK'
  <2>1. worker[w].pc # "idle" /\ (To(w, "talking") \/ To(w, "raised"))
    BY <1>10 DEF Prepare, At
  <2>2. {"talking", "raised"} \subseteq Doing
    BY DEF Doing
  <2> QED
    BY <1>10, <2>1, <2>2, WorkerMoves DEF Prepare
<1>11. ASSUME NEW w \in Workers, RefusedEarly(w) PROVE TypeOK'
  <2>1. worker[w].pc # "idle"
    BY <1>11 DEF RefusedEarly, At
  <2>2. PICK a \in {"temporary", "permanent", "lost", "recipient_refused"} :
           End(w, "ending", Outcome(a, FALSE, worker[w].attempts), a)
    BY <1>11 DEF RefusedEarly
  <2>3. Outcome(a, FALSE, worker[w].attempts) \in Status
    BY <2>1, BusyWorker, OutcomeStatus
  <2>4. "ending" \in Doing /\ a \in Answer
    BY DEF Doing, Answer
  <2> QED
    BY <1>11, <2>1, <2>2, <2>3, <2>4, WorkerMoves DEF RefusedEarly
<1>12. ASSUME NEW w \in Workers, Mark(w) PROVE TypeOK'
  <2>1. worker[w].pc # "idle" /\ (To(w, "data") \/ To(w, "raised"))
    BY <1>12 DEF Mark, At
  <2>2. {"data", "raised"} \subseteq Doing /\ "sending" \in Status
    BY DEF Doing, Status, Active
  <2>3. worker[w].job \in Jobs
    BY <2>1, BusyWorker
  <2>4. WithStatus(row[worker[w].job], "sending") \in Row
    BY <2>2, <2>3, RowUpdates
  <2>5. row' = row \/ row' = [row EXCEPT ![worker[w].job] = WithStatus(row[worker[w].job], "sending")]
    BY <1>12 DEF Mark
  <2>6. row' \in [Jobs -> Row]
    BY <2>4, <2>5
  <2> QED
    BY <1>12, <2>1, <2>2, <2>6, WorkerMoves DEF Mark
<1>13. ASSUME NEW w \in Workers, ServerAccepts(w) PROVE TypeOK'
  <2>1. worker[w].pc # "idle" /\ To(w, "accepted") /\ "accepted" \in Doing
    BY <1>13 DEF ServerAccepts, At, Doing
  <2>2. mails' \in [Deliveries -> Nat]
    BY <1>13 DEF ServerAccepts, At
  <2> QED
    BY <1>13, <2>1, <2>2, WorkerMoves DEF ServerAccepts
<1>14. ASSUME NEW w \in Workers, Answered(w) PROVE TypeOK'
  <2>1. worker[w].pc # "idle"
    BY <1>14 DEF Answered
  <2>2. PICK a \in Answers(w) : End(w, "answered", Outcome(a, TRUE, worker[w].attempts), a)
    BY <1>14 DEF Answered
  <2>3. a \in {"accepted", "temporary", "permanent", "lost", "recipient_refused"}
    BY DEF Answers
  <2>4. Outcome(a, TRUE, worker[w].attempts) \in Status
    BY <2>1, <2>3, BusyWorker, OutcomeStatus
  <2>5. "answered" \in Doing /\ a \in Answer
    BY <2>3 DEF Doing, Answer
  <2> QED
    BY <1>14, <2>1, <2>2, <2>4, <2>5, WorkerMoves DEF Answered
<1>15. ASSUME NEW w \in Workers, Publish(w) PROVE TypeOK'
  <2> DEFINE j == worker[w].job
  <2>1. worker[w].pc # "idle" /\ (To(w, "published") \/ Rest(w) \/ To(w, "raised"))
    BY <1>15 DEF Publish
  <2>2. {"published", "raised"} \subseteq Doing
    BY DEF Doing
  <2> DEFINE rows == [row EXCEPT ![j] = Settled(row[j], worker[w].out)]
  <2>3. rows \in [Jobs -> Row]
    BY <2>1, BusyWorker, RowUpdates
  <2>4. row' \in [Jobs -> Row]
    <3>1. row' = row \/ row' = Rendered(rows, j)
      BY <1>15 DEF Publish
    <3> HIDE DEF rows
    <3>2. Rendered(rows, j) \in [Jobs -> Row]
      BY <2>3, RenderedRows
    <3> QED
      BY <3>1, <3>2
  <2>5. published' \in [Reports -> BOOLEAN]
    BY <1>15 DEF Publish
  <2> QED
    BY <1>15, <2>1, <2>2, <2>4, <2>5, WorkerMoves DEF Publish
<1>16. ASSUME NEW w \in Workers, ReconcileRead(w) PROVE TypeOK'
  <2>1. worker[w].pc # "idle" /\ worker' = [worker EXCEPT ![w] = Lacking(@, Missing)]
    BY <1>16 DEF ReconcileRead
  <2>2. Missing \in SUBSET Jobs
    BY QueuesAssumption DEF Missing, MissingReports, MissingDeliveries, Jobs
  <2> QED
    BY <1>16, <2>1, <2>2, WorkerMoves DEF ReconcileRead
<1>17. ASSUME NEW w \in Workers, ReconcileWrite(w) PROVE TypeOK'
  <2>1. worker[w].pc # "idle" /\ (Rest(w) \/ To(w, "raised")) /\ "raised" \in Doing
    BY <1>17 DEF ReconcileWrite, Doing
  <2>2. row' \in [Jobs -> Row]
    BY <1>17, InsertedRows DEF ReconcileWrite
  <2> QED
    BY <1>17, <2>1, <2>2, WorkerMoves DEF ReconcileWrite
<1>18. ASSUME NEW w \in Workers, HandlerRead(w) PROVE TypeOK'
  <2>1. worker[w].pc # "idle"
        /\ (Rest(w) \/ worker' = [worker EXCEPT ![w] = Having(@, row[worker[w].job])])
    BY <1>18 DEF HandlerRead
  <2>2. row[worker[w].job] \in Row
    BY <2>1, BusyWorker
  <2> QED
    BY <1>18, <2>1, <2>2, WorkerMoves DEF HandlerRead
<1>19. ASSUME NEW w \in Workers, HandlerWrite(w) PROVE TypeOK'
  <2>1. worker[w].pc # "idle" /\ Rest(w)
    BY <1>19 DEF HandlerWrite
  <2>2. row' \in [Jobs -> Row]
    BY <1>19, <2>1, BusyWorker, OutcomeStatus, RowUpdates DEF HandlerWrite
  <2> QED
    BY <1>19, <2>1, <2>2, WorkerMoves DEF HandlerWrite
<1>20. ASSUME NEW w \in Workers, Beat(w) PROVE TypeOK'
  BY <1>20, RowUpdates DEF Beat, Leases
<1>21. ASSUME NEW w \in Workers, Crash(w) PROVE TypeOK'
  <2>1. Rest(w) /\ crashes' \in 0..MaxCrashes
    BY <1>21, LimitsAssumption DEF Crash
  <2> QED
    BY <1>21, <2>1, WorkerMoves DEF Crash
<1>22. ASSUME NEW w \in Workers, NEW queue \in Queues, Claim(w, queue) PROVE TypeOK'
  <2>1. PICK j \in queue : /\ row' = [Recovery(queue) EXCEPT ![j] = Claimed(row[j], w)]
                           /\ worker' = [worker EXCEPT ![w] = Holding(j, row[j].attempts + 1)]
    BY <1>22 DEF Claim
  <2>2. j \in Jobs
    BY DEF Queues, Jobs
  <2>3. row' \in [Jobs -> Row]
    BY <2>1, <2>2, RecoveryRows, RowUpdates
  <2>4. row[j].attempts + 1 \in Nat
    BY <2>2, RowUpdates
  <2>5. Holding(j, row[j].attempts + 1) \in Local
        /\ Holding(j, row[j].attempts + 1).pc = "working"
        /\ Holding(j, row[j].attempts + 1).job = j
    BY <2>2, <2>4, LocalValues
  <2>6. worker' \in [Workers -> Local]
        /\ \A v \in Workers : worker'[v].pc = "idle" <=> worker'[v].job = NoJob
    BY <2>1, <2>2, <2>5, QueuesAssumption
  <2> QED
    BY <1>22, <2>3, <2>6 DEF Claim
<1>23. ASSUME NEW w \in Workers, NEW queue \in Queues, Recover(w, queue) PROVE TypeOK'
  BY <1>23, RecoveryRows DEF Recover
<1>24. ASSUME NEW c \in Clients, RetryWrite(c) PROVE TypeOK'
  <2>1. row' \in [Jobs -> Row]
    BY <1>24, RowUpdates DEF RetryWrite, Jobs
  <2> QED
    BY <1>24, <2>1 DEF RetryWrite
<1>25. ASSUME NEW c \in Clients, NEW d \in Deliveries, RetryRead(c, d) PROVE TypeOK'
  BY <1>25 DEF RetryRead
<1>26. ASSUME NEW k \in Cleaners, NEW r \in Reports, Tombstone(k, r) PROVE TypeOK'
  <2>1. row' \in [Jobs -> Row]
    BY <1>26, RowUpdates DEF Tombstone, Status
  <2>2. [Resting EXCEPT !.pc = "tombstone", !.report = r] \in Cleanup
    BY DEF Cleanup, Resting
  <2>3. cleaner' \in [Cleaners -> Cleanup]
    BY <1>26, <2>2 DEF Tombstone
  <2> QED
    BY <1>26, <2>1, <2>3 DEF Tombstone
<1>27. ASSUME NEW k \in Cleaners, SweepRead(k) PROVE TypeOK'
  <2> DEFINE swept == {j \in Deliveries \cup Renders :
                         ReportOf[j] = cleaner[k].report /\ row[j].status = "queued"}
  <2>1. cleaner' \in [Cleaners -> Cleanup]
    <3>1. swept \in SUBSET (Deliveries \cup Renders)
      OBVIOUS
    <3>2. cleaner' = [cleaner EXCEPT ![k].pc = "sweeping", ![k].swept = swept]
      BY <1>27 DEF SweepRead
    <3> DEFINE next == [cleaner[k] EXCEPT !.pc = "sweeping", !.swept = swept]
    <3> HIDE DEF swept
    <3>3. cleaner[k] \in Cleanup
      OBVIOUS
    <3>4. next \in Cleanup
      BY <3>1, <3>3 DEF Cleanup
    <3>5. cleaner' = [cleaner EXCEPT ![k] = next]
      BY <3>2, <3>3 DEF Cleanup
    <3> HIDE DEF next
    <3> QED
      BY <3>4, <3>5
  <2> QED
    BY <1>27, <2>1 DEF SweepRead
<1>28. ASSUME NEW k \in Cleaners, SweepWrite(k) PROVE TypeOK'
  <2>1. row' \in [Jobs -> Row]
    BY <1>28, RowUpdates DEF SweepWrite, Status
  <2>2. cleaner' \in [Cleaners -> Cleanup]
    BY <1>28 DEF SweepWrite, Cleanup, Resting
  <2> QED
    BY <1>28, <2>1, <2>2 DEF SweepWrite
<1>29. ASSUME NEW k \in Cleaners, CleanerCrash(k) PROVE TypeOK'
  <2>1. cleaner' \in [Cleaners -> Cleanup] /\ crashes' \in 0..MaxCrashes
    BY <1>29, LimitsAssumption DEF CleanerCrash, Cleanup, Resting
  <2> QED
    BY <1>29, <2>1 DEF CleanerCrash
<1>30. CASE UNCHANGED vars
  BY <1>30 DEF vars
<1> QED
  BY <1>1, <1>2, <1>3, <1>4, <1>5, <1>6, <1>7, <1>8, <1>9, <1>10, <1>11, <1>12, <1>13, <1>14,
     <1>15, <1>16, <1>17, <1>18, <1>19, <1>20, <1>21, <1>22, <1>23, <1>24, <1>25, <1>26, <1>27,
     <1>28, <1>29, <1>30
     DEF Next, WorkerStep, Computes, Delivers, Ends, Polls, Cleans

\* Every reachable state of the signal centre is well formed.
THEOREM TypeCorrect == Spec => []TypeOK
<1>1. Init => TypeOK
  BY InitTypeOK
<1>2. TypeOK /\ [Next]_vars => TypeOK'
  BY NextTypeOK
<1> QED
  BY <1>1, <1>2, PTL DEF Spec

-----------------------------------------------------------------------------
(* The inductive invariant behind the safety of mail.  It holds as long as   *)
(* leases are kept and one user at a time retries.                           *)

KeptLeases == LateWorkers = FALSE
OneUser    == \A b, c \in Clients : b = c

\* What is still open, and what stands.
Open    == {"none", "queued", "running", "failed", "expired"}
Verdict == {"sent", "unknown"}

\* What a delivery's row says about the number of mails accepted.
Agrees(r, n) ==
  /\ r.status \in Open \cup Verdict \cup {"sending"}
  /\ r.status \in Open => n = 0
  /\ r.status = "sent" => n = 1
  /\ r.status \in {"sending", "unknown"} => n \in {0, 1}
  /\ r.status \in Verdict => r.lease = "null"

\* What a row can be while a worker is at it: never in the queue, never failed.
Held(l, s, bodyOut) ==
  \/ s = "running"
  \/ l.job \in Deliveries /\ s \in {"sending", "expired"}
  \/ l.job \in Renders /\ s = "expired"
  \/ l.job \in Reports /\ bodyOut /\ s \in {"completed", "expiring", "expired"}

\* Only deliveries talk to the server, and a report ends completed.
Fits(l) ==
  /\ l.pc \in {"talking", "data", "accepted", "answered"} => l.job \in Deliveries
  /\ l.pc = "ending" /\ l.job \in Reports => l.out = "completed"

\* How far a worker is with a delivery of status s, n mails accepted, whose
\* report is expired (x).
Stage(l, s, n, x) ==
  /\ l.pc \notin {"published", "reconciling"}
  /\ l.pc \in {"working", "raised", "handling"} => s \in {"running", "sending", "expired"}
  /\ l.pc = "working" => s # "sending"
  /\ l.pc \in {"talking", "ending"} => s = "running" /\ ~x
  /\ l.pc \in {"data", "accepted", "answered"} => s = "sending" /\ ~x
  /\ l.pc = "data" => n = 0
  /\ l.pc = "accepted" => n = 1
  /\ l.pc = "ending" => l.out \in {"queued", "failed"}
  /\ l.pc = "answered" => \/ l.out \in {"queued", "failed"} /\ n = 0
                          \/ l.out = "sent" /\ n = 1
                          \/ l.out = "unknown"
  /\ l.pc = "handling" => (l.seen.status = "sending" <=> s = "sending")

MailsAgree == \A d \in Deliveries : Agrees(row[d], mails[d])

Owned(w, l) ==
  /\ row[l.job].by = w /\ row[l.job].lease # "expired"
  /\ Held(l, row[l.job].status, published[l.job])
  /\ Fits(l)
  /\ l.job \in Deliveries =>
       Stage(l, row[l.job].status, mails[l.job], expired[ReportOf[l.job]])

WorkersOwn == \A w \in Workers : worker[w].pc # "idle" => Owned(w, worker[w])

ExpiryFits ==
  \A d \in Deliveries : /\ expired[ReportOf[d]] => row[d].status # "sending"
                        /\ row[d].status = "expired" => expired[ReportOf[d]]

RetriesFailed ==
  \A c \in Clients : client[c] # NoJob =>
    row[client[c]].status = "failed" /\ ~expired[ReportOf[client[c]]]

SweepsExpired ==
  \A k \in Cleaners :
    /\ cleaner[k].pc # "idle" => /\ cleaner[k].report \in Reports
                                 /\ expired[cleaner[k].report] /\ published[cleaner[k].report]
    /\ cleaner[k].pc = "sweeping" =>
         \A d \in cleaner[k].swept \cap Deliveries :
           /\ ReportOf[d] = cleaner[k].report
           /\ row[d].status \in {"queued", "running", "failed", "expired"}

MailInv == MailsAgree /\ WorkersOwn /\ ExpiryFits /\ RetriesFailed /\ SweepsExpired
IInv == TypeOK /\ MailInv

LEMMA InitMailInv == Init => MailInv
<1> SUFFICES ASSUME Init PROVE MailInv
  OBVIOUS
<1>1. \A j \in Jobs : row[j].status = "none"
  BY DEF Init, FreshRow
<1>2. \A d \in Deliveries : d \in Jobs
  BY DEF Jobs
<1>3. MailsAgree
  BY <1>1, <1>2 DEF Init, MailsAgree, Agrees, Open, Verdict
<1>4. \A w \in Workers : worker[w].pc = "idle"
  BY DEF Init, Idle
<1>5. ExpiryFits
  BY <1>1, <1>2, QueuesAssumption DEF Init, ExpiryFits
<1>6. RetriesFailed
  BY DEF Init, RetriesFailed
<1>7. SweepsExpired
  BY DEF Init, SweepsExpired, Resting
<1> QED
  BY <1>3, <1>4, <1>5, <1>6, <1>7 DEF MailInv, WorkersOwn

\* The queues are disjoint.
LEMMA Kinds ==
  /\ \A d \in Deliveries : /\ d \in Jobs /\ d \notin Reports /\ d \notin Renders /\ d \notin Scans
                           /\ d # NoJob /\ ReportOf[d] \in Reports
  /\ \A v \in Renders : v \in Jobs /\ v \notin Reports /\ v \notin Scans /\ ReportOf[v] \in Reports
  /\ \A r \in Reports : r \in Jobs /\ r \notin Scans
  /\ \A s \in Scans : s \in Jobs
BY QueuesAssumption DEF Jobs

\* The job of a worker is its own: two workers are never at the same one.
LEMMA OwnJobs ==
  ASSUME TypeOK, WorkersOwn, NEW v \in Workers, NEW w \in Workers, v # w,
         worker[v].pc # "idle", worker[w].pc # "idle"
  PROVE  worker[v].job # worker[w].job
BY DEF WorkersOwn, Owned

\* A step that leaves a worker and what it relies on alone ...
Undisturbed(v) ==
  /\ worker[v].pc # "idle" /\ worker'[v] = worker[v]
  /\ row'[worker[v].job].by = row[worker[v].job].by
  /\ row'[worker[v].job].status = row[worker[v].job].status
  /\ row'[worker[v].job].lease # "expired"
  /\ worker[v].job \in Reports /\ published[worker[v].job] => published'[worker[v].job]
  /\ worker[v].job \in Deliveries =>
       /\ mails'[worker[v].job] = mails[worker[v].job]
       /\ expired'[ReportOf[worker[v].job]] = expired[ReportOf[worker[v].job]]

\* ... leaves it its job.
LEMMA OwnedStays ==
  ASSUME WorkersOwn, NEW v \in Workers, Undisturbed(v)
  PROVE  Owned(v, worker[v])'
BY DEF WorkersOwn, Undisturbed, Owned, Held

\* What most steps do to a delivery: nothing that matters, or they take one
\* that no mail has been accepted for further, or leave one in doubt.
Quiet(d) ==
  \/ row'[d] = row[d]
  \/ row'[d].status = row[d].status /\ row[d].status \notin Verdict
  \/ /\ row[d].status \in {"none", "queued", "running", "expired"}
     /\ row'[d].status \in {"queued", "running", "failed"}
  \/ row[d].status = "sending" /\ row'[d].status = "unknown" /\ row'[d].lease = "null"

\* What a step that neither begins, accepts nor confirms a mail does at most.
Calm ==
  /\ UNCHANGED mails
  /\ \A d \in Deliveries :
       \/ row'[d] = row[d]
       \/ row'[d].status = row[d].status /\ row[d].status \notin Verdict
       \/ row[d].status \in Open /\ row'[d].status \in Open
       \/ row[d].status = "sending" /\ row'[d].status = "unknown"

\* The other steps: an attempt begins, is accepted, is concluded.
OthersStand(d) == \A e \in Deliveries : e # d => row'[e] = row[e]

Begins(d) ==
  /\ row[d].status = "running" /\ mails[d] = 0
  /\ row'[d].status = "sending" /\ OthersStand(d) /\ UNCHANGED mails

Accepts(d) ==
  /\ row[d].status = "sending" /\ mails[d] = 0 /\ ~expired[ReportOf[d]]
  /\ mails' = [mails EXCEPT ![d] = 1] /\ UNCHANGED row

Concludes(d) ==
  /\ row[d].status = "sending"
  /\ \/ row'[d].status \in {"queued", "failed"} /\ mails[d] = 0
     \/ row'[d].status = "sent" /\ mails[d] = 1
     \/ row'[d].status = "unknown"
  /\ OthersStand(d) /\ UNCHANGED mails

\* A step that is quiet about every delivery and leaves every worker its job,
\* or gives it one, keeps the invariant.
LEMMA QuietStep ==
  ASSUME TypeOK, MailInv,
         UNCHANGED <<published, expired, mails, client, cleaner>>,
         \A d \in Deliveries : Quiet(d),
         \A v \in Workers :
           worker'[v].pc # "idle" => Undisturbed(v) \/ Owned(v, worker[v])'
  PROVE  MailInv' /\ Calm
<1> USE DEF MailInv
<1>1. MailsAgree'
  BY DEF MailsAgree, Agrees, Open, Verdict, Quiet
<1>2. WorkersOwn'
  BY OwnedStays DEF WorkersOwn
<1>3. ExpiryFits'
  BY DEF ExpiryFits, Quiet
<1>4. RetriesFailed'
  BY DEF RetriesFailed, Quiet, TypeOK
<1>5. SweepsExpired'
  BY DEF SweepsExpired, Quiet
<1>6. Calm
  BY DEF Calm, Quiet, Open
<1> QED
  BY <1>1, <1>2, <1>3, <1>4, <1>5, <1>6

\* Rows that come into being disturb nobody.
LEMMA InsertKeeps ==
  ASSUME TypeOK, MailInv, TypeOK', NEW new \in SUBSET Jobs,
         \A j \in new : ~Exists(j), Insert(new),
         UNCHANGED <<published, expired, mails, client, cleaner>>,
         \A w \in Workers : worker'[w] = worker[w] \/ worker'[w].pc = "idle"
  PROVE  MailInv' /\ Calm
<1>1. \A d \in Deliveries : Quiet(d)
  BY Kinds DEF Insert, Quiet, Exists, FirstStatus, WithStatus, FreshRow, TypeOK
<1>2. ASSUME NEW v \in Workers, worker'[v].pc # "idle" PROVE Undisturbed(v)
  <2>1. worker'[v] = worker[v] /\ worker[v].pc # "idle"
    BY <1>2
  <2>2. worker[v].job \in Jobs /\ Owned(v, worker[v])
    BY <2>1, BusyWorker DEF MailInv, WorkersOwn
  <2>3. worker[v].job \notin new
    BY <2>2 DEF Owned, Held, Exists
  <2>4. row'[worker[v].job] = row[worker[v].job]
    BY <2>2, <2>3 DEF Insert
  <2> QED
    BY <2>1, <2>2, <2>4 DEF Undisturbed, Owned
<1> QED
  BY <1>1, <1>2, QuietStep

\* The recovery of a poll takes nobody's job: a worker's lease has not expired.
LEMMA RecoverySpares ==
  ASSUME TypeOK, MailInv, NEW queue
  PROVE  /\ \A v \in Workers : worker[v].pc # "idle" =>
              Recovery(queue)[worker[v].job] = row[worker[v].job]
         /\ \A j \in Jobs : row[j].status = "queued" => Recovery(queue)[j] = row[j]
         /\ \A d \in Deliveries :
              LET r == Recovery(queue)[d] IN
                \/ r = row[d]
                \/ row[d].status = "running" /\ r.status \in {"queued", "failed"}
                \/ row[d].status = "sending" /\ r.status = "unknown" /\ r.lease = "null"
<1>1. ASSUME NEW v \in Workers, worker[v].pc # "idle"
      PROVE  Recovery(queue)[worker[v].job] = row[worker[v].job]
  BY <1>1, BusyWorker DEF MailInv, WorkersOwn, Owned, Recovery, Due
<1>2. \A j \in Jobs : row[j].status = "queued" => Recovery(queue)[j] = row[j]
  BY DEF Recovery, Due, Active
<1>3. \A j \in Jobs : Recovered(j).status = AfterFailure(j, row[j]) /\ Recovered(j).lease = "null"
  BY DEF Recovered, Settled, TypeOK, Row
<1>4. ASSUME NEW d \in Deliveries
      PROVE  LET r == Recovery(queue)[d] IN
                \/ r = row[d]
                \/ row[d].status = "running" /\ r.status \in {"queued", "failed"}
                \/ row[d].status = "sending" /\ r.status = "unknown" /\ r.lease = "null"
  <2>1. d \in Jobs
    BY Kinds
  <2>2. CASE d \in queue /\ Due(d)
    <3>1. /\ Recovery(queue)[d].status = AfterFailure(d, row[d]) /\ row[d].status \in Active
          /\ Recovery(queue)[d].lease = "null"
      BY <2>1, <2>2, <1>3 DEF Recovery, Due
    <3> QED
      BY <3>1 DEF AfterFailure, Retried, Active
  <2>3. CASE ~(d \in queue /\ Due(d))
    BY <2>1, <2>3 DEF Recovery
  <2> QED
    BY <2>2, <2>3
<1> QED
  BY <1>1, <1>2, <1>4

LEMMA ClaimKeeps ==
  ASSUME TypeOK, MailInv, TypeOK', NEW w \in Workers, NEW queue \in Queues, Claim(w, queue)
  PROVE  MailInv' /\ Calm
<1>1. PICK j \in queue :
        /\ worker[w].pc = "idle" /\ row[j].status = "queued"
        /\ row' = [Recovery(queue) EXCEPT ![j] = Claimed(row[j], w)]
        /\ worker' = [worker EXCEPT ![w] = Holding(j, row[j].attempts + 1)]
        /\ UNCHANGED <<published, expired, mails, client, cleaner, late, crashes>>
  BY DEF Claim
<1>2. j \in Jobs
  BY DEF Queues, Jobs
<1>3. /\ Claimed(row[j], w).status = "running" /\ Claimed(row[j], w).by = w
      /\ Claimed(row[j], w).lease = "live"
  BY DEF Claimed
<1>4. \A i \in Jobs : row'[i] = IF i = j THEN Claimed(row[j], w) ELSE Recovery(queue)[i]
  BY <1>1, <1>2 DEF Recovery
<1>5. \A d \in Deliveries : Quiet(d)
  BY <1>1, <1>3, <1>4, Kinds, RecoverySpares DEF Quiet
<1>6. ASSUME NEW v \in Workers, v # w, worker'[v].pc # "idle" PROVE Undisturbed(v)
  <2>1. worker'[v] = worker[v] /\ worker[v].pc # "idle"
    BY <1>1, <1>6 DEF TypeOK
  <2>2. worker[v].job \in Jobs /\ Owned(v, worker[v])
    BY <2>1, BusyWorker DEF MailInv, WorkersOwn
  <2>3. worker[v].job # j
    BY <1>1, <2>2 DEF Owned, Held
  <2>4. row'[worker[v].job] = row[worker[v].job]
    BY <1>4, <2>1, <2>2, <2>3, RecoverySpares
  <2> QED
    BY <1>1, <2>1, <2>2, <2>4 DEF Undisturbed, Owned
<1>7. Owned(w, worker[w])'
  <2>1. row[j].attempts + 1 \in Nat
    BY <1>2, RowUpdates DEF TypeOK
  <2>2. worker'[w].pc = "working" /\ worker'[w].job = j
    BY <1>1, <1>2, <2>1, LocalValues DEF TypeOK
  <2>3. row'[j].status = "running" /\ row'[j].by = w /\ row'[j].lease = "live"
    BY <1>2, <1>3, <1>4
  <2> QED
    BY <2>2, <2>3 DEF Owned, Held, Fits, Stage
<1> QED
  BY <1>1, <1>5, <1>6, <1>7, QuietStep

LEMMA RecoverKeeps ==
  ASSUME TypeOK, MailInv, TypeOK', NEW w \in Workers, NEW queue \in Queues, Recover(w, queue)
  PROVE  MailInv' /\ Calm
<1>1. row' = Recovery(queue) /\ UNCHANGED <<published, expired, mails, worker, client, cleaner>>
  BY DEF Recover
<1>2. \A d \in Deliveries : Quiet(d)
  BY <1>1, RecoverySpares DEF Quiet
<1>3. ASSUME NEW v \in Workers, worker'[v].pc # "idle" PROVE Undisturbed(v)
  <2>1. row'[worker[v].job] = row[worker[v].job] /\ Owned(v, worker[v])
    BY <1>1, <1>3, RecoverySpares DEF MailInv, WorkersOwn
  <2> QED
    BY <1>1, <1>3, <2>1 DEF Undisturbed, Owned
<1> QED
  BY <1>1, <1>2, <1>3, QuietStep

LEMMA BeatKeeps ==
  ASSUME TypeOK, MailInv, NEW w \in Workers, Beat(w)
  PROVE  MailInv' /\ Calm
<1>1. PICK j \in Jobs : row[j].status \in Active /\ row' = [row EXCEPT ![j] = WithLease(row[j], "live")]
  BY DEF Beat
<1>2. /\ WithLease(row[j], "live").status = row[j].status
      /\ WithLease(row[j], "live").by = row[j].by
      /\ WithLease(row[j], "live").lease = "live"
  BY DEF WithLease, TypeOK, Row
<1>3. \A d \in Deliveries : Quiet(d)
  BY <1>1, <1>2, Kinds DEF Quiet, TypeOK, Active, Verdict
<1>4. \A v \in Workers : worker'[v].pc # "idle" => Undisturbed(v)
  BY <1>1, <1>2, BusyWorker DEF Beat, Undisturbed, TypeOK, MailInv, WorkersOwn, Owned
<1> QED
  BY <1>3, <1>4, QuietStep DEF Beat

LEMMA LeaseKeeps ==
  ASSUME KeptLeases, TypeOK, MailInv, NEW j \in Jobs, LeaseExpires(j)
  PROVE  MailInv' /\ Calm
<1>1. /\ row[j].lease = "live" /\ ~\E w \in Workers : Works(w, j)
      /\ row' = [row EXCEPT ![j] = WithLease(row[j], "expired")]
  BY DEF LeaseExpires, KeptLeases
<1>2. /\ WithLease(row[j], "expired").status = row[j].status
      /\ WithLease(row[j], "expired").by = row[j].by
  BY DEF WithLease, TypeOK, Row
<1>3. \A d \in Deliveries : Quiet(d)
  <2>1. j \in Deliveries => row[j].status \notin Verdict
    BY <1>1 DEF MailInv, MailsAgree, Agrees
  <2>2. /\ row'[j].status = row[j].status
        /\ \A i \in Jobs : i # j => row'[i] = row[i]
    BY <1>1, <1>2 DEF TypeOK
  <2> QED
    BY <2>1, <2>2, Kinds DEF Quiet
<1>4. ASSUME NEW v \in Workers, worker'[v].pc # "idle" PROVE Undisturbed(v)
  <2>1. worker[v].pc # "idle" /\ worker'[v] = worker[v]
    BY <1>4 DEF LeaseExpires
  <2>2. worker[v].job \in Jobs /\ Owned(v, worker[v])
    BY <2>1, BusyWorker DEF MailInv, WorkersOwn
  <2>3. worker[v].job # j
    BY <1>1, <2>2 DEF Works, Owned
  <2>4. row'[worker[v].job] = row[worker[v].job]
    BY <1>1, <2>2, <2>3 DEF TypeOK
  <2> QED
    BY <2>1, <2>2, <2>4 DEF Undisturbed, Owned, LeaseExpires
<1> QED
  BY <1>3, <1>4, QuietStep DEF LeaseExpires

\* A step of one worker that writes to its memory alone.
LEMMA LocalStep ==
  ASSUME TypeOK, MailInv, NEW w \in Workers,
         UNCHANGED <<row, published, expired, mails, client, cleaner>>,
         \A v \in Workers : v # w => worker'[v] = worker[v],
         worker'[w].pc # "idle" => Owned(w, worker[w])'
  PROVE  MailInv' /\ Calm
<1>1. \A d \in Deliveries : Quiet(d)
  BY DEF Quiet
<1>2. \A v \in Workers : v # w /\ worker'[v].pc # "idle" => Undisturbed(v)
  BY DEF Undisturbed, MailInv, WorkersOwn, Owned
<1> QED
  BY <1>1, <1>2, QuietStep

LEMMA RestKeeps ==
  ASSUME TypeOK, MailInv, NEW w \in Workers, Rest(w),
         UNCHANGED <<row, published, expired, mails, client, cleaner>>
  PROVE  MailInv' /\ Calm
<1>1. worker'[w].pc = "idle" /\ \A v \in Workers : v # w => worker'[v] = worker[v]
  BY LocalValues DEF Rest, TypeOK
<1> QED
  BY <1>1, LocalStep

\* What the two ways to go on do to the worker that goes on.
LEMMA GoingOn ==
  ASSUME TypeOK, NEW w \in Workers, worker[w].pc # "idle"
  PROVE  /\ \A pc \in Doing : To(w, pc) =>
              /\ worker'[w].pc = pc /\ worker'[w].job = worker[w].job
              /\ worker'[w].out = worker[w].out /\ worker'[w].seen = worker[w].seen
              /\ \A v \in Workers : v # w => worker'[v] = worker[v]
         /\ \A pc \in Doing : \A s, a : End(w, pc, s, a) =>
              /\ worker'[w].pc = pc /\ worker'[w].job = worker[w].job /\ worker'[w].out = s
              /\ \A v \in Workers : v # w => worker'[v] = worker[v]
<1>1. worker[w] \in Local
  BY BusyWorker
<1>2. ASSUME NEW pc \in Doing, To(w, pc)
      PROVE  /\ worker'[w].pc = pc /\ worker'[w].job = worker[w].job
             /\ worker'[w].out = worker[w].out /\ worker'[w].seen = worker[w].seen
             /\ \A v \in Workers : v # w => worker'[v] = worker[v]
  <2>1. worker' = [worker EXCEPT ![w] = Goto(worker[w], pc)]
    BY <1>2 DEF To
  <2>2. worker'[w] = Goto(worker[w], pc) /\ \A v \in Workers : v # w => worker'[v] = worker[v]
    BY <2>1 DEF TypeOK
  <2> QED
    BY <1>1, <2>2, LocalFields
<1>3. ASSUME NEW pc \in Doing, NEW s, NEW a, End(w, pc, s, a)
      PROVE  /\ worker'[w].pc = pc /\ worker'[w].job = worker[w].job /\ worker'[w].out = s
             /\ \A v \in Workers : v # w => worker'[v] = worker[v]
  <2>1. worker' = [worker EXCEPT ![w] = Ending(worker[w], pc, s, a)]
    BY <1>3 DEF End
  <2>2. worker'[w] = Ending(worker[w], pc, s, a)
        /\ \A v \in Workers : v # w => worker'[v] = worker[v]
    BY <2>1 DEF TypeOK
  <2> QED
    BY <1>1, <2>2, LocalFields
<1> QED
  BY <1>2, <1>3

\* A worker whose job is no delivery keeps it while the row stands; what it
\* ends with is only bound for a report.
LEMMA OtherWork ==
  ASSUME TypeOK, MailInv, NEW w \in Workers, worker[w].pc # "idle",
         worker[w].job \notin Deliveries, worker'[w].job = worker[w].job,
         worker'[w].pc \notin {"talking", "data", "accepted", "answered"},
         worker'[w].pc = "ending" /\ worker[w].job \in Reports => worker'[w].out = "completed",
         UNCHANGED <<row, published, expired, mails, client, cleaner>>,
         \A v \in Workers : v # w => worker'[v] = worker[v]
  PROVE  MailInv' /\ Calm
<1>1. Owned(w, worker[w])
  BY DEF MailInv, WorkersOwn
<1>2. Owned(w, worker[w])'
  BY <1>1 DEF Owned, Held, Fits
<1> QED
  BY <1>2, LocalStep

LEMMA ScanKeeps ==
  ASSUME TypeOK, MailInv, NEW w \in Workers, Scan(w)
  PROVE  MailInv' /\ Calm
<1>1. worker[w].pc = "working" /\ worker[w].job \notin Deliveries /\ worker[w].job \notin Reports
  BY Kinds DEF Scan, At
<1>2. "ending" \in Doing /\ "raised" \in Doing
  BY DEF Doing
<1> QED
  BY <1>1, <1>2, GoingOn, OtherWork DEF Scan

LEMMA PublishReportKeeps ==
  ASSUME TypeOK, MailInv, NEW w \in Workers, PublishReport(w)
  PROVE  MailInv' /\ Calm
<1>1. worker[w].pc = "working" /\ worker[w].job \notin Deliveries
  BY Kinds DEF PublishReport, At
<1>2. "ending" \in Doing /\ "raised" \in Doing
  BY DEF Doing
<1> QED
  BY <1>1, <1>2, GoingOn, OtherWork DEF PublishReport

LEMMA RenderKeeps ==
  ASSUME TypeOK, MailInv, NEW w \in Workers, Render(w)
  PROVE  MailInv' /\ Calm
<1>1. worker[w].pc = "working" /\ worker[w].job \notin Deliveries /\ worker[w].job \notin Reports
  BY Kinds DEF Render, At
<1>2. "ending" \in Doing /\ "raised" \in Doing
  BY DEF Doing
<1> QED
  BY <1>1, <1>2, GoingOn, OtherWork DEF Render

LEMMA PrepareKeeps ==
  ASSUME TypeOK, MailInv, NEW w \in Workers, Prepare(w)
  PROVE  MailInv' /\ Calm
<1> DEFINE j == worker[w].job
<1>1. worker[w].pc = "working" /\ j \in Deliveries /\ Owned(w, worker[w])
  BY DEF Prepare, At, MailInv, WorkersOwn
<1>2. "talking" \in Doing /\ "raised" \in Doing
  BY DEF Doing
<1>3. /\ worker'[w].job = j
      /\ \/ worker'[w].pc = "raised"
         \/ worker'[w].pc = "talking" /\ ~expired[ReportOf[j]]
      /\ \A v \in Workers : v # w => worker'[v] = worker[v]
  BY <1>1, <1>2, GoingOn DEF Prepare
<1>4. ExpiryFits /\ UNCHANGED <<row, published, expired, mails, client, cleaner>>
  BY DEF MailInv, Prepare
<1>5. Owned(w, worker[w])'
  <2>1. row[j].status = "expired" => expired[ReportOf[j]]
    BY <1>1, <1>4 DEF ExpiryFits
  <2>2. j \notin Reports /\ j \notin Renders
    BY <1>1, Kinds
  <2> HIDE DEF j
  <2>3. worker[w].job = j
    BY DEF j
  <2> QED
    BY <1>1, <1>3, <1>4, <2>1, <2>2, <2>3 DEF Owned, Held, Fits, Stage
<1> QED
  BY <1>3, <1>4, <1>5, LocalStep

LEMMA RefusedEarlyKeeps ==
  ASSUME TypeOK, MailInv, NEW w \in Workers, RefusedEarly(w)
  PROVE  MailInv' /\ Calm
<1>1. /\ worker[w].pc = "talking" /\ worker[w].job \in Deliveries /\ Owned(w, worker[w])
      /\ worker[w].attempts \in Nat
  BY BusyWorker DEF RefusedEarly, At, MailInv, WorkersOwn
<1>2. PICK answer \in {"temporary", "permanent", "lost", "recipient_refused"} :
        End(w, "ending", Outcome(answer, FALSE, worker[w].attempts), answer)
  BY DEF RefusedEarly
<1>3. "ending" \in Doing
  BY DEF Doing
<1>4. /\ worker'[w].pc = "ending" /\ worker'[w].job = worker[w].job
      /\ worker'[w].out = Outcome(answer, FALSE, worker[w].attempts)
      /\ \A v \in Workers : v # w => worker'[v] = worker[v]
  BY <1>1, <1>2, <1>3, GoingOn
<1>5. worker'[w].out \in {"queued", "failed"}
  BY <1>4 DEF Outcome, Retried
<1>6. UNCHANGED <<row, published, expired, mails, client, cleaner>>
  BY DEF RefusedEarly
<1>7. Owned(w, worker[w])'
  BY <1>1, <1>4, <1>5, <1>6, Kinds DEF Owned, Held, Fits, Stage
<1> QED
  BY <1>4, <1>6, <1>7, LocalStep

LEMMA AnsweredKeeps ==
  ASSUME TypeOK, MailInv, NEW w \in Workers, Answered(w)
  PROVE  MailInv' /\ Calm
<1>1. /\ worker[w].pc \in {"data", "accepted"} /\ Owned(w, worker[w])
      /\ worker[w].job \in Deliveries
      /\ worker[w].attempts \in Nat
  BY BusyWorker DEF Answered, MailInv, WorkersOwn, Owned, Fits
<1>2. PICK answer \in Answers(w) :
        End(w, "answered", Outcome(answer, TRUE, worker[w].attempts), answer)
  BY DEF Answered
<1>3. "answered" \in Doing
  BY DEF Doing
<1>4. /\ worker'[w].pc = "answered" /\ worker'[w].job = worker[w].job
      /\ worker'[w].out = Outcome(answer, TRUE, worker[w].attempts)
      /\ \A v \in Workers : v # w => worker'[v] = worker[v]
  BY <1>1, <1>2, <1>3, GoingOn
<1>5. \/ worker[w].pc = "data" /\ worker'[w].out \in {"queued", "failed", "unknown"}
      \/ worker[w].pc = "accepted" /\ worker'[w].out \in {"sent", "unknown"}
  BY <1>1, <1>4 DEF Answers, Outcome, Retried
<1>6. UNCHANGED <<row, published, expired, mails, client, cleaner>>
  BY DEF Answered
<1>7. Owned(w, worker[w])'
  BY <1>1, <1>4, <1>5, <1>6, Kinds DEF Owned, Held, Fits, Stage
<1> QED
  BY <1>4, <1>6, <1>7, LocalStep

LEMMA ReconcileReadKeeps ==
  ASSUME TypeOK, MailInv, NEW w \in Workers, ReconcileRead(w)
  PROVE  MailInv' /\ Calm
<1>1. worker[w].pc = "published" /\ worker[w].job \notin Deliveries
  BY DEF ReconcileRead, MailInv, WorkersOwn, Owned, Stage
<1>2. worker[w] \in Local
  BY <1>1, BusyWorker
<1>3. worker' = [worker EXCEPT ![w] = Lacking(worker[w], Missing)]
  BY DEF ReconcileRead
<1>4. /\ worker'[w] = Lacking(worker[w], Missing)
      /\ \A v \in Workers : v # w => worker'[v] = worker[v]
  BY <1>3 DEF TypeOK
<1>5. worker'[w].pc = "reconciling" /\ worker'[w].job = worker[w].job
  BY <1>2, <1>4, LocalFields
<1> QED
  BY <1>1, <1>4, <1>5, OtherWork DEF ReconcileRead

LEMMA ReconcileWriteKeeps ==
  ASSUME TypeOK, MailInv, TypeOK', NEW w \in Workers, ReconcileWrite(w)
  PROVE  MailInv' /\ Calm
<1>1. worker[w].pc = "reconciling" /\ worker[w].job \notin Deliveries
  BY DEF ReconcileWrite, MailInv, WorkersOwn, Owned, Stage
<1>2. CASE \E j \in worker[w].missing : Exists(j)
  <2>1. To(w, "raised") /\ UNCHANGED <<row, published, expired, mails, client, cleaner>>
    BY <1>2 DEF ReconcileWrite
  <2>2. "raised" \in Doing
    BY DEF Doing
  <2> QED
    BY <1>1, <2>1, <2>2, GoingOn, OtherWork
<1>3. CASE ~\E j \in worker[w].missing : Exists(j)
  <2>1. /\ Rest(w) /\ Insert(worker[w].missing)
        /\ UNCHANGED <<published, expired, mails, client, cleaner>>
    BY <1>3 DEF ReconcileWrite
  <2>2. worker[w].missing \subseteq Jobs
    BY <1>1, BusyWorker
  <2>3. \A v \in Workers : worker'[v] = worker[v] \/ worker'[v].pc = "idle"
    BY <2>1, LocalValues DEF Rest, TypeOK
  <2> QED
    BY <1>3, <2>1, <2>2, <2>3, InsertKeeps
<1> QED
  BY <1>2, <1>3

LEMMA HandlerReadKeeps ==
  ASSUME TypeOK, MailInv, NEW w \in Workers, HandlerRead(w)
  PROVE  MailInv' /\ Calm
<1>1. worker[w].pc = "raised" /\ Owned(w, worker[w]) /\ worker[w] \in Local
  BY BusyWorker DEF HandlerRead, MailInv, WorkersOwn
<1>2. worker' = [worker EXCEPT ![w] = Having(worker[w], row[worker[w].job])]
  BY <1>1 DEF HandlerRead, Owned
<1>3. /\ worker'[w] = Having(worker[w], row[worker[w].job])
      /\ \A v \in Workers : v # w => worker'[v] = worker[v]
  BY <1>2 DEF TypeOK
<1>4. /\ worker'[w].pc = "handling" /\ worker'[w].job = worker[w].job
      /\ worker'[w].seen = row[worker[w].job]
  BY <1>1, <1>3, LocalFields
<1>5. UNCHANGED <<row, published, expired, mails, client, cleaner>>
  BY DEF HandlerRead
<1>6. Owned(w, worker[w])'
  BY <1>1, <1>4, <1>5 DEF Owned, Held, Fits, Stage
<1> QED
  BY <1>3, <1>5, <1>6, LocalStep

\* Settling its own row and resting disturbs no other worker.
LEMMA OthersUndisturbed ==
  ASSUME TypeOK, MailInv, NEW w \in Workers, worker[w].pc # "idle",
         \A j \in Jobs : j # worker[w].job => row'[j] = row[j],
         UNCHANGED <<expired, mails>>,
         \A r \in Reports : published[r] => published'[r],
         NEW v \in Workers, v # w, worker'[v] = worker[v], worker[v].pc # "idle"
  PROVE  Undisturbed(v)
<1>1. worker[v].job \in Jobs /\ Owned(v, worker[v]) /\ worker[v].job # worker[w].job
  BY BusyWorker, OwnJobs DEF MailInv, WorkersOwn
<1>2. row'[worker[v].job] = row[worker[v].job]
  BY <1>1
<1> QED
  BY <1>1, <1>2 DEF Undisturbed, Owned

LEMMA HandlerWriteKeeps ==
  ASSUME TypeOK, MailInv, NEW w \in Workers, HandlerWrite(w)
  PROVE  MailInv' /\ Calm
<1> DEFINE j == worker[w].job
           s == AfterFailure(j, worker[w].seen)
<1>1. worker[w].pc = "handling" /\ j \in Jobs /\ Owned(w, worker[w]) /\ worker[w].seen \in Row
  BY BusyWorker DEF HandlerWrite, MailInv, WorkersOwn
<1>2. row' = [row EXCEPT ![j] = Settled(row[j], s)] /\ Rest(w)
      /\ UNCHANGED <<published, expired, mails, client, cleaner>>
  BY DEF HandlerWrite
<1>3. \A i \in Jobs : i # j => row'[i] = row[i]
  BY <1>2 DEF TypeOK
<1>4. row'[j].status = s /\ row'[j].lease = "null"
  BY <1>1, <1>2 DEF TypeOK, Row, Settled
<1>5. j \in Deliveries => Quiet(j)
  BY <1>1, <1>4 DEF Quiet, AfterFailure, Retried, Owned, Stage
<1>6. \A d \in Deliveries : Quiet(d)
  BY <1>3, <1>5, Kinds DEF Quiet
<1>7. worker'[w].pc = "idle" /\ \A v \in Workers : v # w => worker'[v] = worker[v]
  BY <1>2, LocalValues DEF Rest, TypeOK
<1>8. \A v \in Workers : worker'[v].pc # "idle" => Undisturbed(v)
  BY <1>1, <1>2, <1>3, <1>7, OthersUndisturbed
<1> QED
  BY <1>2, <1>6, <1>8, QuietStep

\* What a worker that talks to the server knows of its delivery.
LEMMA Talker ==
  ASSUME TypeOK, MailInv, NEW w \in Workers, worker[w].job \in Deliveries,
         worker[w].pc \in {"talking", "data", "accepted", "ending", "answered"}
  PROVE  LET d == worker[w].job IN
           /\ d \in Jobs /\ row[d].status \in Active /\ row[d] \in Row /\ row[d].by = w
           /\ ~expired[ReportOf[d]]
           /\ \A c \in Clients : client[c] # d
           /\ \A k \in Cleaners : cleaner[k].pc = "sweeping" => d \notin cleaner[k].swept
<1> DEFINE d == worker[w].job
<1>1. d \in Jobs /\ Owned(w, worker[w])
  BY BusyWorker DEF MailInv, WorkersOwn
<1>2. row[d].status \in Active /\ ~expired[ReportOf[d]] /\ row[d].by = w
  BY <1>1 DEF Owned, Stage, Active
<1>3. \A c \in Clients : client[c] # d
  BY <1>2, Kinds DEF MailInv, RetriesFailed, Active
<1>4. \A k \in Cleaners : cleaner[k].pc = "sweeping" => d \notin cleaner[k].swept
  BY <1>2 DEF MailInv, SweepsExpired
<1> QED
  BY <1>1, <1>2, <1>3, <1>4 DEF TypeOK

LEMMA MarkKeeps ==
  ASSUME TypeOK, MailInv, NEW w \in Workers, Mark(w)
  PROVE  MailInv' /\ (Calm \/ Begins(worker[w].job))
<1> DEFINE j == worker[w].job
<1>1. worker[w].pc = "talking" /\ j \in Deliveries /\ Owned(w, worker[w])
  BY DEF Mark, At, MailInv, WorkersOwn
<1>2. /\ j \in Jobs /\ row[j].status \in Active /\ row[j] \in Row /\ ~expired[ReportOf[j]]
      /\ \A c \in Clients : client[c] # j
      /\ \A k \in Cleaners : cleaner[k].pc = "sweeping" => j \notin cleaner[k].swept
  BY <1>1, Talker
<1>3. "data" \in Doing /\ "raised" \in Doing
  BY DEF Doing
<1>4. UNCHANGED <<published, expired, mails, client, cleaner>>
  BY DEF Mark
<1>5. CASE UNCHANGED row /\ To(w, "raised")
  <2>1. /\ worker'[w].pc = "raised" /\ worker'[w].job = j
        /\ \A v \in Workers : v # w => worker'[v] = worker[v]
    BY <1>1, <1>3, <1>5, GoingOn
  <2>2. Owned(w, worker[w])'
    BY <1>1, <1>4, <1>5, <2>1 DEF Owned, Held, Fits, Stage
  <2> QED
    BY <1>4, <1>5, <2>1, <2>2, LocalStep
<1>6. CASE /\ row' = [row EXCEPT ![j] = WithStatus(row[j], "sending")]
           /\ To(w, "data") \/ To(w, "raised")
  <2>1. /\ worker'[w].pc \in {"data", "raised"} /\ worker'[w].job = j
        /\ \A v \in Workers : v # w => worker'[v] = worker[v]
    BY <1>1, <1>3, <1>6, GoingOn
  <2>2. \A i \in Jobs : i # j => row'[i] = row[i]
    BY <1>6 DEF TypeOK
  <2>3. row'[j].status = "sending" /\ row'[j].by = row[j].by /\ row'[j].lease = row[j].lease
    BY <1>2, <1>6 DEF TypeOK, Row, WithStatus
  <2>4. mails[j] = 0
    BY <1>1 DEF Owned, Stage, MailInv, MailsAgree, Agrees, Open, Verdict
  <2>5. MailsAgree'
    BY <1>1, <1>4, <2>2, <2>3, <2>4, Kinds DEF MailInv, MailsAgree, Agrees, Open, Verdict
  <2>6. Owned(w, worker[w])'
    BY <1>1, <1>2, <1>4, <2>1, <2>3, <2>4, Kinds DEF Owned, Held, Fits, Stage
  <2>7. WorkersOwn'
    BY <1>1, <1>4, <2>1, <2>2, <2>6, OthersUndisturbed, OwnedStays DEF MailInv, WorkersOwn
  <2>8. ExpiryFits'
    BY <1>2, <1>4, <2>2, <2>3, Kinds DEF MailInv, ExpiryFits
  <2>9. RetriesFailed'
    BY <1>2, <1>4, <2>2, Kinds DEF MailInv, RetriesFailed, TypeOK
  <2>10. SweepsExpired'
    BY <1>2, <1>4, <2>2, Kinds DEF MailInv, SweepsExpired
  <2>11. Begins(j)
    BY <1>1, <1>4, <2>2, <2>3, <2>4, Kinds DEF Begins, OthersStand, Owned, Stage
  <2> QED
    BY <2>5, <2>7, <2>8, <2>9, <2>10, <2>11 DEF MailInv
<1> QED
  BY <1>5, <1>6 DEF Mark

LEMMA ServerAcceptsKeeps ==
  ASSUME TypeOK, MailInv, NEW w \in Workers, ServerAccepts(w)
  PROVE  MailInv' /\ worker[w].job \in Deliveries /\ Accepts(worker[w].job)
<1> DEFINE j == worker[w].job
<1>1. worker[w].pc = "data" /\ j \in Deliveries /\ Owned(w, worker[w])
  BY DEF ServerAccepts, At, MailInv, WorkersOwn
<1>2. row[j].status = "sending" /\ mails[j] = 0 /\ ~expired[ReportOf[j]]
  BY <1>1 DEF Owned, Stage
<1>3. "accepted" \in Doing
  BY DEF Doing
<1>4. /\ worker'[w].pc = "accepted" /\ worker'[w].job = j
      /\ \A v \in Workers : v # w => worker'[v] = worker[v]
  BY <1>1, <1>3, GoingOn DEF ServerAccepts
<1>5. UNCHANGED <<row, published, expired, client, cleaner>>
  BY DEF ServerAccepts
<1>6. /\ mails'[j] = 1
      /\ \A d \in Deliveries : d # j => mails'[d] = mails[d]
  BY <1>1, <1>2 DEF ServerAccepts, TypeOK
<1>7. MailsAgree'
  BY <1>1, <1>2, <1>5, <1>6 DEF MailInv, MailsAgree, Agrees, Open, Verdict
<1>8. Owned(w, worker[w])'
  BY <1>1, <1>2, <1>4, <1>5, <1>6, Kinds DEF Owned, Held, Fits, Stage
<1>9. ASSUME NEW v \in Workers, v # w, worker[v].pc # "idle" PROVE Undisturbed(v)
  BY <1>1, <1>4, <1>5, <1>6, <1>9, OwnJobs DEF Undisturbed, MailInv, WorkersOwn, Owned
<1>10. WorkersOwn'
  BY <1>4, <1>8, <1>9, OwnedStays DEF MailInv, WorkersOwn
<1>11. MailInv'
  BY <1>5, <1>7, <1>10 DEF MailInv, ExpiryFits, RetriesFailed, SweepsExpired
<1>12. Accepts(j)
  BY <1>2, <1>5 DEF Accepts, ServerAccepts
<1> QED
  BY <1>1, <1>11, <1>12

\* enqueue_render writes to exports that nobody is at, and to nothing else.
LEMMA RenderedSpares ==
  ASSUME NEW rows, NEW r, NEW i \in Jobs
  PROVE  \/ Rendered(rows, r)[i] = rows[i]
         \/ i \in Renders /\ r \in Reports /\ rows[i].status \in {"none", "completed", "failed"}
BY DEF Rendered, Ended

LEMMA PublishKeeps ==
  ASSUME TypeOK, MailInv, NEW w \in Workers, Publish(w)
  PROVE  MailInv' /\ (Calm \/ (worker[w].job \in Deliveries /\ Concludes(worker[w].job)))
<1> DEFINE j == worker[w].job
           rows == [row EXCEPT ![j] = Settled(row[j], worker[w].out)]
<1>1. /\ worker[w].pc \in {"ending", "answered"} /\ j \in Jobs /\ row[j] \in Row
      /\ Owned(w, worker[w])
  BY BusyWorker DEF Publish, MailInv, WorkersOwn, TypeOK
<1>2. /\ row' = Rendered(rows, j)
      /\ published' = [r \in Reports |-> published[r] \/ r = j]
      /\ IF j \in Reports THEN To(w, "published") ELSE Rest(w)
      /\ UNCHANGED <<expired, mails, client, cleaner>>
  BY <1>1 DEF Publish, Owned
<1>3. /\ rows[j].status = worker[w].out /\ rows[j].by = w /\ rows[j].lease = "null"
      /\ \A i \in Jobs : i # j => rows[i] = row[i]
  BY <1>1 DEF Settled, Row, TypeOK, Owned
<1> HIDE DEF rows
<1>4. /\ \A i \in Jobs : i # j /\ row[i].status \notin {"none", "completed", "failed"}
                           => row'[i] = row[i]
      /\ \A i \in Jobs : i # j /\ i \notin Renders => row'[i] = row[i]
  BY <1>2, <1>3, RenderedSpares
<1>5. row'[j] = rows[j]
  BY <1>1, <1>2, RenderedSpares, Kinds
<1>6. \A r \in Reports : published[r] => published'[r]
  BY <1>2
<1>7. \A v \in Workers : v # w => worker'[v] = worker[v]
  <2>1. "published" \in Doing
    BY DEF Doing
  <2> QED
    BY <1>1, <1>2, <2>1, GoingOn DEF Rest, TypeOK
<1>8. ASSUME NEW v \in Workers, v # w, worker[v].pc # "idle" PROVE Undisturbed(v)
  <2>1. worker[v].job \in Jobs /\ worker[v].job # j /\ Owned(v, worker[v])
    BY <1>1, <1>8, BusyWorker, OwnJobs DEF MailInv, WorkersOwn
  <2>2. row[worker[v].job].status \notin {"none", "failed"}
        /\ (worker[v].job \in Renders => row[worker[v].job].status # "completed")
    BY <2>1, Kinds DEF Owned, Held
  <2>3. row'[worker[v].job] = row[worker[v].job]
    BY <1>4, <2>1, <2>2
  <2> QED
    BY <1>2, <1>6, <1>7, <1>8, <2>1, <2>3 DEF Undisturbed, Owned
<1>9. worker'[w].pc # "idle" => Owned(w, worker[w])'
  <2>1. CASE j \in Reports
    <3>1. "published" \in Doing
      BY DEF Doing
    <3>2. worker'[w].pc = "published" /\ worker'[w].job = j
      BY <1>1, <1>2, <2>1, <3>1, GoingOn
    <3>3. worker[w].out = "completed" /\ j \notin Deliveries
      BY <1>1, <2>1, Kinds DEF Owned, Fits
    <3>4. published'[j]
      BY <1>2, <2>1
    <3> QED
      BY <1>3, <1>5, <2>1, <3>2, <3>3, <3>4 DEF Owned, Held, Fits
  <2>2. CASE j \notin Reports
    BY <1>2, <2>2, LocalValues DEF Rest, TypeOK
  <2> QED
    BY <2>1, <2>2
<1>10. WorkersOwn'
  BY <1>7, <1>8, <1>9, OwnedStays DEF MailInv, WorkersOwn
<1>11. \A d \in Deliveries : d # j => row'[d] = row[d]
  BY <1>4, Kinds
<1>12. j \in Deliveries => /\ ~expired[ReportOf[j]]
                           /\ \A c \in Clients : client[c] # j
                           /\ \A k \in Cleaners :
                                cleaner[k].pc = "sweeping" => j \notin cleaner[k].swept
  BY <1>1, Talker
<1>13. j \in Deliveries => /\ row'[j].status \in {"queued", "failed", "sent", "unknown"}
                           /\ Agrees(row'[j], mails[j])
  BY <1>1, <1>3, <1>5 DEF MailInv, MailsAgree, Owned, Stage, Agrees, Open, Verdict
<1>14. MailsAgree'
  BY <1>2, <1>11, <1>13 DEF MailInv, MailsAgree
<1>15. ExpiryFits'
  BY <1>2, <1>11, <1>13 DEF MailInv, ExpiryFits
<1>16. RetriesFailed'
  BY <1>2, <1>11, <1>12 DEF MailInv, RetriesFailed, TypeOK
<1>17. SweepsExpired'
  BY <1>2, <1>6, <1>11, <1>12 DEF MailInv, SweepsExpired
<1>18. UNCHANGED mails
  BY <1>2
<1>19. Calm \/ (j \in Deliveries /\ Concludes(j))
  <2>1. CASE j \in Deliveries /\ worker[w].pc = "answered"
    <3>1. /\ row[j].status = "sending"
          /\ \/ row'[j].status \in {"queued", "failed"} /\ mails[j] = 0
             \/ row'[j].status = "sent" /\ mails[j] = 1
             \/ row'[j].status = "unknown"
      BY <1>1, <1>3, <1>5, <2>1 DEF Owned, Stage
    <3> QED
      BY <1>11, <1>18, <2>1, <3>1 DEF Concludes, OthersStand
  <2>2. CASE j \in Deliveries /\ worker[w].pc = "ending"
    <3>1. row[j].status = "running" /\ worker[w].out \in {"queued", "failed"}
      BY <1>1, <2>2 DEF Owned, Stage
    <3>2. row[j].status \in Open /\ row'[j].status \in Open
      BY <1>3, <1>5, <3>1 DEF Open
    <3> QED
      BY <1>11, <1>18, <3>2 DEF Calm
  <2>3. CASE j \notin Deliveries
    BY <1>11, <1>18, <2>3 DEF Calm
  <2> QED
    BY <1>1, <2>1, <2>2, <2>3
<1> QED
  BY <1>10, <1>14, <1>15, <1>16, <1>17, <1>19 DEF MailInv

LEMMA RerenderKeeps ==
  ASSUME TypeOK, MailInv, NEW r \in Reports, Rerender(r)
  PROVE  MailInv' /\ Calm
<1>1. UNCHANGED <<published, expired, mails, worker, client, cleaner>>
  BY DEF Rerender
<1>2. \A i \in Jobs : \/ row'[i] = row[i]
                      \/ i \in Renders /\ row[i].status \in {"none", "completed", "failed"}
                      \/ i = r /\ ~published[r] /\ row[r].status # "running"
  BY RenderedSpares DEF Rerender, TypeOK
<1>3. \A d \in Deliveries : Quiet(d)
  BY <1>2, Kinds DEF Quiet
<1>4. ASSUME NEW v \in Workers, worker'[v].pc # "idle" PROVE Undisturbed(v)
  <2>1. worker[v].job \in Jobs /\ Owned(v, worker[v])
    BY <1>1, <1>4, BusyWorker DEF MailInv, WorkersOwn
  <2>2. row'[worker[v].job] = row[worker[v].job]
    BY <1>2, <2>1, Kinds DEF Owned, Held
  <2> QED
    BY <1>1, <1>4, <2>1, <2>2 DEF Undisturbed, Owned
<1> QED
  BY <1>1, <1>3, <1>4, QuietStep

LEMMA RetryReadKeeps ==
  ASSUME TypeOK, MailInv, NEW c \in Clients, NEW d \in Deliveries, RetryRead(c, d)
  PROVE  MailInv' /\ Calm
<1>1. /\ UNCHANGED <<row, published, expired, mails, worker, cleaner>>
      /\ \A b \in Clients : client'[b] = IF b = c THEN d ELSE client[b]
      /\ row[d].status = "failed" /\ ~expired[ReportOf[d]]
  BY DEF RetryRead, TypeOK
<1>2. MailsAgree' /\ ExpiryFits' /\ SweepsExpired'
  BY <1>1 DEF MailInv, MailsAgree, ExpiryFits, SweepsExpired
<1>3. WorkersOwn'
  BY <1>1 DEF MailInv, WorkersOwn, Owned
<1>4. RetriesFailed'
  BY <1>1 DEF MailInv, RetriesFailed
<1> QED
  BY <1>1, <1>2, <1>3, <1>4 DEF MailInv, Calm

\* A failed row is nobody's, and no other request is between its check and its
\* commit: the user retries one delivery at a time.
LEMMA RetryWriteKeeps ==
  ASSUME OneUser, TypeOK, MailInv, NEW c \in Clients, RetryWrite(c)
  PROVE  MailInv' /\ Calm
<1> DEFINE j == client[c]
<1>1. /\ j \in Deliveries /\ j \in Jobs /\ row[j] \in Row
      /\ row[j].status = "failed" /\ ~expired[ReportOf[j]]
  BY Kinds DEF RetryWrite, TypeOK, MailInv, RetriesFailed
<1>2. /\ UNCHANGED <<published, expired, mails, worker, cleaner>>
      /\ row' = [row EXCEPT ![j] = Requeued(row[j])]
      /\ client'[c] = NoJob
  BY DEF RetryWrite, TypeOK
<1>3. \A b \in Clients : client'[b] = NoJob
  BY <1>2 DEF OneUser
<1>4. row'[j].status = "queued" /\ \A i \in Jobs : i # j => row'[i] = row[i]
  BY <1>1, <1>2 DEF TypeOK, Row, Requeued
<1>5. MailsAgree'
  BY <1>1, <1>2, <1>4, Kinds DEF MailInv, MailsAgree, Agrees, Open, Verdict
<1>6. ASSUME NEW v \in Workers, worker[v].pc # "idle" PROVE Undisturbed(v)
  <2>1. worker[v].job \in Jobs /\ Owned(v, worker[v])
    BY <1>6, BusyWorker DEF MailInv, WorkersOwn
  <2>2. worker[v].job # j
    BY <1>1, <2>1, Kinds DEF Owned, Held
  <2> QED
    BY <1>2, <1>4, <1>6, <2>1, <2>2 DEF Undisturbed, Owned
<1>7. WorkersOwn'
  BY <1>2, <1>6, OwnedStays DEF MailInv, WorkersOwn
<1>8. ExpiryFits' /\ RetriesFailed' /\ SweepsExpired'
  <2>1. ExpiryFits'
    BY <1>1, <1>2, <1>4, Kinds DEF MailInv, ExpiryFits
  <2>2. RetriesFailed'
    BY <1>3 DEF RetriesFailed
  <2>3. SweepsExpired'
    BY <1>1, <1>2, <1>4, Kinds DEF MailInv, SweepsExpired
  <2> QED
    BY <2>1, <2>2, <2>3
<1>9. Calm
  BY <1>1, <1>2, <1>4, Kinds DEF Calm, Open
<1> QED
  BY <1>5, <1>7, <1>8, <1>9 DEF MailInv

\* A delivery of the tombstoned report is not on its way: whoever talks to the
\* server either holds the report's lock or has marked the row.
LEMMA TombstoneKeeps ==
  ASSUME TypeOK, MailInv, NEW k \in Cleaners, NEW r \in Reports, Tombstone(k, r)
  PROVE  MailInv' /\ Calm
<1>1. /\ UNCHANGED <<published, mails, worker, client>> /\ published[r]
      /\ row[r].status \notin {"running", "queued", "expired"}
      /\ ~Locked(r) /\ ~InUse(r)
      /\ row' = [row EXCEPT ![r] = WithStatus(row[r], "expiring")]
      /\ cleaner' = [cleaner EXCEPT ![k] = [Resting EXCEPT !.pc = "tombstone", !.report = r]]
  BY DEF Tombstone
<1>2. \A x \in Reports : expired'[x] = IF x = r THEN TRUE ELSE expired[x]
  BY DEF Tombstone, TypeOK
<1>3. /\ row'[r].status = "expiring" /\ row'[r].by = row[r].by /\ row'[r].lease = row[r].lease
      /\ \A i \in Jobs : i # r => row'[i] = row[i]
  BY <1>1, Kinds DEF TypeOK, Row, WithStatus
<1>4. \A d \in Deliveries : row'[d] = row[d]
  BY <1>3, Kinds
<1>5. \A d \in Deliveries : ReportOf[d] = r => row[d].status \notin Active
  BY <1>1, Kinds DEF InUse, Active
<1>6. ASSUME NEW v \in Workers, worker[v].pc # "idle" PROVE Owned(v, worker[v])'
  <2>1. worker[v].job \in Jobs /\ Owned(v, worker[v]) /\ worker'[v] = worker[v]
    BY <1>1, <1>6, BusyWorker DEF MailInv, WorkersOwn
  <2>2. CASE worker[v].job = r
    <3>1. Held(worker[v], row'[r].status, published'[r])
      BY <1>1, <1>3, <2>2 DEF Held
    <3>2. r \notin Deliveries
      BY Kinds
    <3> QED
      BY <1>3, <2>1, <2>2, <3>1, <3>2 DEF Owned
  <2>3. CASE worker[v].job \in Deliveries /\ ReportOf[worker[v].job] = r
    <3>1. worker[v].pc \notin {"talking", "ending"}
      BY <1>1, <2>3 DEF Locked
    <3>2. row[worker[v].job].status # "sending"
      BY <1>5, <2>3 DEF Active
    <3> QED
      BY <1>1, <1>4, <2>1, <2>3, <3>1, <3>2, Kinds DEF Owned, Held, Stage
  <2>4. CASE worker[v].job # r /\ (worker[v].job \in Deliveries => ReportOf[worker[v].job] # r)
    <3>1. row'[worker[v].job] = row[worker[v].job]
      BY <1>3, <2>1, <2>4
    <3>2. worker[v].job \in Deliveries =>
            expired'[ReportOf[worker[v].job]] = expired[ReportOf[worker[v].job]]
      BY <1>2, <2>4, Kinds
    <3>3. Undisturbed(v)
      BY <1>1, <1>6, <2>1, <3>1, <3>2 DEF Undisturbed, Owned
    <3> QED
      BY <3>3, OwnedStays DEF MailInv
  <2> QED
    BY <2>2, <2>3, <2>4
<1>7. WorkersOwn'
  BY <1>1, <1>6 DEF WorkersOwn
<1>8. MailsAgree'
  BY <1>1, <1>4 DEF MailInv, MailsAgree
<1>9. ExpiryFits'
  <2>1. ASSUME NEW d \in Deliveries
        PROVE  /\ expired'[ReportOf[d]] => row'[d].status # "sending"
               /\ row'[d].status = "expired" => expired'[ReportOf[d]]
    <3>1. ReportOf[d] \in Reports /\ row'[d] = row[d]
      BY <1>4, Kinds
    <3>2. /\ expired[ReportOf[d]] => row[d].status # "sending"
          /\ row[d].status = "expired" => expired[ReportOf[d]]
      BY DEF MailInv, ExpiryFits
    <3>3. CASE ReportOf[d] = r
      BY <1>2, <1>5, <3>1, <3>3 DEF Active
    <3>4. CASE ReportOf[d] # r
      BY <1>2, <3>1, <3>2, <3>4
    <3> QED
      BY <3>3, <3>4
  <2> QED
    BY <2>1 DEF ExpiryFits
<1>10. RetriesFailed'
  <2>1. ASSUME NEW c \in Clients, client[c] # NoJob
        PROVE  row'[client[c]].status = "failed" /\ ~expired'[ReportOf[client[c]]]
    <3>1. client[c] \in Deliveries /\ ReportOf[client[c]] # r
      BY <1>1, <2>1 DEF Locked, TypeOK
    <3> QED
      BY <1>2, <1>4, <2>1, <3>1, Kinds DEF MailInv, RetriesFailed
  <2> QED
    BY <1>1, <2>1 DEF RetriesFailed
<1>11. SweepsExpired'
  <2>1. \A x \in Reports : expired[x] => expired'[x]
    BY <1>2
  <2>2. cleaner'[k].report = r /\ cleaner'[k].pc = "tombstone"
    BY <1>1 DEF TypeOK, Resting
  <2>3. \A x \in Cleaners : x # k => cleaner'[x] = cleaner[x]
    BY <1>1 DEF TypeOK
  <2>4. expired'[r] /\ published'[r]
    BY <1>1, <1>2
  <2> QED
    BY <1>1, <1>4, <2>1, <2>2, <2>3, <2>4 DEF MailInv, SweepsExpired
<1> QED
  BY <1>1, <1>4, <1>7, <1>8, <1>9, <1>10, <1>11 DEF MailInv, Calm

LEMMA SweepReadKeeps ==
  ASSUME TypeOK, MailInv, NEW k \in Cleaners, SweepRead(k)
  PROVE  MailInv' /\ Calm
<1> DEFINE swept == {j \in Deliveries \cup Renders :
                       ReportOf[j] = cleaner[k].report /\ row[j].status = "queued"}
<1>1. /\ UNCHANGED <<row, published, expired, mails, worker, client>>
      /\ cleaner[k].pc = "tombstone"
      /\ cleaner' = [cleaner EXCEPT ![k].pc = "sweeping", ![k].swept = swept]
  BY DEF SweepRead
<1>2. /\ \A x \in Cleaners : x # k => cleaner'[x] = cleaner[x]
      /\ cleaner'[k].report = cleaner[k].report /\ cleaner'[k].swept = swept
  BY <1>1 DEF TypeOK, Cleanup
<1>3. \A d \in swept \cap Deliveries : ReportOf[d] = cleaner[k].report /\ row[d].status = "queued"
  OBVIOUS
<1> HIDE DEF swept
<1>4. SweepsExpired'
  <2>1. cleaner[k].report \in Reports /\ expired[cleaner[k].report] /\ published[cleaner[k].report]
    BY <1>1 DEF MailInv, SweepsExpired
  <2>2. ASSUME NEW d \in cleaner'[k].swept \cap Deliveries
        PROVE  ReportOf[d] = cleaner'[k].report /\ row'[d].status = "queued"
    BY <1>1, <1>2, <1>3, <2>2
  <2>3. cleaner'[k].report \in Reports /\ expired'[cleaner'[k].report] /\ published'[cleaner'[k].report]
    BY <1>1, <1>2, <2>1
  <2>4. \A d \in cleaner'[k].swept \cap Deliveries :
          /\ ReportOf[d] = cleaner'[k].report
          /\ row'[d].status \in {"queued", "running", "failed", "expired"}
    BY <2>2
  <2>5. ASSUME NEW x \in Cleaners, x # k
        PROVE  /\ cleaner'[x] = cleaner[x]
               /\ cleaner[x].pc # "idle" => /\ cleaner[x].report \in Reports
                                            /\ expired'[cleaner[x].report]
                                            /\ published'[cleaner[x].report]
               /\ cleaner[x].pc = "sweeping" =>
                    \A d \in cleaner[x].swept \cap Deliveries :
                      /\ ReportOf[d] = cleaner[x].report
                      /\ row'[d].status \in {"queued", "running", "failed", "expired"}
    BY <1>1, <1>2, <2>5 DEF MailInv, SweepsExpired
  <2> QED
    BY <2>3, <2>4, <2>5 DEF SweepsExpired
<1>5. WorkersOwn'
  BY <1>1 DEF MailInv, WorkersOwn, Owned
<1>6. MailsAgree' /\ ExpiryFits' /\ RetriesFailed'
  BY <1>1 DEF MailInv, MailsAgree, ExpiryFits, RetriesFailed
<1> QED
  BY <1>1, <1>4, <1>5, <1>6 DEF MailInv, Calm

\* The rows swept were queued and may have been claimed since: a worker at one
\* of them has not marked it yet, and will find the tombstone.
LEMMA SweepWriteKeeps ==
  ASSUME TypeOK, MailInv, NEW k \in Cleaners, SweepWrite(k)
  PROVE  MailInv' /\ Calm
<1> DEFINE report == cleaner[k].report
           swept == cleaner[k].swept
<1>1. /\ UNCHANGED <<published, expired, mails, worker, client>> /\ cleaner[k].pc = "sweeping"
      /\ row' = [j \in Jobs |-> IF j \in swept \cup {report}
                                  THEN WithStatus(row[j], "expired") ELSE row[j]]
      /\ cleaner' = [cleaner EXCEPT ![k] = Resting]
  BY DEF SweepWrite
<1>2. /\ report \in Reports /\ expired[report] /\ published[report]
      /\ swept \subseteq Deliveries \cup Renders
      /\ \A d \in swept \cap Deliveries :
           ReportOf[d] = report /\ row[d].status \in {"queued", "running", "failed", "expired"}
  BY <1>1 DEF MailInv, SweepsExpired, TypeOK, Cleanup
<1>3. ASSUME NEW j \in Jobs, j \in swept \cup {report}
      PROVE  row'[j].status = "expired" /\ row'[j].by = row[j].by /\ row'[j].lease = row[j].lease
  BY <1>1, <1>3 DEF TypeOK, Row, WithStatus
<1>4. \A j \in Jobs : j \notin swept \cup {report} => row'[j] = row[j]
  BY <1>1
<1>5. \A d \in Deliveries : \/ row'[d] = row[d]
                            \/ /\ ReportOf[d] = report /\ row'[d].status = "expired"
                               /\ row[d].status \in {"queued", "running", "failed", "expired"}
  BY <1>2, <1>3, <1>4, Kinds
<1>6. /\ \A x \in Cleaners : x # k => cleaner'[x] = cleaner[x]
      /\ cleaner'[k].pc = "idle"
  BY <1>1 DEF TypeOK, Resting
<1> HIDE DEF report, swept
<1>7. MailsAgree'
  BY <1>1, <1>5 DEF MailInv, MailsAgree, Agrees, Open, Verdict
<1>8. ASSUME NEW v \in Workers, worker[v].pc # "idle" PROVE Owned(v, worker[v])'
  <2>1. worker[v].job \in Jobs /\ Owned(v, worker[v]) /\ worker'[v] = worker[v]
    BY <1>1, <1>8, BusyWorker DEF MailInv, WorkersOwn
  <2>2. CASE worker[v].job \notin swept \cup {report}
    <3>1. Undisturbed(v)
      BY <1>1, <1>4, <1>8, <2>1, <2>2 DEF Undisturbed, Owned
    <3> QED
      BY <3>1, OwnedStays DEF MailInv
  <2>3. CASE worker[v].job = report
    <3>1. row'[report].status = "expired" /\ row'[report].by = v /\ row'[report].lease # "expired"
      BY <1>3, <2>1, <2>3 DEF Owned
    <3> QED
      BY <1>1, <1>2, <2>1, <2>3, <3>1, Kinds DEF Owned, Held
  <2>4. CASE worker[v].job \in swept \cap Renders
    <3>1. /\ row'[worker[v].job].status = "expired" /\ row'[worker[v].job].by = v
          /\ row'[worker[v].job].lease # "expired"
      BY <1>3, <2>1, <2>4 DEF Owned
    <3> QED
      BY <1>1, <2>1, <2>4, <3>1, Kinds DEF Owned, Held
  <2>5. CASE worker[v].job \in swept \cap Deliveries
    <3>1. /\ row'[worker[v].job].status = "expired" /\ row'[worker[v].job].by = v
          /\ row'[worker[v].job].lease # "expired"
      BY <1>3, <2>1, <2>5 DEF Owned
    <3>2. /\ row[worker[v].job].status # "sending" /\ expired[ReportOf[worker[v].job]]
      BY <1>2, <2>5
    <3>3. Stage(worker[v], row[worker[v].job].status, mails[worker[v].job], TRUE) /\ Fits(worker[v])
      BY <2>1, <2>5, <3>2 DEF Owned
    <3>4. Stage(worker[v], "expired", mails[worker[v].job], TRUE)
      BY <3>2, <3>3 DEF Stage
    <3> QED
      BY <1>1, <2>1, <2>5, <3>1, <3>2, <3>3, <3>4 DEF Owned, Held
  <2> QED
    BY <1>2, <2>2, <2>3, <2>4, <2>5
<1>9. WorkersOwn'
  BY <1>1, <1>8 DEF WorkersOwn
<1>10. ExpiryFits'
  BY <1>1, <1>2, <1>5 DEF MailInv, ExpiryFits
<1>11. RetriesFailed'
  BY <1>1, <1>2, <1>5 DEF MailInv, RetriesFailed, TypeOK
<1>12. SweepsExpired'
  BY <1>1, <1>5, <1>6 DEF MailInv, SweepsExpired
<1>13. Calm
  BY <1>1, <1>5 DEF Calm, Open
<1> QED
  BY <1>7, <1>9, <1>10, <1>11, <1>12, <1>13 DEF MailInv

LEMMA CleanerCrashKeeps ==
  ASSUME TypeOK, MailInv, NEW k \in Cleaners, CleanerCrash(k)
  PROVE  MailInv' /\ Calm
<1>1. /\ UNCHANGED <<row, published, expired, mails, worker, client>>
      /\ cleaner'[k].pc = "idle" /\ \A x \in Cleaners : x # k => cleaner'[x] = cleaner[x]
  BY DEF CleanerCrash, TypeOK, Resting
<1>2. SweepsExpired'
  BY <1>1 DEF MailInv, SweepsExpired
<1>3. WorkersOwn'
  BY <1>1 DEF MailInv, WorkersOwn, Owned
<1>4. MailsAgree' /\ ExpiryFits' /\ RetriesFailed'
  BY <1>1 DEF MailInv, MailsAgree, ExpiryFits, RetriesFailed
<1> QED
  BY <1>1, <1>2, <1>3, <1>4 DEF MailInv, Calm

\* Every step keeps the invariant, and is calm or takes one attempt on.
LEMMA NextKeeps ==
  ASSUME KeptLeases, OneUser, TypeOK, TypeOK', MailInv, [Next]_vars
  PROVE  MailInv' /\ (Calm \/ \E d \in Deliveries : Begins(d) \/ Accepts(d) \/ Concludes(d))
<1>1. ASSUME NEW s \in Scans, EnqueueScan(s) PROVE MailInv' /\ Calm
  BY <1>1, InsertKeeps, Kinds DEF EnqueueScan
<1>2. ASSUME NEW r \in Reports, MakeReport(r) PROVE MailInv' /\ Calm
  BY <1>2, InsertKeeps, Kinds DEF MakeReport
<1>3. ASSUME NEW r \in Reports, Rerender(r) PROVE MailInv' /\ Calm
  BY <1>3, RerenderKeeps
<1>4. ASSUME NEW d \in Deliveries, Deliver(d) PROVE MailInv' /\ Calm
  BY <1>4, InsertKeeps, Kinds DEF Deliver
<1>5. ASSUME NEW j \in Jobs, LeaseExpires(j) PROVE MailInv' /\ Calm
  BY <1>5, LeaseKeeps
<1>6. ASSUME NEW w \in Workers, Reconcile(w) PROVE MailInv' /\ Calm
  <2>1. Missing \in SUBSET Jobs /\ \A j \in Missing : ~Exists(j)
    BY QueuesAssumption, Kinds DEF Missing, MissingReports, MissingDeliveries
  <2> QED
    BY <1>6, <2>1, InsertKeeps DEF Reconcile
<1>7. ASSUME NEW w \in Workers, Beat(w) PROVE MailInv' /\ Calm
  BY <1>7, BeatKeeps
<1>8. ASSUME NEW w \in Workers, Crash(w) PROVE MailInv' /\ Calm
  BY <1>8, RestKeeps DEF Crash
<1>9. ASSUME NEW w \in Workers, Computes(w)
      PROVE  MailInv' /\ (Calm \/ \E d \in Deliveries : Begins(d) \/ Accepts(d))
  <2>1. Mark(w) => worker[w].job \in Deliveries
    BY DEF Mark, At
  <2> QED
    BY <1>9, <2>1, ScanKeeps, PublishReportKeeps, RenderKeeps, PrepareKeeps, RefusedEarlyKeeps,
       MarkKeeps, ServerAcceptsKeeps, AnsweredKeeps DEF Computes, Delivers
<1>10. ASSUME NEW w \in Workers, Ends(w)
       PROVE  MailInv' /\ (Calm \/ \E d \in Deliveries : Concludes(d))
  BY <1>10, PublishKeeps, ReconcileReadKeeps, ReconcileWriteKeeps, HandlerReadKeeps,
     HandlerWriteKeeps DEF Ends
<1>11. ASSUME NEW w \in Workers, NEW queue \in Queues, Polls(w, queue) PROVE MailInv' /\ Calm
  BY <1>11, ClaimKeeps, RecoverKeeps DEF Polls
<1>12. ASSUME NEW c \in Clients, RetryWrite(c) \/ \E d \in Deliveries : RetryRead(c, d)
       PROVE  MailInv' /\ Calm
  BY <1>12, RetryReadKeeps, RetryWriteKeeps
<1>13. ASSUME NEW k \in Cleaners, Cleans(k) \/ CleanerCrash(k) PROVE MailInv' /\ Calm
  BY <1>13, TombstoneKeeps, SweepReadKeeps, SweepWriteKeeps, CleanerCrashKeeps DEF Cleans
<1>14. CASE UNCHANGED vars
  BY <1>14 DEF vars, Calm, MailInv, MailsAgree, WorkersOwn, Owned, ExpiryFits, RetriesFailed,
               SweepsExpired
<1> QED
  BY <1>1, <1>2, <1>3, <1>4, <1>5, <1>6, <1>7, <1>8, <1>9, <1>10, <1>11, <1>12, <1>13, <1>14
     DEF Next, WorkerStep

-----------------------------------------------------------------------------
(* What follows.                                                            *)

\* The invariant holds in every reachable state.
THEOREM MailInvariant == ASSUME KeptLeases, OneUser PROVE Spec => []IInv
<1>1. Init => IInv
  BY InitTypeOK, InitMailInv DEF IInv
<1>2. IInv /\ [Next]_vars => IInv'
  BY NextTypeOK, NextKeeps DEF IInv
<1> QED
  BY <1>1, <1>2, PTL DEF Spec

\* "Ambiguous acceptance is never blindly retried": with whatever crashes,
\* losses and retries, no delivery is accepted by the server twice.
THEOREM MailedAtMostOnce == ASSUME KeptLeases, OneUser PROVE Spec => []AtMostOneMail
<1>1. IInv => AtMostOneMail
  BY DEF IInv, MailInv, MailsAgree, Agrees, Open, Verdict, AtMostOneMail
<1> QED
  BY <1>1, MailInvariant, PTL

\* A row never tells the user that a mail was sent when it was not, nor lets
\* him retry one that may have been.
THEOREM RowsAreHonest == ASSUME KeptLeases, OneUser PROVE Spec => []Honest
<1>1. IInv => Honest
  BY DEF IInv, MailInv, MailsAgree, Agrees, Open, Verdict, Honest
<1> QED
  BY <1>1, MailInvariant, PTL

\* A worker at a job owns its row, so two are never at the same one.
THEOREM JobsAreOwned == ASSUME KeptLeases, OneUser PROVE Spec => []OneOwner
<1>1. IInv => OneOwner
  BY DEF IInv, MailInv, WorkersOwn, Owned, OneOwner
<1> QED
  BY <1>1, MailInvariant, PTL

\* Once a row says "sent" or "unknown", nothing writes to it again.
THEOREM VerdictsStand == ASSUME KeptLeases, OneUser PROVE Spec => VerdictStands
<1> DEFINE Stands == \A d \in Deliveries : row[d].status \in {"sent", "unknown"} => row'[d] = row[d]
<1>1. IInv /\ IInv' /\ [Next]_vars => [Stands]_vars
  <2> SUFFICES ASSUME IInv, IInv', [Next]_vars PROVE Stands
    OBVIOUS
  <2>1. Calm \/ \E d \in Deliveries : Begins(d) \/ Accepts(d) \/ Concludes(d)
    BY NextKeeps DEF IInv
  <2>2. CASE Calm
    BY <2>2 DEF Calm, Open, Verdict
  <2>3. CASE \E d \in Deliveries : Begins(d) \/ Accepts(d) \/ Concludes(d)
    BY <2>3 DEF Begins, Accepts, Concludes, OthersStand
  <2> QED
    BY <2>1, <2>2, <2>3
<1> QED
  BY <1>1, MailInvariant, PTL DEF Spec, VerdictStands

\* The server is handed nothing of a report that retention has expired.
THEOREM ExpiredIsNotMailed == ASSUME KeptLeases, OneUser PROVE Spec => NoMailAfterExpiry
<1> DEFINE Silent == \A d \in Deliveries : expired[ReportOf[d]] => mails'[d] = mails[d]
<1>1. IInv /\ IInv' /\ [Next]_vars => [Silent]_vars
  <2> SUFFICES ASSUME IInv, IInv', [Next]_vars PROVE Silent
    OBVIOUS
  <2>1. Calm \/ \E d \in Deliveries : Begins(d) \/ Accepts(d) \/ Concludes(d)
    BY NextKeeps DEF IInv
  <2>2. mails \in [Deliveries -> Nat]
    BY DEF IInv, TypeOK
  <2> QED
    BY <2>1, <2>2 DEF Calm, Begins, Accepts, Concludes
<1> QED
  BY <1>1, MailInvariant, PTL DEF Spec, NoMailAfterExpiry

\* The signal centre implements MailOnce: what is underway is what is marked
\* "sending", and what is in doubt is what is marked "unknown".
THEOREM ImplementsMailOnce == ASSUME KeptLeases, OneUser PROVE Spec => MailsOnce
<1> DEFINE phase == [d \in Deliveries |-> Phase(d)]
<1>1. Init => Mail!Init
  BY Kinds DEF Init, Mail!Init, Phase, FreshRow
<1>2. IInv /\ IInv' /\ [Next]_vars => [Mail!Next]_Mail!vars
  <2> SUFFICES ASSUME IInv, IInv', [Next]_vars PROVE Mail!Next \/ UNCHANGED Mail!vars
    OBVIOUS
  <2>1. Calm \/ \E d \in Deliveries : Begins(d) \/ Accepts(d) \/ Concludes(d)
    BY NextKeeps DEF IInv
  <2>2. CASE Calm
    <3> DEFINE lost == {d \in Deliveries : row[d].status = "sending" /\ row'[d].status = "unknown"}
    <3>1. \A d \in lost : phase[d] = "underway" /\ Phase(d)' = "doubtful"
      BY DEF Phase
    <3>2. \A d \in Deliveries \ lost : Phase(d)' = Phase(d)
      BY <2>2 DEF Calm, Phase, Open, Verdict
    <3>3. phase' = [d \in Deliveries |-> IF d \in lost THEN "doubtful" ELSE phase[d]]
      BY <3>1, <3>2
    <3>4. Mail!Doubt(lost) /\ lost \in SUBSET Deliveries
      BY <2>2, <3>1, <3>3 DEF Mail!Doubt, Calm
    <3> QED
      BY <3>4 DEF Mail!Next
  <2>3. ASSUME NEW d \in Deliveries, Begins(d) PROVE Mail!Next
    <3>1. /\ Phase(d) = "open" /\ Phase(d)' = "underway" /\ mails[d] = 0 /\ UNCHANGED mails
          /\ \A e \in Deliveries : e # d => Phase(e)' = Phase(e)
      BY <2>3 DEF Begins, OthersStand, Phase
    <3>2. Mail!Begin(d)
      BY <3>1 DEF Mail!Begin, Mail!Become
    <3> QED
      BY <3>2 DEF Mail!Next
  <2>4. ASSUME NEW d \in Deliveries, Accepts(d) PROVE Mail!Next
    <3>1. /\ Phase(d) = "underway" /\ mails[d] = 0 /\ mails' = [mails EXCEPT ![d] = 1]
          /\ \A e \in Deliveries : Phase(e)' = Phase(e)
      BY <2>4 DEF Accepts, Phase
    <3>2. Mail!Accept(d)
      BY <3>1 DEF Mail!Accept
    <3> QED
      BY <3>2 DEF Mail!Next
  <2>5. ASSUME NEW d \in Deliveries, Concludes(d) PROVE Mail!Next
    <3>1. /\ Phase(d) = "underway" /\ UNCHANGED mails
          /\ \/ Phase(d)' = "open" /\ mails[d] = 0
             \/ Phase(d)' = "sent" /\ mails[d] = 1
             \/ Phase(d)' = "doubtful"
          /\ \A e \in Deliveries : e # d => Phase(e)' = Phase(e)
      BY <2>5 DEF Concludes, OthersStand, Phase
    <3>2. CASE Phase(d)' = "open" /\ mails[d] = 0
      BY <3>1, <3>2 DEF Mail!Refuse, Mail!Become, Mail!Next
    <3>3. CASE Phase(d)' = "sent" /\ mails[d] = 1
      BY <3>1, <3>3 DEF Mail!Confirm, Mail!Become, Mail!Next
    <3>4. CASE Phase(d)' = "doubtful"
      <4>1. Mail!Doubt({d})
        BY <3>1, <3>4 DEF Mail!Doubt
      <4> QED
        BY <4>1 DEF Mail!Next
    <3> QED
      BY <3>1, <3>2, <3>3, <3>4
  <2> QED
    BY <2>1, <2>2, <2>3, <2>4, <2>5
<1> QED
  BY <1>1, <1>2, MailInvariant, PTL DEF Spec, MailsOnce, Mail!Spec
=============================================================================

-------------------------- MODULE BacktestJobsProofs --------------------------
(* Theorems about BacktestJobs, for every value of its constants.           *)
EXTENDS BacktestJobs, TLAPS

-----------------------------------------------------------------------------
(* Rows: what the operators that rewrite a row preserve.                    *)

LEMMA FreshRowIsRow == FreshRow \in Row
BY DEF FreshRow, Row, Status, Terminal

LEMMA RowUpdates ==
  ASSUME NEW row \in Row
  PROVE  /\ \A s \in Status : WithStatus(row, s) \in Row /\ Released(row, s) \in Row
         /\ \A l \in {"null", "live", "expired"} : WithLease(row, l) \in Row
         /\ \A w \in Coordinators : Claimed(row, w) \in Row
         /\ CancelMarked(row) \in Row
         /\ Completed(row) \in Row
         /\ RecoveredStatus(row) \in Status
         /\ \A why : FailedStatus(why, row) \in Status
<1>1. \A s \in Status : WithStatus(row, s) \in Row
  BY DEF WithStatus, Row
<1>2. \A s \in Status : Released(row, s) \in Row
  BY DEF Released, Row
<1>3. \A l \in {"null", "live", "expired"} : WithLease(row, l) \in Row
  BY DEF WithLease, Row
<1>4. \A w \in Coordinators : Claimed(row, w) \in Row
  BY DEF Claimed, Row, Status
<1>5. CancelMarked(row) \in Row
  BY DEF CancelMarked, Row, Status, Terminal
<1>6. Completed(row) \in Row
  BY DEF Completed, Row, Status, Terminal
<1>7. RecoveredStatus(row) \in Status /\ \A why : FailedStatus(why, row) \in Status
  BY DEF RecoveredStatus, FailedStatus, Status, Terminal
<1> QED
  BY <1>1, <1>2, <1>3, <1>4, <1>5, <1>6, <1>7

LEMMA FlushRow ==
  ASSUME NEW stored \in Row, NEW loaded \in Row, NEW wanted \in Row
  PROVE  Flush(stored, loaded, wanted) \in Row
BY DEF Flush, Row

\* The local values of a child stay in shape.
LEMMA LocalUpdates ==
  ASSUME NEW l \in Local, l.job # NoJob
  PROVE  /\ \A pc \in ChildPC : AtPC(l, pc) \in Local
         /\ \A why \in Why : Raised(l, why) \in Local
         /\ \A pc \in ChildPC, row \in Row : Having(l, pc, row) \in Local
BY FreshRowIsRow DEF Local, AtPC, Raised, Having, ChildPC, Why

LEMMA LocalValues ==
  /\ Idle \in Local
  /\ \A j \in Jobs, a \in Nat : Holding(j, a) \in Local
BY FreshRowIsRow, JobsAssumption DEF Local, Idle, Holding, ChildPC, Why

-----------------------------------------------------------------------------
(* Type correctness.                                                        *)

LEMMA InitTypeOK == Init => TypeOK
BY JobsAssumption, FreshRowIsRow, LocalValues
   DEF Init, TypeOK, NoSweep, SweptRows, NoRequest, Request, Status

\* A child that is not idle holds a job, and holds a row when it has read one.
LEMMA BusyChild ==
  ASSUME TypeOK, NEW e \in Children, child[e].pc # "idle"
  PROVE  /\ child[e] \in Local
         /\ child[e].job \in Jobs /\ child[e].job # NoJob
         /\ child[e].attempt \in Nat
         /\ child[e].seen \in Row
BY DEF TypeOK, Local

LEMMA NextTypeOK ==
  ASSUME TypeOK, [Next]_vars
  PROVE  TypeOK'
<1> USE JobsAssumption DEF TypeOK
<1>1. ASSUME NEW j \in Jobs, Enqueue(j) PROVE TypeOK'
  BY <1>1, RowUpdates DEF Enqueue, NewJob, VerifiedBy, Status, Terminal
<1>2. ASSUME NEW j \in Jobs, Delete(j) PROVE TypeOK'
  BY <1>2, RowUpdates DEF Delete, Status, Terminal
<1>3. ASSUME NEW j \in Jobs, LeaseExpires(j) PROVE TypeOK'
  BY <1>3, RowUpdates DEF LeaseExpires
<1>4. ASSUME NEW j \in Jobs, NEW k \in Jobs, Retry(j, k) PROVE TypeOK'
  BY <1>4, RowUpdates DEF Retry, NewJob, VerifiedBy, Status, Terminal
<1>5. ASSUME NEW c \in Clients, NEW j \in Jobs, CancelRead(c, j) PROVE TypeOK'
  BY <1>5 DEF CancelRead, Request
<1>6. ASSUME NEW c \in Clients, CancelWrite(c) PROVE TypeOK'
  <2> DEFINE j == client[c].job
             seen == client[c].seen
  <2>1. j \in Jobs /\ seen \in Row /\ j # NoJob
    BY <1>6 DEF CancelWrite, Request
  <2>2. Flush(job[j], seen, CancelMarked(seen)) \in Row
    BY <2>1, FlushRow, RowUpdates
  <2>3. job' \in [Jobs -> Row]
    BY <1>6, <2>1, <2>2 DEF CancelWrite
  <2>4. client' \in [Clients -> Request]
    BY <1>6, FreshRowIsRow DEF CancelWrite, NoRequest, Request
  <2>5. run' \in [Jobs -> Status]
    BY <1>6, <2>1 DEF CancelWrite, CancelQueued, Status, Terminal
  <2> QED
    BY <1>6, <2>1, <2>3, <2>4, <2>5 DEF CancelWrite, CancelQueued, TrialEnds, Terminal
<1>7. ASSUME NEW s \in Sweepers, SweepRead(s) PROVE TypeOK'
  BY <1>7 DEF SweepRead, Due, SweptRows
<1>8. ASSUME NEW s \in Sweepers, SweepWrite(s) PROVE TypeOK'
  <2>1. \A j \in DOMAIN sweep[s] :
          /\ j \in Jobs
          /\ RecoveredStatus(sweep[s][j]) \in Status
          /\ Flush(job[j], sweep[s][j], Released(sweep[s][j], RecoveredStatus(sweep[s][j]))) \in Row
    BY FlushRow, RowUpdates DEF SweptRows
  <2>2. job' \in [Jobs -> Row]
    BY <1>8, <2>1 DEF SweepWrite
  <2>3. run' \in [Jobs -> Status]
    BY <1>8, <2>1 DEF SweepWrite
  <2>4. trial' \in [Jobs -> {"none", "running"} \cup Terminal]
    BY <1>8, <2>1 DEF SweepWrite
  <2> QED
    BY <1>8, <2>2, <2>3, <2>4 DEF SweepWrite, NoSweep, SweptRows
<1>9. ASSUME NEW e \in Children, NEW j \in Jobs, Claim(e, j) PROVE TypeOK'
  <2>1. Claimed(job[j], Coordinator[e]) \in Row
    BY WorkersAssumption, RowUpdates
  <2>2. Holding(j, job[j].attempt + 1) \in Local
    BY LocalValues DEF Row
  <2> QED
    BY <1>9, <2>1, <2>2 DEF Claim, Status
<1>10. ASSUME NEW e \in Children, NEW j \in Jobs, ClaimCancelled(e, j) PROVE TypeOK'
  BY <1>10, RowUpdates DEF ClaimCancelled, Status, Terminal
<1>11. ASSUME NEW e \in Children, Begin(e) PROVE TypeOK'
  BY <1>11, BusyChild, LocalUpdates, LocalValues DEF Begin, Goto, Leave, Engine, Status, ChildPC
<1>12. ASSUME NEW e \in Children, StartPersisting(e) PROVE TypeOK'
  BY <1>12, BusyChild, LocalUpdates DEF StartPersisting, Goto, Engine, ChildPC
<1>13. ASSUME NEW e \in Children, EngineCancelled(e) PROVE TypeOK'
  BY <1>13, BusyChild, LocalUpdates DEF EngineCancelled, InEngine, EngineEnds, Raise, Engine, Gone, Status, Terminal, Why
<1>14. ASSUME NEW e \in Children, EngineRaises(e) PROVE TypeOK'
  BY <1>14, BusyChild, LocalUpdates DEF EngineRaises, InEngine, EngineEnds, Raise, Engine, Gone, Status, Terminal, Why
<1>15. ASSUME NEW e \in Children, EngineCommits(e) PROVE TypeOK'
  BY <1>15, BusyChild, LocalUpdates DEF EngineCommits, Goto, Engine, Gone, KeepsDetails, Status, Terminal, ChildPC
<1>16. ASSUME NEW e \in Children, CompleteRead(e) PROVE TypeOK'
  BY <1>16, BusyChild, LocalUpdates, LocalValues DEF CompleteRead, Leave, Raise, Read, Engine, ChildPC, Why
<1>17. ASSUME NEW e \in Children, CompleteWrite(e) PROVE TypeOK'
  <2> DEFINE j == child[e].job
             seen == child[e].seen
  <2>1. j \in Jobs /\ seen \in Row
    BY <1>17, BusyChild DEF CompleteWrite
  <2>2. Flush(job[j], seen, Completed(seen)) \in Row
    BY <2>1, FlushRow, RowUpdates
  <2> QED
    BY <1>17, <2>1, <2>2, BusyChild, LocalUpdates, LocalValues
       DEF CompleteWrite, Leave, Goto, TrialEnds, Terminal, ChildPC
<1>18. ASSUME NEW e \in Children, CompleteFails(e) PROVE TypeOK'
  BY <1>18, BusyChild, LocalUpdates DEF CompleteFails, Raise, Engine, Why
<1>19. ASSUME NEW e \in Children, FailRead(e) PROVE TypeOK'
  BY <1>19, BusyChild, LocalUpdates, LocalValues DEF FailRead, Leave, Read, Engine, ChildPC
<1>20. ASSUME NEW e \in Children, FailWrite(e) PROVE TypeOK'
  <2> DEFINE j == child[e].job
             seen == child[e].seen
             status == FailedStatus(child[e].why, seen)
  <2>1. j \in Jobs /\ seen \in Row
    BY <1>20, BusyChild DEF FailWrite
  <2>2. status \in Status /\ Flush(job[j], seen, Released(seen, status)) \in Row
    BY <2>1, FlushRow, RowUpdates
  <2>3. child[e].why = "verification" => status \in Terminal
    BY DEF FailedStatus, Terminal
  <2>4. verif' \in [status : {"none", "queued"} \cup Terminal, run : Jobs \cup {NoJob}]
    BY <1>20, <2>3 DEF FailWrite, VerificationEnds, Terminal
  <2>5. job' \in [Jobs -> Row] /\ run' \in [Jobs -> Status]
    BY <1>20, <2>1, <2>2 DEF FailWrite
  <2>6. trial' \in [Jobs -> {"none", "running"} \cup Terminal]
    BY <1>20, <2>1 DEF FailWrite, TrialEnds
  <2> QED
    BY <1>20, <2>4, <2>5, <2>6, LocalValues DEF FailWrite, Leave
<1>21. ASSUME NEW e \in Children, HeartbeatCheck(e) PROVE TypeOK'
  BY <1>21, BusyChild DEF HeartbeatCheck, Beating
<1>22. ASSUME NEW e \in Children, HeartbeatWrite(e) PROVE TypeOK'
  BY <1>22, RowUpdates DEF HeartbeatWrite
<1>23. ASSUME NEW w \in Coordinators, Crash(w) PROVE TypeOK'
  BY <1>23, LocalValues DEF Crash
<1>24. ASSUME NEW e \in Children, FinalizeExperiment(e) PROVE TypeOK'
  BY <1>24, BusyChild, LocalUpdates, LocalValues DEF FinalizeExperiment, Leave, Raise, Engine, Why
<1>25. CASE UNCHANGED vars
  BY <1>25 DEF vars, SweptRows
<1> QED
  BY <1>1, <1>2, <1>3, <1>4, <1>5, <1>6, <1>7, <1>8, <1>9, <1>10, <1>11, <1>12, <1>13, <1>14,
     <1>15, <1>16, <1>17, <1>18, <1>19, <1>20, <1>21, <1>22, <1>23, <1>24, <1>25
     DEF Next, ChildStep

\* Every reachable state of the queue is well formed.
THEOREM TypeCorrect == Spec => []TypeOK
<1>1. Init => TypeOK
  BY InitTypeOK
<1>2. TypeOK /\ [Next]_vars => TypeOK'
  BY NextTypeOK
<1> QED
  BY <1>1, <1>2, PTL DEF Spec

-----------------------------------------------------------------------------
(* Requests and attempts: what no interleaving breaks, however late a lease  *)
(* is lost, because a commit writes only the columns it changed.             *)

\* A commit keeps the stored value of a column its session left alone.
LEMMA FlushColumns ==
  ASSUME NEW stored \in Row, NEW loaded \in Row, NEW wanted \in Row
  PROVE  LET new == Flush(stored, loaded, wanted) IN
           /\ new.status = IF wanted.status = loaded.status THEN stored.status ELSE wanted.status
           /\ new.attempt = IF wanted.attempt = loaded.attempt THEN stored.attempt ELSE wanted.attempt
           /\ new.cancelReq =
                IF wanted.cancelReq = loaded.cancelReq THEN stored.cancelReq ELSE wanted.cancelReq
BY DEF Flush, Row

LEMMA RowColumns ==
  ASSUME NEW row \in Row
  PROVE  /\ \A s : LET r == WithStatus(row, s) IN
              r.status = s /\ r.attempt = row.attempt /\ r.cancelReq = row.cancelReq
         /\ \A l : LET r == WithLease(row, l) IN
              r.status = row.status /\ r.attempt = row.attempt /\ r.cancelReq = row.cancelReq
         /\ \A s : LET r == Released(row, s) IN
              r.status = s /\ r.attempt = row.attempt /\ r.cancelReq = row.cancelReq
         /\ LET r == Completed(row) IN
              r.status = "completed" /\ r.attempt = row.attempt /\ r.cancelReq = row.cancelReq
         /\ LET r == CancelMarked(row) IN
              /\ r.status = IF row.status = "queued" THEN "cancelled" ELSE row.status
              /\ r.attempt = row.attempt /\ r.cancelReq
         /\ \A w : LET r == Claimed(row, w) IN
              /\ r.status = "running" /\ r.attempt = row.attempt + 1
              /\ r.cancelReq = row.cancelReq
         /\ row.attempt \in Nat /\ row.cancelReq \in BOOLEAN
BY DEF Row, WithStatus, WithLease, Released, Completed, CancelMarked, Claimed

\* What a step may do to a row: a request and an attempt are never taken back,
\* a requested row is not attempted again, and only a requested row is cancelled.
RowStep(j) ==
  /\ job[j].cancelReq => job'[j].cancelReq /\ job'[j].attempt = job[j].attempt
  /\ job'[j].attempt >= job[j].attempt
  /\ job'[j].status = "cancelled" => job[j].status = "cancelled" \/ job'[j].cancelReq

\* A request a session has read is still there when it writes.
RequestsSeen ==
  /\ \A s \in Sweepers : \A j \in DOMAIN sweep[s] : sweep[s][j].cancelReq => job[j].cancelReq
  /\ \A c \in Clients : client[c].job # NoJob /\ client[c].seen.cancelReq
                          => job[client[c].job].cancelReq
  /\ \A e \in Children :
       child[e].job # NoJob /\ (child[e].seen.cancelReq \/ child[e].why = "cancelled")
         => job[child[e].job].cancelReq

\* No child works for an attempt that has not been counted yet.
AttemptsCounted ==
  \A e \in Children : child[e].job # NoJob => child[e].attempt <= job[child[e].job].attempt

RequestInv == CancelledOnRequest /\ OneChildPerAttempt /\ RequestsSeen /\ AttemptsCounted

LEMMA InitRequestInv == Init => RequestInv
BY JobsAssumption DEF Init, RequestInv, CancelledOnRequest, OneChildPerAttempt, RequestsSeen,
     AttemptsCounted, FreshRow, Idle, NoRequest, NoSweep

\* A child that goes on keeps its job and its attempt, reads the row as it is,
\* and takes a job for cancelled only when it is asked to be.
GoesOn(e) ==
  \/ child'[e] = child[e]
  \/ child'[e].job = NoJob
  \/ /\ child'[e].job = child[e].job /\ child'[e].attempt = child[e].attempt
     /\ child[e].job \in Jobs
     /\ child'[e].seen \in {FreshRow, child[e].seen, job[child[e].job]}
     /\ \/ child'[e].why = child[e].why
        \/ child'[e].why # "cancelled"
        \/ job[child[e].job].cancelReq

LEMMA RequestStep ==
  ASSUME TypeOK, TypeOK', RequestInv,
         \A j \in Jobs : RowStep(j),
         \A e \in Children : GoesOn(e),
         \A s \in Sweepers : \/ sweep'[s] = sweep[s]
                             \/ \A j \in DOMAIN sweep'[s] : sweep'[s][j] = job[j],
         \A c \in Clients : \/ client'[c] = client[c]
                            \/ client'[c].job = NoJob
                            \/ client'[c].seen = job[client'[c].job]
  PROVE  RequestInv'
<1>1. /\ \A j \in Jobs : job[j] \in Row /\ job'[j] \in Row
      /\ \A j \in Jobs : job[j].attempt \in Nat /\ job'[j].attempt \in Nat
      /\ \A s \in Sweepers : DOMAIN sweep'[s] \subseteq Jobs
      /\ \A c \in Clients : client'[c].job # NoJob => client'[c].job \in Jobs
      /\ \A e \in Children : child'[e].job # NoJob => child'[e].job \in Jobs
      /\ \A e \in Children : child[e].attempt \in Nat
  BY RowColumns DEF TypeOK, SweptRows, Request, Local
<1>2. CancelledOnRequest'
  BY DEF RequestInv, CancelledOnRequest, RowStep
<1>3. OneChildPerAttempt'
  BY DEF RequestInv, OneChildPerAttempt, GoesOn
<1>4. AttemptsCounted'
  <2> SUFFICES ASSUME NEW e \in Children, child'[e].job # NoJob
               PROVE  child'[e].attempt <= job'[child'[e].job].attempt
    BY DEF AttemptsCounted
  <2>1. child'[e].job = child[e].job /\ child'[e].attempt = child[e].attempt
    BY DEF GoesOn
  <2>2. child[e].attempt <= job[child[e].job].attempt
    BY <2>1 DEF RequestInv, AttemptsCounted
  <2>3. job'[child[e].job].attempt >= job[child[e].job].attempt
    BY <1>1, <2>1 DEF RowStep
  <2> QED
    BY <1>1, <2>1, <2>2, <2>3
<1>5. \A s \in Sweepers : \A j \in DOMAIN sweep'[s] : sweep'[s][j].cancelReq => job'[j].cancelReq
  BY <1>1 DEF RequestInv, RequestsSeen, RowStep
<1>6. \A c \in Clients : client'[c].job # NoJob /\ client'[c].seen.cancelReq
                           => job'[client'[c].job].cancelReq
  BY <1>1 DEF RequestInv, RequestsSeen, RowStep
<1>7. \A e \in Children :
        child'[e].job # NoJob /\ (child'[e].seen.cancelReq \/ child'[e].why = "cancelled")
          => job'[child'[e].job].cancelReq
  <2>1. ~FreshRow.cancelReq
    BY DEF FreshRow
  <2> QED
    BY <1>1, <2>1 DEF RequestInv, RequestsSeen, RowStep, GoesOn
<1> QED
  BY <1>2, <1>3, <1>4, <1>5, <1>6, <1>7 DEF RequestInv, RequestsSeen

\* A claim counts an attempt that no other child works for.
LEMMA ClaimRequests ==
  ASSUME TypeOK, TypeOK', RequestInv, NEW e \in Children, NEW j \in Jobs, Claim(e, j)
  PROVE  RequestInv' /\ \A i \in Jobs : RowStep(i)
<1> DEFINE taken == Claimed(job[j], Coordinator[e])
           held == Holding(j, job[j].attempt + 1)
<1>1. /\ job[j].status = "queued" /\ ~job[j].cancelReq
      /\ job' = [job EXCEPT ![j] = taken] /\ child' = [child EXCEPT ![e] = held]
      /\ UNCHANGED <<sweep, client>>
  BY DEF Claim, Queued
<1>2. /\ taken.status = "running" /\ taken.attempt = job[j].attempt + 1
      /\ taken.cancelReq = job[j].cancelReq /\ job[j].attempt \in Nat
  BY RowColumns DEF TypeOK
<1>3. /\ held.job = j /\ held.attempt = job[j].attempt + 1 /\ held.why = "none"
      /\ ~held.seen.cancelReq
  BY DEF Holding, FreshRow
<1> HIDE DEF taken, held
<1>4. \A i \in Jobs : job'[i] = IF i = j THEN taken ELSE job[i]
  BY <1>1 DEF TypeOK
<1>5. \A f \in Children : child'[f] = IF f = e THEN held ELSE child[f]
  BY <1>1 DEF TypeOK
<1>6. \A f \in Children : child[f].attempt \in Nat /\ (child[f].job # NoJob => child[f].job \in Jobs)
  BY DEF TypeOK, Local
<1>7. \A i \in Jobs : job[i].attempt \in Nat
  BY RowColumns DEF TypeOK
<1>8. \A i \in Jobs : RowStep(i)
  BY <1>1, <1>2, <1>4, <1>7 DEF RowStep
<1>9. CancelledOnRequest'
  BY <1>2, <1>4 DEF RequestInv, CancelledOnRequest
<1>10. \A f \in Children : child[f].job = j => child[f].attempt <= job[j].attempt
  BY JobsAssumption DEF RequestInv, AttemptsCounted
<1>11. OneChildPerAttempt'
  <2> SUFFICES ASSUME NEW f \in Children, NEW g \in Children, f # g,
                      child'[f].job = child'[g].job, child'[f].job # NoJob
               PROVE  child'[f].attempt # child'[g].attempt
    BY DEF OneChildPerAttempt
  <2>1. CASE f = e
    BY <1>2, <1>3, <1>5, <1>6, <1>10, <2>1
  <2>2. CASE g = e
    BY <1>2, <1>3, <1>5, <1>6, <1>10, <2>2
  <2>3. CASE f # e /\ g # e
    BY <1>5, <2>3 DEF RequestInv, OneChildPerAttempt
  <2> QED
    BY <2>1, <2>2, <2>3
<1>12. AttemptsCounted'
  <2> SUFFICES ASSUME NEW f \in Children, child'[f].job # NoJob
               PROVE  child'[f].attempt <= job'[child'[f].job].attempt
    BY DEF AttemptsCounted
  <2>1. CASE f = e
    BY <1>2, <1>3, <1>4, <1>5, <2>1
  <2>2. CASE f # e
    <3>1. /\ child'[f] = child[f] /\ child[f].job \in Jobs /\ child[f].attempt \in Nat
          /\ child[f].attempt <= job[child[f].job].attempt
      BY <1>5, <1>6, <2>2 DEF RequestInv, AttemptsCounted
    <3> QED
      BY <1>2, <1>4, <1>7, <3>1
  <2> QED
    BY <2>1, <2>2
<1>13. RequestsSeen'
  BY <1>1, <1>2, <1>3, <1>4, <1>5, <1>6 DEF RequestInv, RequestsSeen, TypeOK, SweptRows, Request
<1> QED
  BY <1>8, <1>9, <1>11, <1>12, <1>13 DEF RequestInv

\* What the updates of a child's local values change.
LEMMA LocalColumns ==
  ASSUME NEW l \in Local
  PROVE  /\ \A pc : LET m == AtPC(l, pc) IN
              m.job = l.job /\ m.attempt = l.attempt /\ m.why = l.why /\ m.seen = l.seen
         /\ \A why : LET m == Raised(l, why) IN
              m.job = l.job /\ m.attempt = l.attempt /\ m.why = why /\ m.seen = FreshRow
         /\ \A pc, row : LET m == Having(l, pc, row) IN
              m.job = l.job /\ m.attempt = l.attempt /\ m.why = l.why /\ m.seen = row
         /\ Idle.job = NoJob
BY DEF Local, AtPC, Raised, Having, Idle

\* A child that moves goes on, and the others do what they did.
LEMMA ChildMoves ==
  ASSUME TypeOK, NEW e \in Children, child[e].pc # "idle",
         \/ \E pc : Goto(e, pc) \/ Read(e, pc)
         \/ \E why : Raise(e, why) /\ (why # "cancelled" \/ job[child[e].job].cancelReq)
         \/ Leave(e)
  PROVE  \A f \in Children : GoesOn(f)
<1>1. child[e] \in Local /\ child[e].job \in Jobs
  BY BusyChild
<1>2. \A f \in Children : f # e => child'[f] = child[f]
  BY DEF Goto, Read, Raise, Leave, TypeOK
<1>3. CASE \E pc : Goto(e, pc)
  <2>1. PICK pc : Goto(e, pc)
    BY <1>3
  <2>2. child'[e] = AtPC(child[e], pc)
    BY <2>1 DEF Goto, TypeOK
  <2> QED
    BY <1>1, <1>2, <2>2, LocalColumns DEF GoesOn
<1>4. CASE \E pc : Read(e, pc)
  <2>1. PICK pc : Read(e, pc)
    BY <1>4
  <2>2. child'[e] = Having(child[e], pc, job[child[e].job])
    BY <2>1 DEF Read, TypeOK
  <2> QED
    BY <1>1, <1>2, <2>2, LocalColumns DEF GoesOn
<1>5. CASE \E why : Raise(e, why) /\ (why # "cancelled" \/ job[child[e].job].cancelReq)
  <2>1. PICK why : Raise(e, why) /\ (why # "cancelled" \/ job[child[e].job].cancelReq)
    BY <1>5
  <2>2. child'[e] = Raised(child[e], why)
    BY <2>1 DEF Raise, TypeOK
  <2> QED
    BY <1>1, <1>2, <2>1, <2>2, LocalColumns DEF GoesOn
<1>6. CASE Leave(e)
  <2>1. child'[e] = Idle
    BY <1>6 DEF Leave, TypeOK
  <2> QED
    BY <1>1, <1>2, <2>1, LocalColumns DEF GoesOn
<1> QED
  BY <1>3, <1>4, <1>5, <1>6

\* A commit that leaves attempt alone, takes no request back, and cancels only
\* what is requested.
LEMMA FlushStep ==
  ASSUME NEW stored \in Row, NEW loaded \in Row, NEW wanted \in Row,
         loaded.cancelReq => stored.cancelReq,
         wanted.attempt = loaded.attempt,
         wanted.cancelReq = loaded.cancelReq \/ wanted.cancelReq,
         wanted.status = "cancelled" => wanted.cancelReq \/ stored.cancelReq
  PROVE  LET new == Flush(stored, loaded, wanted) IN
           /\ new.attempt = stored.attempt
           /\ stored.cancelReq => new.cancelReq
           /\ new.status = "cancelled" => stored.status = "cancelled" \/ new.cancelReq
<1>1. stored.cancelReq \in BOOLEAN /\ loaded.cancelReq \in BOOLEAN /\ wanted.cancelReq \in BOOLEAN
  BY RowColumns
<1> QED
  BY <1>1, FlushColumns

\* Whoever does not write to a row steps it.
LEMMA SameRow ==
  ASSUME TypeOK, NEW j \in Jobs, job'[j] = job[j]
  PROVE  RowStep(j)
BY RowColumns DEF RowStep, TypeOK

\* Every step keeps the requests and the attempts.
LEMMA NextRequests ==
  ASSUME TypeOK, TypeOK', RequestInv, [Next]_vars
  PROVE  RequestInv' /\ \A j \in Jobs : RowStep(j)
<1> DEFINE Rows   == \A j \in Jobs : RowStep(j)
           Kids   == \A e \in Children : GoesOn(e)
           Sweeps == \A s \in Sweepers : \/ sweep'[s] = sweep[s]
                                         \/ \A j \in DOMAIN sweep'[s] : sweep'[s][j] = job[j]
           Asks   == \A c \in Clients : \/ client'[c] = client[c]
                                        \/ client'[c].job = NoJob
                                        \/ client'[c].seen = job[client'[c].job]
<1>a. Rows /\ Kids /\ Sweeps /\ Asks => RequestInv' /\ Rows
  BY RequestStep
<1>b. \A j \in Jobs : job[j] \in Row /\ job[j].attempt \in Nat
  BY RowColumns DEF TypeOK
<1>1. ASSUME NEW j \in Jobs, Enqueue(j) PROVE Rows /\ Kids /\ Sweeps /\ Asks
  <2>1. \A i \in Jobs : job'[i] = IF i = j THEN WithStatus(job[j], "queued") ELSE job[i]
    BY <1>1 DEF Enqueue, NewJob, TypeOK
  <2>2. Rows
    BY <1>b, <2>1, RowColumns DEF RowStep
  <2> QED
    BY <1>1, <2>2 DEF Enqueue, GoesOn
<1>2. ASSUME NEW j \in Jobs, Delete(j) PROVE Rows /\ Kids /\ Sweeps /\ Asks
  <2>1. \A i \in Jobs : job'[i] = IF i = j THEN WithStatus(job[j], "deleted") ELSE job[i]
    BY <1>2 DEF Delete, TypeOK
  <2>2. Rows
    BY <1>b, <2>1, RowColumns DEF RowStep
  <2> QED
    BY <1>2, <2>2 DEF Delete, GoesOn
<1>3. ASSUME NEW j \in Jobs, LeaseExpires(j) PROVE Rows /\ Kids /\ Sweeps /\ Asks
  <2>1. \A i \in Jobs : job'[i] = IF i = j THEN WithLease(job[j], "expired") ELSE job[i]
    BY <1>3 DEF LeaseExpires, TypeOK
  <2>2. Rows
    BY <1>b, <2>1, RowColumns DEF RowStep
  <2> QED
    BY <1>3, <2>2 DEF LeaseExpires, GoesOn
<1>4. ASSUME NEW j \in Jobs, NEW k \in Jobs, Retry(j, k) PROVE Rows /\ Kids /\ Sweeps /\ Asks
  <2>1. \A i \in Jobs : job'[i] = IF i = k THEN WithStatus(job[k], "queued") ELSE job[i]
    BY <1>4 DEF Retry, NewJob, TypeOK
  <2>2. Rows
    BY <1>b, <2>1, RowColumns DEF RowStep
  <2> QED
    BY <1>4, <2>2 DEF Retry, GoesOn
<1>5. ASSUME NEW c \in Clients, NEW j \in Jobs, CancelRead(c, j)
      PROVE  Rows /\ Kids /\ Sweeps /\ Asks
  <2>1. \A b \in Clients : client'[b] = IF b = c THEN [job |-> j, seen |-> job[j]] ELSE client[b]
    BY <1>5 DEF CancelRead, TypeOK
  <2> QED
    BY <1>5, <2>1, SameRow DEF CancelRead, GoesOn
<1>6. ASSUME NEW c \in Clients, CancelWrite(c) PROVE Rows /\ Kids /\ Sweeps /\ Asks
  <2> DEFINE j == client[c].job
             seen == client[c].seen
             new == Flush(job[j], seen, CancelMarked(seen))
  <2>1. j \in Jobs /\ j # NoJob /\ seen \in Row /\ (seen.cancelReq => job[j].cancelReq)
    BY <1>6 DEF CancelWrite, TypeOK, Request, RequestInv, RequestsSeen
  <2>2. CancelMarked(seen) \in Row /\ CancelMarked(seen).cancelReq
        /\ CancelMarked(seen).attempt = seen.attempt
    BY <2>1, RowUpdates, RowColumns
  <2>3. /\ new.attempt = job[j].attempt
        /\ job[j].cancelReq => new.cancelReq
        /\ new.status = "cancelled" => job[j].status = "cancelled" \/ new.cancelReq
    BY <1>b, <2>1, <2>2, FlushStep
  <2>4. job' = job \/ job' = [job EXCEPT ![j] = new]
    BY <1>6 DEF CancelWrite
  <2>5. \A i \in Jobs : job'[i] = job[i] \/ (i = j /\ job'[i] = new)
    BY <2>4 DEF TypeOK
  <2> HIDE DEF new
  <2>6. Rows
    BY <1>b, <2>3, <2>5 DEF RowStep
  <2>7. \A b \in Clients : client'[b] = IF b = c THEN NoRequest ELSE client[b]
    BY <1>6 DEF CancelWrite, TypeOK
  <2> QED
    BY <1>6, <2>6, <2>7 DEF CancelWrite, NoRequest, GoesOn
<1>7. ASSUME NEW s \in Sweepers, SweepRead(s) PROVE Rows /\ Kids /\ Sweeps /\ Asks
  <2>1. \A t \in Sweepers : sweep'[t] = IF t = s THEN [j \in Due |-> job[j]] ELSE sweep[t]
    BY <1>7 DEF SweepRead, TypeOK
  <2> QED
    BY <1>7, <2>1, SameRow DEF SweepRead, GoesOn
<1>8. ASSUME NEW s \in Sweepers, SweepWrite(s) PROVE Rows /\ Kids /\ Sweeps /\ Asks
  <2> DEFINE new(j) == Flush(job[j], sweep[s][j],
                             Released(sweep[s][j], RecoveredStatus(sweep[s][j])))
  <2>1. \A i \in Jobs : job'[i] = job[i] \/ (i \in DOMAIN sweep[s] /\ job'[i] = new(i))
    BY <1>8 DEF SweepWrite
  <2>2. ASSUME NEW i \in Jobs, i \in DOMAIN sweep[s]
        PROVE  /\ new(i).attempt = job[i].attempt
               /\ job[i].cancelReq => new(i).cancelReq
               /\ new(i).status = "cancelled" => job[i].status = "cancelled" \/ new(i).cancelReq
    <3> DEFINE seen == sweep[s][i]
               free == Released(seen, RecoveredStatus(seen))
    <3>1. seen \in Row /\ (seen.cancelReq => job[i].cancelReq)
      BY <2>2 DEF TypeOK, SweptRows, RequestInv, RequestsSeen
    <3> HIDE DEF seen
    <3>2. RecoveredStatus(seen) \in Status /\ free \in Row
      BY <3>1, RowUpdates
    <3>3. /\ free.attempt = seen.attempt /\ free.cancelReq = seen.cancelReq
          /\ free.status = RecoveredStatus(seen)
      BY <3>1, RowColumns
    <3>4. free.status = "cancelled" => seen.cancelReq
      BY <3>3 DEF RecoveredStatus
    <3> HIDE DEF free
    <3>5. LET r == Flush(job[i], seen, free) IN
            /\ r.attempt = job[i].attempt
            /\ job[i].cancelReq => r.cancelReq
            /\ r.status = "cancelled" => job[i].status = "cancelled" \/ r.cancelReq
      BY <1>b, <3>1, <3>2, <3>3, <3>4, FlushStep
    <3> QED
      BY <3>5 DEF seen, free
  <2> HIDE DEF new
  <2>3. Rows
    BY <1>b, <2>1, <2>2 DEF RowStep
  <2>4. \A t \in Sweepers : sweep'[t] = IF t = s THEN NoSweep ELSE sweep[t]
    BY <1>8 DEF SweepWrite, TypeOK
  <2> QED
    BY <1>8, <2>3, <2>4 DEF SweepWrite, NoSweep, GoesOn
<1>9. ASSUME NEW e \in Children, NEW j \in Jobs, ClaimCancelled(e, j)
      PROVE  Rows /\ Kids /\ Sweeps /\ Asks
  <2>1. \A i \in Jobs : job'[i] = IF i = j THEN WithStatus(job[j], "cancelled") ELSE job[i]
    BY <1>9 DEF ClaimCancelled, TypeOK
  <2>2. Rows
    BY <1>9, <1>b, <2>1, RowColumns DEF RowStep, ClaimCancelled
  <2> QED
    BY <1>9, <2>2 DEF ClaimCancelled, GoesOn
<1>10. ASSUME NEW e \in Children,
              \/ Begin(e) \/ StartPersisting(e) \/ EngineCancelled(e) \/ EngineRaises(e)
              \/ EngineCommits(e) \/ CompleteRead(e) \/ CompleteFails(e)
              \/ FinalizeExperiment(e) \/ FailRead(e)
       PROVE  Rows /\ Kids /\ Sweeps /\ Asks
  <2>1. child[e].pc # "idle" /\ UNCHANGED <<job, sweep, client>>
    BY <1>10 DEF Begin, StartPersisting, EngineCancelled, EngineRaises, EngineCommits, CompleteRead,
                 CompleteFails, FinalizeExperiment, FailRead, InEngine, Engine
  <2>2. \/ \E pc : Goto(e, pc) \/ Read(e, pc)
        \/ \E why : Raise(e, why) /\ (why # "cancelled" \/ job[child[e].job].cancelReq)
        \/ Leave(e)
    BY <1>10 DEF Begin, StartPersisting, EngineCancelled, EngineRaises, EngineCommits, CompleteRead,
                 CompleteFails, FinalizeExperiment, FailRead
  <2> QED
    BY <2>1, <2>2, ChildMoves, SameRow
<1>11. ASSUME NEW e \in Children, CompleteWrite(e) PROVE Rows /\ Kids /\ Sweeps /\ Asks
  <2> DEFINE j == child[e].job
             seen == child[e].seen
             new == Flush(job[j], seen, Completed(seen))
  <2>1. /\ child[e].pc # "idle" /\ j \in Jobs /\ j # NoJob /\ seen \in Row
        /\ seen.cancelReq => job[j].cancelReq
    BY <1>11, BusyChild DEF CompleteWrite, RequestInv, RequestsSeen
  <2>2. /\ Completed(seen) \in Row /\ Completed(seen).cancelReq = seen.cancelReq
        /\ Completed(seen).attempt = seen.attempt /\ Completed(seen).status = "completed"
    BY <2>1, RowUpdates, RowColumns
  <2>3. /\ new.attempt = job[j].attempt
        /\ job[j].cancelReq => new.cancelReq
        /\ new.status = "cancelled" => job[j].status = "cancelled" \/ new.cancelReq
    BY <1>b, <2>1, <2>2, FlushStep
  <2>4. \A i \in Jobs : job'[i] = job[i] \/ (i = j /\ job'[i] = new)
    BY <1>11 DEF CompleteWrite, TypeOK
  <2>5. Goto(e, "finishing") \/ Leave(e)
    BY <1>11 DEF CompleteWrite
  <2> HIDE DEF new
  <2>6. Rows
    BY <1>b, <2>3, <2>4 DEF RowStep
  <2> QED
    BY <1>11, <2>1, <2>5, <2>6, ChildMoves DEF CompleteWrite
<1>12. ASSUME NEW e \in Children, FailWrite(e) PROVE Rows /\ Kids /\ Sweeps /\ Asks
  <2> DEFINE j == child[e].job
             seen == child[e].seen
             free == Released(seen, FailedStatus(child[e].why, seen))
             new == Flush(job[j], seen, free)
  <2>1. /\ child[e].pc # "idle" /\ j \in Jobs /\ j # NoJob /\ seen \in Row
        /\ seen.cancelReq \/ child[e].why = "cancelled" => job[j].cancelReq
    BY <1>12, BusyChild DEF FailWrite, RequestInv, RequestsSeen
  <2>2. /\ free \in Row
        /\ free.cancelReq = seen.cancelReq /\ free.attempt = seen.attempt
        /\ free.status = FailedStatus(child[e].why, seen)
    <3> DEFINE status == FailedStatus(child[e].why, seen)
    <3>1. status \in Status
      BY <2>1, RowUpdates
    <3> HIDE DEF seen, status
    <3>2. Released(seen, status) \in Row
      BY <2>1, <3>1, RowUpdates
    <3>3. /\ Released(seen, status).cancelReq = seen.cancelReq
          /\ Released(seen, status).attempt = seen.attempt
          /\ Released(seen, status).status = status
      BY <2>1, <3>1, RowColumns
    <3> QED
      BY <3>2, <3>3 DEF status
  <2>3. free.status = "cancelled" => job[j].cancelReq
    BY <2>1, <2>2 DEF FailedStatus
  <2>4. /\ new.attempt = job[j].attempt
        /\ job[j].cancelReq => new.cancelReq
        /\ new.status = "cancelled" => job[j].status = "cancelled" \/ new.cancelReq
    BY <1>b, <2>1, <2>2, <2>3, FlushStep
  <2>5. \A i \in Jobs : job'[i] = job[i] \/ (i = j /\ job'[i] = new)
    BY <1>12 DEF FailWrite, TypeOK
  <2> HIDE DEF new
  <2>6. Rows
    BY <1>b, <2>4, <2>5 DEF RowStep
  <2> QED
    BY <1>12, <2>1, <2>6, ChildMoves DEF FailWrite
<1>13. ASSUME NEW e \in Children, HeartbeatCheck(e) PROVE Rows /\ Kids /\ Sweeps /\ Asks
  BY <1>13, SameRow DEF HeartbeatCheck, GoesOn
<1>14. ASSUME NEW e \in Children, HeartbeatWrite(e) PROVE Rows /\ Kids /\ Sweeps /\ Asks
  <2>1. \A i \in Jobs : job'[i] = job[i] \/ job'[i] = WithLease(job[i], "live")
    BY <1>14 DEF HeartbeatWrite, TypeOK
  <2>2. Rows
    BY <1>b, <2>1, RowColumns DEF RowStep
  <2> QED
    BY <1>14, <2>2 DEF HeartbeatWrite, GoesOn
<1>15. ASSUME NEW w \in Coordinators, Crash(w) PROVE Rows /\ Kids /\ Sweeps /\ Asks
  <2>1. \A e \in Children : child'[e] = child[e] \/ child'[e].job = NoJob
    BY <1>15 DEF Crash, Idle
  <2> QED
    BY <1>15, <2>1, SameRow DEF Crash, GoesOn
<1>16. ASSUME UNCHANGED vars PROVE Rows /\ Kids /\ Sweeps /\ Asks
  BY <1>16, SameRow DEF vars, GoesOn
<1> HIDE DEF Kids, Sweeps, Asks
<1>17. ASSUME ~\E e \in Children, j \in Jobs : Claim(e, j)
       PROVE  Rows /\ Kids /\ Sweeps /\ Asks
  BY <1>1, <1>2, <1>3, <1>4, <1>5, <1>6, <1>7, <1>8, <1>9, <1>10, <1>11, <1>12, <1>13, <1>14,
     <1>15, <1>16, <1>17 DEF Next, ChildStep
<1> QED
  BY <1>a, <1>17, ClaimRequests

\* The invariant holds in every reachable state, with every interleaving of the
\* handlers and however late a lease is lost.
THEOREM RequestInvariant == Spec => [](TypeOK /\ RequestInv)
<1>1. Init => TypeOK /\ RequestInv
  BY InitTypeOK, InitRequestInv
<1>2. TypeOK /\ RequestInv /\ [Next]_vars => (TypeOK /\ RequestInv)'
  BY NextTypeOK, NextRequests
<1> QED
  BY <1>1, <1>2, PTL DEF Spec

\* Two children never work for the same attempt of a job.
THEOREM AttemptsAreExclusive == Spec => []OneChildPerAttempt
<1>1. TypeOK /\ RequestInv => OneChildPerAttempt
  BY DEF RequestInv
<1> QED
  BY <1>1, RequestInvariant, PTL

\* No job ends cancelled that nobody asked to cancel.
THEOREM CancelledIsRequested == Spec => []CancelledOnRequest
<1>1. TypeOK /\ RequestInv => CancelledOnRequest
  BY DEF RequestInv
<1> QED
  BY <1>1, RequestInvariant, PTL

\* A committed cancel request is never lost, and no attempt follows it.
THEOREM RequestsStick == Spec => CancelRequestSticks
<1> DEFINE Sticks == \A j \in Jobs : job[j].cancelReq =>
                       job'[j].cancelReq /\ job'[j].attempt = job[j].attempt
<1>1. (TypeOK /\ RequestInv) /\ (TypeOK /\ RequestInv)' /\ [Next]_vars => [Sticks]_vars
  BY NextRequests DEF RowStep
<1> QED
  BY <1>1, RequestInvariant, PTL DEF Spec, CancelRequestSticks

-----------------------------------------------------------------------------
(* Handlers that do not interleave, leases that no live child loses: what    *)
(* the queue is meant to be, and every transaction opens on a row that stays *)
(* as it was read until it commits.                                          *)

\* What a job has to show in the state its row is in.
JobOK(j) ==
  /\ job[j].status = "none" => job[j] = FreshRow
  /\ job[j].attempt <= MaxAttempts
  /\ Queued(j) => job[j].attempt < MaxAttempts /\ ~job[j].cancelReq
  /\ job[j].status \in Terminal => run[j] = job[j].status
  /\ job[j].status = "completed" /\ KeepsDetails(j) => details[j] = {job[j].attempt}
  /\ Source[j] = "research" /\ job[j].status \in Terminal => trial[j] = job[j].status
  /\ retriedBy[j] # NoJob => Source[j] # "research" /\ job[j].status \in {"failed", "deleted"}
  /\ verif.run = j => /\ Source[j] = "verification"
                      /\ verif.status = "completed" => job[j].status = "completed"

Busy(e) == child[e].pc # "idle"

\* The child works for the attempt the row is in, under a lease that lasts.
Owned(e) ==
  LET row == job[child[e].job]
  IN  row.status = "running" /\ row.lease = "live" /\ row.attempt = child[e].attempt

\* The child of a research job whose completion is already committed.
Advancing(e) ==
  /\ child[e].pc \in {"finishing", "raised", "failing"}
  /\ Source[child[e].job] = "research"
  /\ job[child[e].job].status \in {"completed", "deleted"}

Delivered(e) ==
  LET j == child[e].job
  IN  run[j] = "completed" /\ (KeepsDetails(j) => details[j] = {child[e].attempt})

\* What a child may assume of its job at each point of execute_backtest_job.
ChildOK(e) ==
  /\ Busy(e) => Owned(e) \/ Advancing(e)
  /\ child[e].pc = "finishing" => Advancing(e)
  /\ child[e].pc \in {"ran", "completing"} => Delivered(e)
  /\ child[e].pc \in {"completing", "failing"} =>
       child[e].seen = job[child[e].job] /\ job[child[e].job].status # "deleted"
  /\ beat[e] # NoJob => Busy(e) /\ beat[e] = child[e].job /\ Owned(e)

Apart == \A e, f \in Children : e # f /\ Busy(e) /\ Busy(f) => child[e].job # child[f].job

SweepOK(s) ==
  \A j \in DOMAIN sweep[s] :
    sweep[s][j] = job[j] /\ job[j].status = "running" /\ job[j].lease = "expired"

ClientOK(c) ==
  client[c].job # NoJob =>
    client[c].seen = job[client[c].job] /\ job[client[c].job].status \in {"queued", "running"}

SerialInv ==
  /\ \A j \in Jobs : JobOK(j)
  /\ \A e \in Children : ChildOK(e)
  /\ Apart
  /\ \A s \in Sweepers : SweepOK(s)
  /\ \A c \in Clients : ClientOK(c)

LEMMA InitSerial == Init => SerialInv
BY JobsAssumption, BudgetAssumption
   DEF Init, SerialInv, JobOK, ChildOK, Busy, Apart, SweepOK, ClientOK, Queued, FreshRow, Idle,
       NoSweep, NoRequest, Terminal

\* When no transaction is open, nobody holds a row it has read.
LEMMA QuietMeansClosed ==
  ASSUME ~Interleaved, Quiet
  PROVE  /\ \A s \in Sweepers : DOMAIN sweep[s] = {}
         /\ \A c \in Clients : client[c].job = NoJob
         /\ \A e \in Children : beat[e] = NoJob /\ child[e].pc \notin {"completing", "failing"}
BY DEF Quiet, Open

\* While a transaction is open, it is the only one.
LEMMA AloneMeansClosed ==
  ASSUME ~Interleaved, NEW tx, MayRun(tx)
  PROVE  /\ \A s \in Sweepers : tx # <<"sweep", s>> => DOMAIN sweep[s] = {}
         /\ \A c \in Clients : tx # <<"client", c>> => client[c].job = NoJob
         /\ \A e \in Children : tx # <<"beat", e>> => beat[e] = NoJob
         /\ \A e \in Children : tx # <<"child", e>> => child[e].pc \notin {"completing", "failing"}
BY DEF MayRun, Open

\* A commit on the row as it was read stores what the session wanted.
LEMMA FlushUnchanged ==
  ASSUME NEW row \in Row, NEW wanted \in Row
  PROVE  Flush(row, row, wanted) = wanted
BY DEF Flush, Row

\* A job nobody touched: its row and all that is told of it stay.
Elsewhere(i) ==
  /\ job'[i] = job[i] /\ run'[i] = run[i] /\ details'[i] = details[i]
  /\ trial'[i] = trial[i] /\ retriedBy'[i] = retriedBy[i]
  /\ verif'.run = i => verif.run = i /\ (verif'.status = "completed" => verif.status = "completed")

\* A step that touches the jobs in S and the children in K keeps the invariant
\* when it keeps it for these, and every other busy child works elsewhere.
LEMMA SerialStep ==
  ASSUME TypeOK, TypeOK', SerialInv, NEW S, NEW K,
         \A i \in Jobs : i \notin S => Elsewhere(i),
         \A i \in Jobs : i \in S => JobOK(i)',
         \A e \in Children : e \notin K =>
           child'[e] = child[e] /\ beat'[e] = beat[e] /\ (Busy(e) => child[e].job \notin S),
         \A e \in Children : e \in K => ChildOK(e)',
         Apart',
         \A s \in Sweepers : SweepOK(s)',
         \A c \in Clients : ClientOK(c)'
  PROVE  SerialInv'
<1>1. \A i \in Jobs : JobOK(i)'
  <2> SUFFICES ASSUME NEW i \in Jobs, i \notin S PROVE JobOK(i)'
    OBVIOUS
  <2>1. Elsewhere(i) /\ JobOK(i)
    BY DEF SerialInv
  <2> QED
    BY <2>1 DEF Elsewhere, JobOK, Queued
<1>2. \A e \in Children : ChildOK(e)'
  <2> SUFFICES ASSUME NEW e \in Children, e \notin K PROVE ChildOK(e)'
    OBVIOUS
  <2>1. child'[e] = child[e] /\ beat'[e] = beat[e] /\ ChildOK(e)
    BY DEF SerialInv
  <2>2. CASE ~Busy(e)
    BY <2>1, <2>2 DEF ChildOK, Busy
  <2>3. CASE Busy(e)
    <3>1. child[e].job \in Jobs /\ child[e].job \notin S
      BY <2>3, BusyChild DEF Busy
    <3>2. Elsewhere(child[e].job)
      BY <3>1
    <3> QED
      BY <2>1, <3>2 DEF ChildOK, Busy, Owned, Advancing, Delivered, Elsewhere
  <2> QED
    BY <2>2, <2>3
<1> QED
  BY <1>1, <1>2 DEF SerialInv

\* A step that touches some jobs, and no child.
LEMMA SerialOn ==
  ASSUME TypeOK, TypeOK', SerialInv, NEW j \in Jobs, NEW k \in Jobs,
         \A i \in Jobs : i # j /\ i # k => Elsewhere(i),
         JobOK(j)', JobOK(k)',
         UNCHANGED <<child, beat>>,
         \A e \in Children : Busy(e) => child[e].job # j /\ child[e].job # k,
         Apart',
         \A s \in Sweepers : SweepOK(s)',
         \A c \in Clients : ClientOK(c)'
  PROVE  SerialInv'
<1> DEFINE S == {j, k}
           K == {}
<1>1. \A i \in Jobs : /\ i \notin S => Elsewhere(i)
                      /\ i \in S => JobOK(i)'
  OBVIOUS
<1>2. \A e \in Children : /\ e \notin K => child'[e] = child[e] /\ beat'[e] = beat[e]
                                         /\ (Busy(e) => child[e].job \notin S)
                          /\ e \in K => ChildOK(e)'
  OBVIOUS
<1> HIDE DEF S, K
<1> QED
  BY <1>1, <1>2, SerialStep

\* Children that go on, or stop, stay apart.
LEMMA StayApart ==
  ASSUME Apart,
         \A e \in Children : child'[e].pc # "idle" => Busy(e) /\ child'[e].job = child[e].job
  PROVE  Apart'
BY DEF Apart, Busy

\* Sessions that are closed have read nothing.
LEMMA ClosedSessions ==
  ASSUME \A s \in Sweepers : DOMAIN sweep'[s] = {},
         \A c \in Clients : client'[c].job = NoJob
  PROVE  (\A s \in Sweepers : SweepOK(s)') /\ (\A c \in Clients : ClientOK(c)')
BY DEF SweepOK, ClientOK

\* A job that is not over yet, whatever is written to it, has not been reopened.
LEMMA NotEndedYet ==
  ASSUME NEW j \in Jobs, job[j].status \notin Terminal
  PROVE  StaysEnded(j)
BY DEF StaysEnded

\* Nothing is undone that has ended, save a research job its child advances.
EndsKept == \A j \in Jobs : Source[j] # "research" => StaysEnded(j)


\* The requests of the API on rows nobody works for.
LEMMA RequestsSerial ==
  ASSUME TypeOK, TypeOK', SerialInv, ~Interleaved,
         \/ \E j \in Jobs : Enqueue(j) \/ Delete(j)
         \/ \E j, k \in Jobs : Retry(j, k)
  PROVE  SerialInv' /\ EndsKept
<1>a. \A j \in Jobs : job[j] \in Row /\ JobOK(j)
  BY DEF SerialInv, TypeOK
<1>b. \A e \in Children : ChildOK(e)
  BY DEF SerialInv
<1>q. Quiet
  BY DEF Enqueue, Delete, Retry
<1>c. /\ \A s \in Sweepers : DOMAIN sweep[s] = {}
      /\ \A c \in Clients : client[c].job = NoJob
      /\ \A e \in Children : beat[e] = NoJob /\ child[e].pc \notin {"completing", "failing"}
  BY <1>q, QuietMeansClosed
<1>d. UNCHANGED <<child, beat, sweep, client>>
  BY DEF Enqueue, Delete, Retry
<1>e. (\A s \in Sweepers : SweepOK(s)') /\ (\A c \in Clients : ClientOK(c)')
  BY <1>c, <1>d, ClosedSessions
<1>f. Apart'
  BY <1>d, StayApart DEF SerialInv, Busy
<1>1. ASSUME NEW j \in Jobs, Enqueue(j) PROVE SerialInv' /\ EndsKept
  <2>1. \A i \in Jobs : job'[i] = IF i = j THEN WithStatus(job[j], "queued") ELSE job[i]
    BY <1>1 DEF Enqueue, NewJob, TypeOK
  <2>2. job[j] = FreshRow /\ job[j].status = "none" /\ retriedBy[j] = NoJob
    BY <1>1, <1>a DEF Enqueue, JobOK
  <2>3. job'[j].status = "queued" /\ job'[j].attempt = 0 /\ ~job'[j].cancelReq
    BY <2>1, <2>2 DEF WithStatus, FreshRow
  <2>4. JobOK(j)'
    BY <1>1, <1>a, <2>2, <2>3, BudgetAssumption
       DEF Enqueue, JobOK, Queued, VerifiedBy, Terminal, KeepsDetails
  <2>5. \A i \in Jobs : i # j => Elsewhere(i)
    BY <1>1, <2>1 DEF Enqueue, NewJob, VerifiedBy, Elsewhere, TypeOK
  <2>6. \A e \in Children : Busy(e) => child[e].job # j
    BY <1>b, <2>2 DEF ChildOK, Owned, Advancing
  <2>7. SerialInv'
    BY <1>d, <1>e, <1>f, <2>4, <2>5, <2>6, SerialOn
  <2>8. EndsKept
    BY <2>1, <2>2 DEF EndsKept, StaysEnded, Terminal
  <2> QED
    BY <2>7, <2>8
<1>2. ASSUME NEW j \in Jobs, Delete(j) PROVE SerialInv' /\ EndsKept
  <2> DEFINE K == {e \in Children : Busy(e) /\ child[e].job = j}
  <2>1. \A i \in Jobs : job'[i] = IF i = j THEN WithStatus(job[j], "deleted") ELSE job[i]
    BY <1>2 DEF Delete, TypeOK
  <2>2. job[j].status \in Terminal /\ job'[j].status = "deleted" /\ job'[j].attempt = job[j].attempt
    BY <1>2, <1>a, <2>1, RowColumns DEF Delete
  <2>3. JobOK(j)'
    BY <1>2, <1>a, <2>2, JobsAssumption DEF Delete, JobOK, Queued, Terminal, TypeOK
  <2>4. \A i \in Jobs : i \notin {j} => Elsewhere(i)
    BY <1>2, <2>1, JobsAssumption DEF Delete, Elsewhere, TypeOK
  <2>5. ASSUME NEW e \in K PROVE ChildOK(e)'
    <3>1. e \in Children /\ Busy(e) /\ child[e].job = j /\ ChildOK(e)
      BY <1>b
    <3>2. Advancing(e)
      BY <2>2, <3>1 DEF ChildOK, Owned, Terminal
    <3> QED
      BY <1>c, <1>d, <2>2, <3>1, <3>2 DEF ChildOK, Busy, Advancing
  <2>6. SerialInv'
    <3>1. \A e \in Children : e \notin K =>
            child'[e] = child[e] /\ beat'[e] = beat[e] /\ (Busy(e) => child[e].job \notin {j})
      BY <1>d
    <3>2. \A e \in Children : e \in K => ChildOK(e)'
      BY <2>5
    <3>3. \A i \in Jobs : i \in {j} => JobOK(i)'
      BY <2>3, Zenon
    <3> HIDE DEF K
    <3> QED
      BY <1>e, <1>f, <2>4, <3>1, <3>2, <3>3, SerialStep, Zenon
  <2>7. EndsKept
    BY <2>1, <2>2 DEF EndsKept, StaysEnded
  <2> QED
    BY <2>6, <2>7
<1>3. ASSUME NEW j \in Jobs, NEW k \in Jobs, Retry(j, k) PROVE SerialInv' /\ EndsKept
  <2>1. \A i \in Jobs : job'[i] = IF i = k THEN WithStatus(job[k], "queued") ELSE job[i]
    BY <1>3 DEF Retry, NewJob, TypeOK
  <2>2. /\ job[k] = FreshRow /\ job[k].status = "none" /\ retriedBy[k] = NoJob
        /\ job[j].status = "failed" /\ k # j
    BY <1>3, <1>a DEF Retry, JobOK
  <2>3. job'[k].status = "queued" /\ job'[k].attempt = 0 /\ ~job'[k].cancelReq
    BY <2>1, <2>2 DEF WithStatus, FreshRow
  <2>4. /\ retriedBy'[k] = NoJob /\ Source[j] # "research"
        /\ run'[j] = run[j] /\ details' = details /\ trial' = trial
        /\ verif'.run = j => verif.run = j /\ verif' = verif
        /\ verif'.run = k => verif' = verif \/ (Source[k] = "verification" /\ verif'.status = "queued")
    BY <1>3, <2>2 DEF Retry, NewJob, VerifiedBy, TypeOK
  <2>5. JobOK(k)'
    BY <1>a, <2>2, <2>3, <2>4, BudgetAssumption DEF JobOK, Queued, Terminal, KeepsDetails
  <2>6. JobOK(j)'
    BY <1>a, <2>1, <2>2, <2>4 DEF JobOK, Queued, Terminal
  <2>7. \A i \in Jobs : i # j /\ i # k => Elsewhere(i)
    BY <1>3, <2>1 DEF Retry, NewJob, VerifiedBy, Elsewhere, TypeOK
  <2>8. \A e \in Children : Busy(e) => child[e].job # j /\ child[e].job # k
    BY <1>b, <2>2 DEF ChildOK, Owned, Advancing
  <2>9. SerialInv'
    BY <1>d, <1>e, <1>f, <2>5, <2>6, <2>7, <2>8, SerialOn
  <2>10. EndsKept
    BY <2>1, <2>2 DEF EndsKept, StaysEnded, Terminal
  <2> QED
    BY <2>9, <2>10
<1> QED
  BY <1>1, <1>2, <1>3

\* Cancel requests: the row a client writes is the row it read.
LEMMA CancelsSerial ==
  ASSUME TypeOK, TypeOK', SerialInv, ~Interleaved,
         NEW c \in Clients, CancelWrite(c) \/ \E j \in Jobs : CancelRead(c, j)
  PROVE  SerialInv' /\ EndsKept
<1>a. \A j \in Jobs : job[j] \in Row /\ JobOK(j)
  BY DEF SerialInv, TypeOK
<1>b. \A e \in Children : ChildOK(e)
  BY DEF SerialInv
<1>d. UNCHANGED <<child, beat, sweep>>
  BY DEF CancelWrite, CancelRead
<1>f. Apart'
  BY <1>d, StayApart DEF SerialInv, Busy
<1>1. ASSUME NEW j \in Jobs, CancelRead(c, j) PROVE SerialInv' /\ EndsKept
  <2>1. /\ \A s \in Sweepers : DOMAIN sweep[s] = {}
        /\ \A b \in Clients : client[b].job = NoJob
    BY <1>1, QuietMeansClosed DEF CancelRead
  <2>2. \A b \in Clients : client'[b] = IF b = c THEN [job |-> j, seen |-> job[j]] ELSE client[b]
    BY <1>1 DEF CancelRead, TypeOK
  <2>3. UNCHANGED <<job, run, details, trial, verif, retriedBy>> /\ job[j].status \in {"queued", "running"}
    BY <1>1 DEF CancelRead
  <2>4. (\A s \in Sweepers : SweepOK(s)') /\ (\A b \in Clients : ClientOK(b)')
    BY <1>d, <2>1, <2>2, <2>3 DEF SweepOK, ClientOK
  <2>5. \A i \in Jobs : Elsewhere(i) /\ JobOK(i)'
    BY <1>a, <2>3 DEF Elsewhere, JobOK, Queued
  <2>6. \A e \in Children : ChildOK(e)'
    BY <1>b, <1>d, <2>3 DEF ChildOK, Busy, Owned, Advancing, Delivered
  <2>7. EndsKept
    BY <2>3 DEF EndsKept, StaysEnded
  <2> QED
    BY <1>f, <2>4, <2>5, <2>6, <2>7 DEF SerialInv
<1>2. ASSUME CancelWrite(c) PROVE SerialInv' /\ EndsKept
  <2>0. PICK j \in Jobs : j = client[c].job
    BY <1>2 DEF CancelWrite, TypeOK, Request
  <2> DEFINE K == {e \in Children : Busy(e) /\ child[e].job = j}
  <2>1. /\ j = client[c].job /\ j # NoJob
        /\ client[c].seen = job[j] /\ job[j].status \in {"queued", "running"}
    BY <1>2, <2>0 DEF CancelWrite, SerialInv, ClientOK
  <2>2. /\ \A s \in Sweepers : DOMAIN sweep[s] = {}
        /\ \A b \in Clients : b # c => client[b].job = NoJob
        /\ \A e \in Children : beat[e] = NoJob /\ child[e].pc \notin {"completing", "failing"}
    BY <1>2, AloneMeansClosed DEF CancelWrite
  <2>3. \A b \in Clients : client'[b].job = NoJob
    BY <1>2, <2>2 DEF CancelWrite, NoRequest, TypeOK
  <2>4. (\A s \in Sweepers : SweepOK(s)') /\ (\A b \in Clients : ClientOK(b)')
    BY <1>d, <2>2, <2>3, ClosedSessions
  <2>5. Flush(job[j], job[j], CancelMarked(job[j])) = CancelMarked(job[j])
    BY <1>a, <2>1, FlushUnchanged, RowUpdates
  <2>6. \A i \in Jobs : job'[i] = IF i = j THEN CancelMarked(job[j]) ELSE job[i]
    BY <1>2, <2>1, <2>5 DEF CancelWrite, TypeOK
  <2>7. /\ job'[j].status = IF job[j].status = "queued" THEN "cancelled" ELSE "running"
        /\ job'[j].attempt = job[j].attempt /\ job'[j].lease = job[j].lease
    BY <2>1, <2>6 DEF CancelMarked
  <2>8. /\ details' = details /\ retriedBy' = retriedBy
        /\ job[j].status = "queued" => CancelQueued(j)
        /\ job[j].status # "queued" => UNCHANGED <<run, trial, verif>>
    BY <1>2, <2>1 DEF CancelWrite
  <2>9. JobOK(j)'
    <3>1. JobOK(j) /\ job[j].status \in {"queued", "running"}
      BY <1>a, <2>1
    <3>2. CASE job[j].status = "queued"
      <4>1. run'[j] = "cancelled" /\ (Source[j] = "research" => trial'[j] = "cancelled")
            /\ (verif'.run = j => verif.run = j)
            /\ (verif'.run = j /\ verif'.status = "completed" => verif' = verif)
        BY <2>1, <2>8, <3>2 DEF CancelQueued, TrialEnds, TypeOK
      <4> QED
        BY <2>7, <2>8, <3>1, <3>2, <4>1 DEF JobOK, Queued, Terminal
    <3>3. CASE job[j].status = "running"
      BY <2>7, <2>8, <3>1, <3>3 DEF JobOK, Queued, Terminal
    <3> QED
      BY <3>1, <3>2, <3>3
  <2>10. \A i \in Jobs : i \notin {j} => Elsewhere(i)
    BY <2>1, <2>6, <2>8 DEF CancelQueued, TrialEnds, Elsewhere, TypeOK
  <2>11. \A e \in Children : e \in K => ChildOK(e)'
    <3> SUFFICES ASSUME NEW e \in Children, Busy(e), child[e].job = j PROVE ChildOK(e)'
      OBVIOUS
    <3>1. ChildOK(e) /\ beat[e] = NoJob /\ child[e].pc \notin {"completing", "failing"}
      BY <1>b, <2>2
    <3>2. Owned(e) /\ ~Advancing(e)
      BY <2>1, <3>1 DEF ChildOK, Advancing
    <3>3. Owned(e)'
      BY <1>d, <2>7, <3>2 DEF Owned
    <3>4. Delivered(e) => Delivered(e)'
      BY <1>d, <2>8, <3>2 DEF Delivered, Owned
    <3> QED
      BY <1>d, <3>1, <3>2, <3>3, <3>4 DEF ChildOK, Busy
  <2>12. \A e \in Children : e \notin K =>
           child'[e] = child[e] /\ beat'[e] = beat[e] /\ (Busy(e) => child[e].job \notin {j})
    BY <1>d
  <2>13. \A i \in Jobs : i \in {j} => JobOK(i)'
    BY <2>9, Zenon
  <2>14. SerialInv'
    <3> HIDE DEF K
    <3> QED
      BY <1>f, <2>4, <2>10, <2>11, <2>12, <2>13, SerialStep, Zenon
  <2>15. EndsKept
    BY <2>1, <2>6 DEF EndsKept, StaysEnded, Terminal
  <2> QED
    BY <2>14, <2>15
<1> QED
  BY <1>1, <1>2

\* Leases: a lease runs out only where nobody works, and a sweep finds the rows
\* it writes as it read them.
LEMMA SweepsSerial ==
  ASSUME TypeOK, TypeOK', SerialInv, ~Interleaved, ~LateChildren,
         \/ \E j \in Jobs : LeaseExpires(j)
         \/ \E s \in Sweepers : SweepRead(s) \/ SweepWrite(s)
  PROVE  SerialInv' /\ EndsKept
<1>a. \A j \in Jobs : job[j] \in Row /\ JobOK(j)
  BY DEF SerialInv, TypeOK
<1>b. \A e \in Children : ChildOK(e)
  BY DEF SerialInv
<1>d. UNCHANGED <<child, beat, client>>
  BY DEF LeaseExpires, SweepRead, SweepWrite
<1>f. Apart'
  BY <1>d, StayApart DEF SerialInv, Busy
<1>1. ASSUME NEW j \in Jobs, LeaseExpires(j) PROVE SerialInv' /\ EndsKept
  <2>1. \A e \in Children : child[e].job # j
    BY <1>1 DEF LeaseExpires
  <2>2. /\ \A s \in Sweepers : DOMAIN sweep[s] = {}
        /\ \A c \in Clients : client[c].job = NoJob
    BY <1>1, QuietMeansClosed DEF LeaseExpires
  <2>3. \A i \in Jobs : job'[i] = IF i = j THEN WithLease(job[j], "expired") ELSE job[i]
    BY <1>1 DEF LeaseExpires, TypeOK
  <2>4. /\ job[j].status = "running" /\ job'[j].status = "running"
        /\ job'[j].attempt = job[j].attempt
        /\ UNCHANGED <<run, details, trial, verif, retriedBy, sweep>>
    BY <1>1, <1>a, <2>3, RowColumns DEF LeaseExpires
  <2>5. (\A s \in Sweepers : SweepOK(s)') /\ (\A c \in Clients : ClientOK(c)')
    BY <1>d, <2>2, <2>4, ClosedSessions
  <2>6. JobOK(j)'
    BY <1>a, <2>4 DEF JobOK, Queued, Terminal
  <2>7. \A i \in Jobs : i # j => Elsewhere(i)
    BY <2>3, <2>4 DEF Elsewhere
  <2>8. SerialInv'
    BY <1>d, <1>f, <2>1, <2>5, <2>6, <2>7, SerialOn
  <2>9. EndsKept
    BY <2>3, <2>4 DEF EndsKept, StaysEnded, Terminal
  <2> QED
    BY <2>8, <2>9
<1>2. ASSUME NEW s \in Sweepers, SweepRead(s) PROVE SerialInv' /\ EndsKept
  <2>1. /\ \A t \in Sweepers : DOMAIN sweep[t] = {}
        /\ \A c \in Clients : client[c].job = NoJob
    BY <1>2, QuietMeansClosed DEF SweepRead
  <2>2. \A t \in Sweepers : sweep'[t] = IF t = s THEN [j \in Due |-> job[j]] ELSE sweep[t]
    BY <1>2 DEF SweepRead, TypeOK
  <2>3. UNCHANGED <<job, run, details, trial, verif, retriedBy>>
    BY <1>2 DEF SweepRead
  <2>4. ASSUME NEW t \in Sweepers, NEW j \in DOMAIN sweep'[t]
        PROVE  sweep'[t][j] = job'[j] /\ job'[j].status = "running" /\ job'[j].lease = "expired"
    <3>1. t = s /\ sweep'[t] = [i \in Due |-> job[i]]
      BY <2>1, <2>2
    <3>2. j \in Due
      BY <3>1
    <3> QED
      BY <2>3, <3>1, <3>2 DEF Due
  <2>5. \A c \in Clients : ClientOK(c)'
    BY <1>d, <2>1 DEF ClientOK
  <2>6. \A i \in Jobs : JobOK(i)'
    BY <1>a, <2>3 DEF JobOK, Queued
  <2>7. \A e \in Children : ChildOK(e)'
    BY <1>b, <1>d, <2>3 DEF ChildOK, Busy, Owned, Advancing, Delivered
  <2>8. EndsKept
    BY <2>3 DEF EndsKept, StaysEnded
  <2> QED
    BY <1>f, <2>4, <2>5, <2>6, <2>7, <2>8 DEF SerialInv, SweepOK
<1>3. ASSUME NEW s \in Sweepers, SweepWrite(s) PROVE SerialInv' /\ EndsKept
  <2> DEFINE S == DOMAIN sweep[s]
             free(j) == Released(job[j], RecoveredStatus(job[j]))
  <2>1. /\ S \subseteq Jobs
        /\ \A j \in S : sweep[s][j] = job[j] /\ job[j].status = "running" /\ job[j].lease = "expired"
    BY DEF TypeOK, SweptRows, SerialInv, SweepOK
  <2>2. /\ \A t \in Sweepers : t # s => DOMAIN sweep[t] = {}
        /\ \A c \in Clients : client[c].job = NoJob
    BY <1>3, AloneMeansClosed DEF SweepWrite
  <2>3. \A t \in Sweepers : DOMAIN sweep'[t] = {}
    BY <1>3, <2>2 DEF SweepWrite, NoSweep, TypeOK
  <2>4. (\A t \in Sweepers : SweepOK(t)') /\ (\A c \in Clients : ClientOK(c)')
    BY <1>d, <2>2, <2>3, ClosedSessions
  <2>5. \A j \in S : Flush(job[j], job[j], free(j)) = free(j)
    BY <1>a, <2>1, FlushUnchanged, RowUpdates
  <2>6. \A i \in Jobs :
          /\ job'[i] = IF i \in S THEN free(i) ELSE job[i]
          /\ run'[i] = IF i \in S THEN RecoveredStatus(job[i]) ELSE run[i]
          /\ trial'[i] = IF i \in S /\ Source[i] = "research" /\ RecoveredStatus(job[i]) \in Terminal
                           THEN RecoveredStatus(job[i]) ELSE trial[i]
    <3> DEFINE status == [j \in S |-> RecoveredStatus(sweep[s][j])]
    <3>1. ~\E j \in S : job[j].status = "deleted"
      BY <2>1
    <3>2. /\ job' = [j \in Jobs |-> IF j \in S
                                     THEN Flush(job[j], sweep[s][j], Released(sweep[s][j], status[j]))
                                     ELSE job[j]]
          /\ run' = [j \in Jobs |-> IF j \in S THEN status[j] ELSE run[j]]
          /\ trial' = [j \in Jobs |-> IF j \in S /\ Source[j] = "research" /\ status[j] \in Terminal
                                       THEN status[j] ELSE trial[j]]
      BY <1>3, <3>1, Zenon DEF SweepWrite
    <3>3. \A j \in S : sweep[s][j] = job[j] /\ status[j] = RecoveredStatus(job[j])
      BY <2>1
    <3> HIDE DEF status, S
    <3>4. \A i \in Jobs : job'[i] = IF i \in S THEN free(i) ELSE job[i]
      BY <2>5, <3>2, <3>3
    <3>5. /\ \A i \in Jobs : run'[i] = IF i \in S THEN RecoveredStatus(job[i]) ELSE run[i]
          /\ \A i \in Jobs :
               trial'[i] = IF i \in S /\ Source[i] = "research" /\ RecoveredStatus(job[i]) \in Terminal
                             THEN RecoveredStatus(job[i]) ELSE trial[i]
      BY <3>2, <3>3
    <3> QED
      BY <3>4, <3>5
  <2>7. UNCHANGED <<details, verif, retriedBy>>
    BY <1>3 DEF SweepWrite
  <2>8. ASSUME NEW j \in S PROVE JobOK(j)'
    <3>1. j \in Jobs /\ job[j] \in Row /\ JobOK(j) /\ job[j].status = "running"
      BY <1>a, <2>1
    <3>2. /\ job'[j].status = RecoveredStatus(job[j])
          /\ job'[j].attempt = job[j].attempt /\ job'[j].cancelReq = job[j].cancelReq
      BY <2>6, <3>1, RowColumns
    <3>3. /\ run'[j] = RecoveredStatus(job[j])
          /\ Source[j] = "research" /\ RecoveredStatus(job[j]) \in Terminal
               => trial'[j] = RecoveredStatus(job[j])
      BY <2>6, <3>1
    <3>4. /\ RecoveredStatus(job[j]) \in {"cancelled", "queued", "failed"}
          /\ RecoveredStatus(job[j]) = "queued" => ~job[j].cancelReq /\ job[j].attempt < MaxAttempts
      BY DEF RecoveredStatus
    <3>5. retriedBy'[j] = NoJob /\ (verif'.run = j => Source[j] = "verification" /\ verif'.status # "completed")
      BY <2>7, <3>1 DEF JobOK
    <3>6. job'[j].attempt <= MaxAttempts
      BY <3>1, <3>2 DEF JobOK
    <3> QED
      BY <3>2, <3>3, <3>4, <3>5, <3>6 DEF JobOK, Queued, Terminal
  <2>9. \A i \in Jobs : i \notin S => Elsewhere(i)
    BY <2>6, <2>7 DEF Elsewhere
  <2>10. \A e \in Children : e \notin {} =>
           child'[e] = child[e] /\ beat'[e] = beat[e] /\ (Busy(e) => child[e].job \notin S)
    BY <1>b, <1>d, <2>1 DEF ChildOK, Owned, Advancing
  <2>11. SerialInv'
    <3> DEFINE K == {}
    <3>1. \A e \in Children : /\ e \notin K => child'[e] = child[e] /\ beat'[e] = beat[e]
                                                 /\ (Busy(e) => child[e].job \notin S)
                              /\ e \in K => ChildOK(e)'
      BY <2>10
    <3>2. \A i \in Jobs : i \in S => JobOK(i)'
      BY <2>8
    <3> HIDE DEF S, K
    <3> QED
      BY <1>f, <2>4, <2>9, <3>1, <3>2, SerialStep
  <2>12. EndsKept
    BY <2>1, <2>6 DEF EndsKept, StaysEnded, Terminal
  <2> QED
    BY <2>11, <2>12
<1> QED
  BY <1>1, <1>2, <1>3

\* A step of one busy child, on its own job.
LEMMA SerialChild ==
  ASSUME TypeOK, TypeOK', SerialInv, NEW e \in Children, Busy(e),
         NEW j \in Jobs, j = child[e].job,
         \A f \in Children : f # e => child'[f] = child[f] /\ beat'[f] = beat[f],
         child'[e].pc = "idle" \/ child'[e].job = j,
         \A i \in Jobs : i # j => Elsewhere(i),
         JobOK(j)', ChildOK(e)',
         \A s \in Sweepers : SweepOK(s)',
         \A c \in Clients : ClientOK(c)'
  PROVE  SerialInv'
<1> DEFINE S == {j}
           K == {e}
<1>1. \A i \in Jobs : /\ i \notin S => Elsewhere(i)
                      /\ i \in S => JobOK(i)'
  OBVIOUS
<1>2. \A f \in Children : /\ f \notin K => child'[f] = child[f] /\ beat'[f] = beat[f]
                                             /\ (Busy(f) => child[f].job \notin S)
                          /\ f \in K => ChildOK(f)'
  BY DEF SerialInv, Apart
<1>3. Apart'
  <2>1. \A f \in Children : child'[f].pc # "idle" => Busy(f) /\ child'[f].job = child[f].job
    BY DEF Busy
  <2> QED
    BY <2>1, StayApart DEF SerialInv
<1> HIDE DEF S, K
<1> QED
  BY <1>1, <1>2, <1>3, SerialStep

LocalSame(l, m) == l.job = m.job /\ l.attempt = m.attempt

\* What the moves of a child write to its local values.
LEMMA ChildMovesTo ==
  ASSUME TypeOK, NEW e \in Children, Busy(e)
  PROVE  /\ \A pc : Goto(e, pc) => child'[e].pc = pc /\ LocalSame(child'[e], child[e])
         /\ \A why : Raise(e, why) => child'[e].pc = "raised" /\ LocalSame(child'[e], child[e])
         /\ \A pc : Read(e, pc) => /\ child'[e].pc = pc /\ LocalSame(child'[e], child[e])
                                   /\ child'[e].seen = job[child[e].job]
         /\ Leave(e) => child'[e].pc = "idle"
         /\ (Leave(e) \/ \E x : Goto(e, x) \/ Raise(e, x) \/ Read(e, x))
              => \A f \in Children : f # e => child'[f] = child[f]
<1>1. child[e] \in Local
  BY BusyChild DEF Busy
<1>2. ASSUME NEW l, child' = [child EXCEPT ![e] = l]
      PROVE  child'[e] = l /\ \A f \in Children : f # e => child'[f] = child[f]
  BY <1>2 DEF TypeOK
<1>3. ASSUME NEW pc, Goto(e, pc)
      PROVE  /\ child'[e] = AtPC(child[e], pc)
             /\ \A f \in Children : f # e => child'[f] = child[f]
  BY <1>2, <1>3 DEF Goto
<1>4. ASSUME NEW why, Raise(e, why)
      PROVE  /\ child'[e] = Raised(child[e], why)
             /\ \A f \in Children : f # e => child'[f] = child[f]
  BY <1>2, <1>4 DEF Raise
<1>5. ASSUME NEW pc, Read(e, pc)
      PROVE  /\ child'[e] = Having(child[e], pc, job[child[e].job])
             /\ \A f \in Children : f # e => child'[f] = child[f]
  BY <1>2, <1>5 DEF Read
<1>6. ASSUME Leave(e)
      PROVE  child'[e] = Idle /\ \A f \in Children : f # e => child'[f] = child[f]
  BY <1>2, <1>6 DEF Leave
<1>7. /\ \A pc : AtPC(child[e], pc).pc = pc /\ LocalSame(AtPC(child[e], pc), child[e])
      /\ \A why : Raised(child[e], why).pc = "raised" /\ LocalSame(Raised(child[e], why), child[e])
      /\ \A pc, row : /\ Having(child[e], pc, row).pc = pc /\ Having(child[e], pc, row).seen = row
                      /\ LocalSame(Having(child[e], pc, row), child[e])
      /\ Idle.pc = "idle"
  BY <1>1 DEF AtPC, Raised, Having, Idle, LocalSame, Local
<1> QED
  BY <1>3, <1>4, <1>5, <1>6, <1>7

\* The steps of a child that leave the row as it is.
LEMMA EngineSerial ==
  ASSUME TypeOK, TypeOK', SerialInv, ~Interleaved, NEW e \in Children,
         \/ Begin(e) \/ StartPersisting(e) \/ EngineCancelled(e) \/ EngineRaises(e)
         \/ EngineCommits(e) \/ CompleteRead(e) \/ CompleteFails(e)
         \/ FinalizeExperiment(e) \/ FailRead(e)
  PROVE  SerialInv' /\ EndsKept
<1>1. Busy(e)
  BY DEF Busy, Begin, StartPersisting, EngineCancelled, EngineRaises, EngineCommits, CompleteRead,
         CompleteFails, FinalizeExperiment, FailRead, InEngine
<1>2. PICK j \in Jobs : j = child[e].job
  BY <1>1, BusyChild DEF Busy
<1>3. /\ UNCHANGED <<job, trial, verif, retriedBy, beat, sweep, client>>
      /\ Quiet \/ CompleteFails(e)
  BY DEF Engine, Begin, StartPersisting, EngineCancelled, EngineRaises, EngineCommits, CompleteRead,
         CompleteFails, FinalizeExperiment, FailRead
<1>4. /\ \A s \in Sweepers : DOMAIN sweep[s] = {}
      /\ \A c \in Clients : client[c].job = NoJob
      /\ beat[e] = NoJob
  BY <1>3, QuietMeansClosed, AloneMeansClosed DEF CompleteFails
<1>5. (\A s \in Sweepers : SweepOK(s)') /\ (\A c \in Clients : ClientOK(c)')
  BY <1>3, <1>4, ClosedSessions
<1>6. /\ JobOK(j) /\ ChildOK(e)
      /\ beat'[e] = NoJob
  BY <1>3, <1>4 DEF SerialInv
<1>7. Leave(e) \/ \E x : Goto(e, x) \/ Raise(e, x) \/ Read(e, x)
  BY DEF Begin, StartPersisting, EngineCancelled, EngineRaises, EngineCommits, CompleteRead,
         CompleteFails, FinalizeExperiment, FailRead
<1>8. \A f \in Children : f # e => child'[f] = child[f] /\ beat'[f] = beat[f]
  BY <1>1, <1>3, <1>7, ChildMovesTo
<1>9. child'[e].pc = "idle" \/ (child'[e].job = j /\ child'[e].attempt = child[e].attempt)
  BY <1>1, <1>2, <1>7, ChildMovesTo DEF LocalSame
\* What it tells of a run is told of the run it works for.
<1>10. \A i \in Jobs : i # j => run'[i] = run[i] /\ details'[i] = details[i]
  BY <1>2 DEF Begin, StartPersisting, EngineCancelled, EngineRaises, EngineCommits, CompleteRead,
              CompleteFails, FinalizeExperiment, FailRead, EngineEnds, TypeOK
<1>11. (run' = run /\ details' = details) \/ child[e].pc \in {"claimed", "computing", "persisting"}
  BY DEF Begin, StartPersisting, EngineCancelled, EngineRaises, EngineCommits, CompleteRead,
         CompleteFails, FinalizeExperiment, FailRead, InEngine
<1>12. JobOK(j)'
  <2>1. CASE run' = run /\ details' = details
    BY <1>3, <1>6, <2>1 DEF JobOK, Queued
  <2>2. CASE child[e].pc \in {"claimed", "computing", "persisting"}
    <3>1. job[j].status = "running"
      BY <1>1, <1>2, <1>6, <2>2 DEF ChildOK, Owned, Advancing
    <3> QED
      BY <1>3, <1>6, <3>1 DEF JobOK, Queued, Terminal
  <2> QED
    BY <1>11, <2>1, <2>2
<1>13. \A i \in Jobs : i # j => Elsewhere(i)
  BY <1>3, <1>10 DEF Elsewhere
<1>14. child'[e].pc # "idle" => (Owned(e) => Owned(e)')
  BY <1>2, <1>3, <1>9 DEF Owned
<1>15. child'[e].pc \in {"finishing", "raised", "failing"} => (Advancing(e) => Advancing(e)')
  BY <1>2, <1>3, <1>9 DEF Advancing
<1>16. CASE child'[e].pc \in {"idle", "claimed", "computing", "persisting"}
  <2>1. child'[e].pc # "idle" => Owned(e)
    BY <1>1, <1>6, <1>16, ChildMovesTo
       DEF ChildOK, Advancing, Begin, StartPersisting, EngineCancelled, EngineRaises, EngineCommits,
           CompleteRead, CompleteFails, FinalizeExperiment, FailRead
  <2>2. ChildOK(e)'
    BY <1>6, <1>14, <1>16, <2>1 DEF ChildOK, Busy
  <2> QED
    BY <1>1, <1>2, <1>3, <1>5, <1>8, <1>9, <1>12, <1>13, <2>2, SerialChild
       DEF EndsKept, StaysEnded
<1>17. CASE child'[e].pc = "raised"
  <2>1. Owned(e) \/ Advancing(e)
    BY <1>1, <1>6 DEF ChildOK
  <2>2. ChildOK(e)'
    BY <1>6, <1>14, <1>15, <1>17, <2>1 DEF ChildOK, Busy
  <2> QED
    BY <1>1, <1>2, <1>3, <1>5, <1>8, <1>9, <1>12, <1>13, <2>2, SerialChild
       DEF EndsKept, StaysEnded
<1>18. CASE child'[e].pc = "ran"
  <2>1. EngineCommits(e)
    BY <1>1, <1>18, ChildMovesTo
       DEF Begin, StartPersisting, EngineCancelled, EngineRaises, CompleteRead, CompleteFails,
           FinalizeExperiment, FailRead
  <2>2. Owned(e)
    BY <1>1, <1>6, <2>1 DEF ChildOK, Advancing, EngineCommits
  <2>3. /\ run'[j] = "completed"
        /\ KeepsDetails(j) => details'[j] = {child[e].attempt}
    BY <1>2, <2>1 DEF EngineCommits, TypeOK
  <2>4. Delivered(e)'
    BY <1>9, <1>18, <2>3 DEF Delivered, KeepsDetails
  <2>5. ChildOK(e)'
    BY <1>6, <1>14, <1>18, <2>2, <2>4 DEF ChildOK, Busy
  <2> QED
    BY <1>1, <1>2, <1>3, <1>5, <1>8, <1>9, <1>12, <1>13, <2>5, SerialChild
       DEF EndsKept, StaysEnded
<1>19. CASE child'[e].pc \in {"completing", "failing"}
  <2>1. CompleteRead(e) \/ FailRead(e)
    BY <1>1, <1>19, ChildMovesTo
       DEF Begin, StartPersisting, EngineCancelled, EngineRaises, EngineCommits, CompleteFails,
           FinalizeExperiment
  <2>2. /\ child'[e].seen = job[j] /\ job[j].status # "deleted"
        /\ run' = run /\ details' = details
    BY <1>1, <1>2, <1>19, <2>1, ChildMovesTo DEF CompleteRead, FailRead, Gone
  <2>3. child'[e].pc = "completing" => Owned(e) /\ Delivered(e)
    BY <1>1, <1>6, <1>19, <2>1, ChildMovesTo DEF CompleteRead, FailRead, ChildOK, Advancing
  <2>4. child'[e].pc = "completing" => Delivered(e)'
    BY <1>2, <1>9, <2>2, <2>3 DEF Delivered, KeepsDetails
  <2>5. Owned(e) \/ Advancing(e)
    BY <1>1, <1>6 DEF ChildOK
  <2>6. child'[e].seen = job'[child'[e].job] /\ job'[child'[e].job].status # "deleted"
    BY <1>3, <1>9, <1>19, <2>2
  <2>7. ChildOK(e)'
    BY <1>6, <1>14, <1>15, <1>19, <2>3, <2>4, <2>5, <2>6 DEF ChildOK, Busy
  <2> QED
    BY <1>1, <1>2, <1>3, <1>5, <1>8, <1>9, <1>12, <1>13, <2>7, SerialChild
       DEF EndsKept, StaysEnded
<1>20. child'[e].pc # "finishing"
  BY <1>1, ChildMovesTo
     DEF Begin, StartPersisting, EngineCancelled, EngineRaises, EngineCommits, CompleteRead,
         CompleteFails, FinalizeExperiment, FailRead
<1>21. child'[e].pc \in ChildPC
  BY DEF TypeOK, Local
<1> QED
  BY <1>16, <1>17, <1>18, <1>19, <1>20, <1>21 DEF ChildPC

\* The terminal commits of a child: the row it writes is the row it read.
LEMMA CommitsSerial ==
  ASSUME TypeOK, TypeOK', SerialInv, ~Interleaved, NEW e \in Children,
         CompleteWrite(e) \/ FailWrite(e)
  PROVE  SerialInv' /\ EndsKept
<1>1. Busy(e) /\ MayRun(<<"child", e>>) /\ child[e].pc \in {"completing", "failing"}
  BY DEF Busy, CompleteWrite, FailWrite
<1>2. PICK j \in Jobs : j = child[e].job
  BY <1>1, BusyChild DEF Busy
<1>3. /\ \A s \in Sweepers : DOMAIN sweep[s] = {}
      /\ \A c \in Clients : client[c].job = NoJob
      /\ beat[e] = NoJob
  BY <1>1, AloneMeansClosed
<1>4. UNCHANGED <<details, retriedBy, beat, sweep, client>>
  BY DEF CompleteWrite, FailWrite
<1>5. (\A s \in Sweepers : SweepOK(s)') /\ (\A c \in Clients : ClientOK(c)')
  BY <1>3, <1>4, ClosedSessions
<1>6. /\ JobOK(j) /\ ChildOK(e) /\ job[j] \in Row
      /\ child[e].seen = job[j] /\ job[j].status # "deleted"
      /\ Owned(e) \/ Advancing(e)
  BY <1>1, <1>2 DEF SerialInv, ChildOK, TypeOK
<1>7. \A f \in Children : f # e => child'[f] = child[f] /\ beat'[f] = beat[f]
  BY <1>1, <1>4, ChildMovesTo DEF CompleteWrite, FailWrite
<1>8. ASSUME CompleteWrite(e) PROVE SerialInv' /\ EndsKept
  <2>1. Owned(e) /\ Delivered(e)
    BY <1>6, <1>8 DEF CompleteWrite, ChildOK, Advancing
  <2>2. job[j].status = "running" /\ job[j].attempt = child[e].attempt
    BY <1>2, <2>1 DEF Owned
  <2>3. Flush(job[j], job[j], Completed(job[j])) = Completed(job[j])
    BY <1>6, FlushUnchanged, RowUpdates
  <2>4. \A i \in Jobs : job'[i] = IF i = j THEN Completed(job[j]) ELSE job[i]
    BY <1>2, <1>6, <1>8, <2>3 DEF CompleteWrite, Gone, TypeOK
  <2>5. job'[j].status = "completed" /\ job'[j].attempt = job[j].attempt
    BY <1>6, <2>4, RowColumns
  <2>6. /\ run' = run /\ TrialEnds(j, "completed")
        /\ verif' = IF Source[j] = "verification"
                      THEN [status |-> "completed", run |-> j] ELSE verif
    BY <1>2, <1>6, <1>8 DEF CompleteWrite, Gone
  <2>7. run'[j] = "completed" /\ (KeepsDetails(j) => details'[j] = {job'[j].attempt})
    BY <1>2, <1>4, <2>1, <2>2, <2>5, <2>6 DEF Delivered
  <2>8. /\ Source[j] = "research" => trial'[j] = "completed"
        /\ retriedBy'[j] = NoJob
        /\ verif'.run = j => Source[j] = "verification"
    BY <1>4, <1>6, <2>2, <2>6 DEF JobOK, TrialEnds, TypeOK
  <2>9. JobOK(j)'
    BY <1>6, <2>2, <2>5, <2>7, <2>8 DEF JobOK, Queued, Terminal, KeepsDetails
  <2>10. \A i \in Jobs : i # j => Elsewhere(i)
    BY <1>4, <2>4, <2>6 DEF Elsewhere, TrialEnds, TypeOK
  <2>11. /\ child'[e].pc \in {"finishing", "idle"}
         /\ child'[e].pc = "finishing" => Source[j] = "research" /\ child'[e].job = j
    BY <1>1, <1>2, <1>8, ChildMovesTo DEF CompleteWrite, LocalSame
  <2>12. ChildOK(e)'
    <3>1. beat'[e] = NoJob
      BY <1>3, <1>4
    <3> QED
      BY <2>5, <2>11, <3>1 DEF ChildOK, Busy, Advancing
  <2>13. SerialInv'
    BY <1>1, <1>2, <1>5, <1>7, <2>9, <2>10, <2>11, <2>12, SerialChild
  <2>14. EndsKept
    BY <2>2, <2>4 DEF EndsKept, StaysEnded, Terminal
  <2> QED
    BY <2>13, <2>14
<1>9. ASSUME FailWrite(e) PROVE SerialInv' /\ EndsKept
  <2>1. PICK status \in {"cancelled", "failed", "queued"} :
          /\ status = FailedStatus(child[e].why, job[j])
          /\ status = "queued" => ~job[j].cancelReq /\ job[j].attempt < MaxAttempts
    BY DEF FailedStatus
  <2>2. Flush(job[j], job[j], Released(job[j], status)) = Released(job[j], status)
    BY <1>6, FlushUnchanged, RowUpdates DEF Status, Terminal
  <2>3. \A i \in Jobs : job'[i] = IF i = j THEN Released(job[j], status) ELSE job[i]
    BY <1>2, <1>6, <1>9, <2>1, <2>2 DEF FailWrite, Gone, TypeOK
  <2>4. /\ job'[j].status = status /\ job'[j].attempt = job[j].attempt
        /\ job'[j].cancelReq = job[j].cancelReq
    BY <1>6, <2>3, RowColumns
  <2>5. /\ run' = [run EXCEPT ![j] = status]
        /\ IF status \in Terminal THEN TrialEnds(j, status) ELSE trial' = trial
        /\ VerificationEnds(j, child[e].why, status)
    BY <1>2, <1>6, <1>9, <2>1 DEF FailWrite, Gone
  <2>6. job[j].status = "running" \/ (Source[j] = "research" /\ job[j].status = "completed")
    BY <1>2, <1>6 DEF Owned, Advancing
  <2>7. /\ run'[j] = status
        /\ Source[j] = "research" /\ status \in Terminal => trial'[j] = status
    BY <2>5 DEF TrialEnds, TypeOK
  <2>8. child[e].why = "verification" => status # "queued"
    BY <2>1 DEF FailedStatus
  <2>9. /\ verif' = verif \/ (verif'.run = verif.run /\ verif'.status # "completed")
        /\ Source[j] # "verification" => verif' = verif
    BY <2>1, <2>5 DEF VerificationEnds, TypeOK
  <2>10. /\ retriedBy'[j] = NoJob
         /\ verif'.run = j => Source[j] = "verification" /\ verif'.status # "completed"
    BY <1>4, <1>6, <2>6, <2>9 DEF JobOK
  <2>11. JobOK(j)'
    BY <1>6, <2>1, <2>4, <2>7, <2>10 DEF JobOK, Queued, Terminal
  <2>12. \A i \in Jobs : i # j => Elsewhere(i)
    BY <1>4, <2>3, <2>5, <2>9 DEF Elsewhere, TrialEnds, TypeOK
  <2>13. child'[e].pc = "idle"
    BY <1>1, <1>9, ChildMovesTo DEF FailWrite
  <2>14. ChildOK(e)'
    <3>1. beat'[e] = NoJob
      BY <1>3, <1>4
    <3> QED
      BY <2>13, <3>1 DEF ChildOK, Busy
  <2>15. SerialInv'
    BY <1>1, <1>2, <1>5, <1>7, <2>11, <2>12, <2>13, <2>14, SerialChild
  <2>16. EndsKept
    BY <2>3, <2>6 DEF EndsKept, StaysEnded, Terminal
  <2> QED
    BY <2>15, <2>16
<1> QED
  BY <1>8, <1>9

\* A claim finds a row nobody works for, and no row that waits is cancelled.
LEMMA ClaimSerial ==
  ASSUME TypeOK, TypeOK', SerialInv, ~Interleaved,
         NEW e \in Children, NEW j \in Jobs, Claim(e, j) \/ ClaimCancelled(e, j)
  PROVE  SerialInv' /\ EndsKept
<1>1. JobOK(j) /\ job[j] \in Row /\ Queued(j) /\ Quiet
  BY DEF SerialInv, TypeOK, Claim, ClaimCancelled
<1>2. Claim(e, j)
  BY <1>1 DEF ClaimCancelled, JobOK
<1>3. /\ \A s \in Sweepers : DOMAIN sweep[s] = {}
      /\ \A c \in Clients : client[c].job = NoJob
      /\ \A f \in Children : beat[f] = NoJob
  BY <1>1, QuietMeansClosed
<1>4. UNCHANGED <<details, trial, verif, retriedBy, beat, sweep, client>>
  BY <1>2 DEF Claim
<1>5. (\A s \in Sweepers : SweepOK(s)') /\ (\A c \in Clients : ClientOK(c)')
  BY <1>3, <1>4, ClosedSessions
<1>6. \A i \in Jobs : /\ job'[i] = IF i = j THEN Claimed(job[j], Coordinator[e]) ELSE job[i]
                      /\ i # j => run'[i] = run[i]
  BY <1>2 DEF Claim, TypeOK
<1>7. /\ job'[j].status = "running" /\ job'[j].lease = "live"
      /\ job'[j].attempt = job[j].attempt + 1
  BY <1>6 DEF Claimed
<1>8. \A f \in Children :
        child'[f] = IF f = e THEN Holding(j, job[j].attempt + 1) ELSE child[f]
  BY <1>2 DEF Claim, TypeOK
<1>9. \A f \in Children : Busy(f) => child[f].job # j
  BY <1>1 DEF SerialInv, ChildOK, Owned, Advancing, Queued
<1>10. JobOK(j)'
  <2>1. job[j].attempt < MaxAttempts /\ job[j].attempt \in Nat
    BY <1>1, RowColumns DEF JobOK
  <2>2. job'[j].attempt <= MaxAttempts
    BY <1>7, <2>1, BudgetAssumption
  <2>3. retriedBy'[j] = NoJob /\ (verif'.run = j => Source[j] = "verification" /\ verif'.status # "completed")
    BY <1>1, <1>4 DEF JobOK, Queued
  <2> QED
    BY <1>7, <2>2, <2>3 DEF JobOK, Queued, Terminal
<1>11. \A i \in Jobs : i # j => Elsewhere(i)
  BY <1>4, <1>6 DEF Elsewhere
<1>12. ChildOK(e)'
  BY <1>3, <1>4, <1>7, <1>8 DEF ChildOK, Busy, Owned, Holding
<1>13. Apart'
  BY <1>8, <1>9 DEF SerialInv, Apart, Busy, Holding
<1> DEFINE S == {j}
           K == {e}
<1>14. \A i \in Jobs : /\ i \notin S => Elsewhere(i)
                       /\ i \in S => JobOK(i)'
  BY <1>10, <1>11
<1>15. \A f \in Children : /\ f \notin K => child'[f] = child[f] /\ beat'[f] = beat[f]
                                              /\ (Busy(f) => child[f].job \notin S)
                           /\ f \in K => ChildOK(f)'
  BY <1>4, <1>8, <1>9, <1>12
<1>16. SerialInv'
  <2> HIDE DEF S, K
  <2> QED
    BY <1>5, <1>13, <1>14, <1>15, SerialStep
<1>17. EndsKept
  BY <1>1, <1>6 DEF EndsKept, StaysEnded, Queued, Terminal
<1> QED
  BY <1>16, <1>17

\* Heartbeats renew the lease of a row whose lease still runs.
LEMMA HeartbeatsSerial ==
  ASSUME TypeOK, TypeOK', SerialInv, ~Interleaved,
         NEW e \in Children, HeartbeatCheck(e) \/ HeartbeatWrite(e)
  PROVE  SerialInv' /\ EndsKept
<1>1. UNCHANGED <<run, details, trial, verif, retriedBy, child, sweep, client>>
  BY DEF HeartbeatCheck, HeartbeatWrite
<1>2. /\ \A s \in Sweepers : DOMAIN sweep[s] = {}
      /\ \A c \in Clients : client[c].job = NoJob
  BY QuietMeansClosed, AloneMeansClosed DEF HeartbeatCheck, HeartbeatWrite
<1>3. (\A s \in Sweepers : SweepOK(s)') /\ (\A c \in Clients : ClientOK(c)')
  BY <1>1, <1>2, ClosedSessions
<1>4. /\ \A i \in Jobs : JobOK(i) /\ job[i] \in Row
      /\ \A f \in Children : ChildOK(f)
  BY DEF SerialInv, TypeOK
<1>5. Apart'
  BY <1>1, StayApart DEF SerialInv, Busy
<1>6. job' = job
  <2>1. CASE HeartbeatCheck(e)
    BY <2>1 DEF HeartbeatCheck
  <2>2. CASE HeartbeatWrite(e)
    <3>1. beat[e] \in Jobs /\ beat[e] = child[e].job /\ Owned(e)
      BY <1>4, <2>2 DEF HeartbeatWrite, ChildOK, TypeOK
    <3>2. job[beat[e]] \in Row /\ job[beat[e]].lease = "live"
      BY <1>4, <3>1 DEF Owned
    <3>3. WithLease(job[beat[e]], "live") = job[beat[e]]
      BY <3>2 DEF WithLease, Row
    <3>4. job' = job \/ job' = [job EXCEPT ![beat[e]] = job[beat[e]]]
      BY <2>2, <3>3 DEF HeartbeatWrite
    <3> QED
      BY <3>1, <3>4 DEF TypeOK
  <2> QED
    BY <2>1, <2>2
<1>7. \A i \in Jobs : JobOK(i)'
  BY <1>1, <1>4, <1>6 DEF JobOK, Queued
<1>8. ASSUME NEW f \in Children PROVE ChildOK(f)'
  <2>1. beat'[f] \in {NoJob, beat[f]} \/ (f = e /\ HeartbeatCheck(e) /\ beat'[f] = child[f].job)
    BY DEF HeartbeatCheck, HeartbeatWrite, TypeOK
  <2>2. f = e /\ HeartbeatCheck(e) => Busy(f) /\ Owned(f)
    BY <1>4 DEF HeartbeatCheck, Beating, Busy, ChildOK, Advancing
  <2> QED
    BY <1>1, <1>4, <1>6, <2>1, <2>2 DEF ChildOK, Busy, Owned, Advancing, Delivered, KeepsDetails
<1>9. EndsKept
  BY <1>6 DEF EndsKept, StaysEnded
<1> QED
  BY <1>3, <1>5, <1>7, <1>8, <1>9 DEF SerialInv

\* A crash takes its children out of the game, and writes nothing.
LEMMA CrashSerial ==
  ASSUME TypeOK, TypeOK', SerialInv, ~Interleaved,
         (\E w \in Coordinators : Crash(w)) \/ UNCHANGED vars
  PROVE  SerialInv' /\ EndsKept
<1>1. UNCHANGED <<job, run, details, trial, verif, retriedBy, sweep, client>>
  BY DEF Crash, vars
<1>2. \A f \in Children : \/ child'[f] = child[f] /\ beat'[f] = beat[f]
                          \/ child'[f] = Idle /\ beat'[f] = NoJob
  BY DEF Crash, vars
<1>3. /\ \A s \in Sweepers : SweepOK(s)'
      /\ \A c \in Clients : ClientOK(c)'
  BY <1>1 DEF SerialInv, SweepOK, ClientOK
<1>4. \A i \in Jobs : JobOK(i)'
  BY <1>1 DEF SerialInv, JobOK, Queued
<1>5. ASSUME NEW f \in Children PROVE ChildOK(f)'
  <2>1. ChildOK(f)
    BY DEF SerialInv
  <2> QED
    BY <1>1, <1>2, <2>1 DEF ChildOK, Busy, Owned, Advancing, Delivered, KeepsDetails, Idle
<1>6. Apart'
  BY <1>2, StayApart DEF SerialInv, Busy, Idle
<1>7. EndsKept
  BY <1>1 DEF EndsKept, StaysEnded
<1> QED
  BY <1>3, <1>4, <1>5, <1>6, <1>7 DEF SerialInv

LEMMA NextSerial ==
  ASSUME TypeOK, TypeOK', SerialInv, ~Interleaved, ~LateChildren, [Next]_vars
  PROVE  SerialInv' /\ EndsKept
BY RequestsSerial, CancelsSerial, SweepsSerial, EngineSerial, CommitsSerial, ClaimSerial,
   HeartbeatsSerial, CrashSerial DEF Next, ChildStep

\* What the queue is meant to be holds in every reachable state when its handlers
\* do not interleave and no live child loses its lease.
THEOREM SerialInvariant ==
  ASSUME ~Interleaved, ~LateChildren
  PROVE  Spec => [](TypeOK /\ SerialInv)
<1>1. Init => TypeOK /\ SerialInv
  BY InitTypeOK, InitSerial
<1>2. TypeOK /\ SerialInv /\ [Next]_vars => (TypeOK /\ SerialInv)'
  BY NextTypeOK, NextSerial
<1> QED
  BY <1>1, <1>2, PTL DEF Spec

\* Then job, run, stored rows, trial and candidate always tell one story: a run
\* ends as its job does, with the rows of the attempt that completed it.
THEOREM StoriesAgree ==
  ASSUME ~Interleaved, ~LateChildren
  PROVE  Spec => []OneStory
<1>1. TypeOK /\ SerialInv => OneStory
  <2> SUFFICES ASSUME TypeOK, SerialInv PROVE OneStory
    OBVIOUS
  <2>1. \A j \in Jobs : JobOK(j)
    BY DEF SerialInv
  <2>2. verif.run # NoJob => verif.run \in Jobs
    BY DEF TypeOK
  <2> QED
    BY <2>1, <2>2 DEF OneStory, RunFollowsJob, EvidenceOfOneAttempt, TrialFollowsJob,
                      VerifiedByCompletedRun, JobOK, Terminal
<1> QED
  BY <1>1, SerialInvariant, PTL

\* Then no job is attempted more often than it may be, none that waits carries a
\* cancel request, and a failure that was retried stays on record.
THEOREM RetriesAreOrderly ==
  ASSUME ~Interleaved, ~LateChildren
  PROVE  Spec => []RetriesInOrder
<1>1. TypeOK /\ SerialInv => RetriesInOrder
  BY DEF SerialInv, JobOK, RetriesInOrder, AttemptsWithinBudget, QueuedIsWanted, RetriedStaysFailed
<1> QED
  BY <1>1, SerialInvariant, PTL

\* Then what has ended stays as it ended, until it is deleted.
THEOREM EndedJobsStayEnded ==
  ASSUME ~Interleaved, ~LateChildren
  PROVE  Spec => TerminalIsFinal
<1> DEFINE Ends == \A j \in Jobs : Source[j] # "research" => StaysEnded(j)
<1>1. (TypeOK /\ SerialInv) /\ (TypeOK /\ SerialInv)' /\ [Next]_vars => [Ends]_vars
  BY NextSerial DEF EndsKept
<1> QED
  BY <1>1, SerialInvariant, PTL DEF Spec, TerminalIsFinal
=============================================================================

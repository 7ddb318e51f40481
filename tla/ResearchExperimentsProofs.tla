---------------------- MODULE ResearchExperimentsProofs ----------------------
(* Theorems about ResearchExperiments, for every value of its constants: any *)
(* number of trials, rounds, controllers, candidates, attempts and crashes.  *)
EXTENDS ResearchExperiments, TLAPS

-----------------------------------------------------------------------------
(* Types.                                                                    *)

\* TypeOK is inductive with the bounds that the guards rest on: a job that waits
\* has an attempt left, and no more runs are under way than were made.
TriesLeft ==
  \A t \in Trials : /\ job[t].status = "none" => job[t].tries = 0
                    /\ job[t].status = "queued" => job[t].tries < MaxAttempts

RunsMade == \A t \in Evidence : cand[t].runs <= cand[t].made

Typed == TypeOK /\ TriesLeft /\ RunsMade

Candidate == [ranked : BOOLEAN, doc : {"none", "queued"} \cup Over, runs : 0 .. MaxRuns,
              made : 0 .. MaxRuns, confirmed : BOOLEAN, promoted : BOOLEAN]

LEMMA ColumnsSeen ==
  ASSUME TypeOK
  PROVE  Columns \in Seen /\ Columns.status = exp.status /\ Columns.term = exp.term
BY DEF TypeOK, Columns, Seen

LEMMA RowWrites ==
  /\ \A row \in Row, s \in {"none"} \cup Active \cup Over :
       Put(row, s) \in Row /\ Put(row, s).status = s /\ Put(row, s).cancelReq = row.cancelReq
  /\ \A s \in Over : End(s) \in Row /\ End(s).status = s
  /\ \A row \in Row : Ask(row) \in Row /\ Ask(row).status = row.status
BY DEF Row, Put, End, Ask

LEMMA JobWrites ==
  /\ \A row \in JobRow, s \in {"none"} \cup Active \cup Over :
       /\ Put(row, s) \in JobRow /\ Put(row, s).status = s /\ Put(row, s).tries = row.tries
       /\ Put(row, s).cancelReq = row.cancelReq
  /\ \A s \in Over : EndJob(s) \in JobRow /\ EndJob(s).status = s
  /\ \A row \in JobRow : /\ Ask(row) \in JobRow /\ Ask(row).status = row.status
                         /\ Ask(row).tries = row.tries
<1>1. \A row \in JobRow, s \in {"none"} \cup Active \cup Over :
        /\ Put(row, s) \in JobRow /\ Put(row, s).status = s /\ Put(row, s).tries = row.tries
        /\ Put(row, s).cancelReq = row.cancelReq
  BY DEF JobRow, Put
<1>2. \A s \in Over : EndJob(s) \in JobRow /\ EndJob(s).status = s
  <2>1. 0 \in 0 .. MaxAttempts
    BY LimitsAssumption
  <2> QED
    BY <2>1 DEF JobRow, EndJob
<1>3. \A row \in JobRow : /\ Ask(row) \in JobRow /\ Ask(row).status = row.status
                          /\ Ask(row).tries = row.tries
  BY DEF JobRow, Ask
<1> QED
  BY <1>1, <1>2, <1>3

LEMMA CancelledRows ==
  ASSUME NEW rows \in [Trials -> Row]
  PROVE  /\ CancelQueued(rows) \in [Trials -> Row]
         /\ \A t \in Trials :
              CancelQueued(rows)[t].status = IF rows[t].status = "queued" THEN "cancelled"
                                             ELSE rows[t].status
BY RowWrites DEF CancelQueued, Over

LEMMA StatusesTyped ==
  ASSUME NEW rows \in [Trials -> Row]
  PROVE  Statuses(rows) \in SUBSET ({"none"} \cup Active \cup Over)
BY DEF Statuses, Row

LEMMA IfReadyTyped ==
  ASSUME NEW seen \in Seen, NEW busy, NEW rows, NEW round
  PROVE  IfReady(seen, busy, rows, round) \in Seen
<1>1. Verdict(rows) \in Ended /\ EarlyVerdict(rows) \in Ended
  BY DEF Verdict, EarlyVerdict, Ended
<1> QED
  BY <1>1 DEF IfReady, Finalized, Put, Seen, Ended, Reasons, Early

LEMMA FlushTyped ==
  ASSUME TypeOK, NEW seen \in Seen, NEW wanted \in Seen, Flush(seen, wanted)
  PROVE  /\ exp' \in [status : Active \cup {"waiting_agent", "cancel_requested"} \cup Ended,
                      term : Reasons, round : 1 .. MaxRounds]
         /\ exp'.round = exp.round
BY DEF TypeOK, Flush, Seen

LEMMA RerankedTyped ==
  ASSUME TypeOK, RunsMade, NEW busy, NEW rows
  PROVE  /\ Reranked(busy, rows) \in [Evidence -> Candidate]
         /\ \A t \in Evidence : LET c == Reranked(busy, rows)[t] IN
              /\ c.runs = cand[t].runs /\ c.made = cand[t].made
              /\ c.confirmed = cand[t].confirmed /\ c.promoted = cand[t].promoted
              /\ c.doc \in {cand[t].doc, "none"}
<1> DEFINE new(t) == IF Outstanding(busy) THEN cand[t]
                     ELSE [cand[t] EXCEPT !.doc = "none", !.ranked = rows[t].status = "completed"]
<1>1. ASSUME NEW t \in Evidence
      PROVE  /\ new(t) \in Candidate
             /\ new(t).runs = cand[t].runs /\ new(t).made = cand[t].made
             /\ new(t).confirmed = cand[t].confirmed /\ new(t).promoted = cand[t].promoted
             /\ new(t).doc \in {cand[t].doc, "none"}
  <2>1. cand[t] \in Candidate
    BY DEF TypeOK, Candidate
  <2>2. ASSUME NEW r \in BOOLEAN
        PROVE  LET c == [cand[t] EXCEPT !.doc = "none", !.ranked = r] IN
                 /\ c \in Candidate
                 /\ c.runs = cand[t].runs /\ c.made = cand[t].made
                 /\ c.confirmed = cand[t].confirmed /\ c.promoted = cand[t].promoted
                 /\ c.doc = "none"
    BY <2>1 DEF Candidate
  <2>3. (rows[t].status = "completed") \in BOOLEAN
    OBVIOUS
  <2> QED
    BY <2>1, <2>2, <2>3
<1>2. Reranked(busy, rows) = [t \in Evidence |-> new(t)]
  BY DEF Reranked
<1> HIDE DEF new
<1> QED
  BY <1>1, <1>2

LEMMA InitTyped == Init => Typed
<1> SUFFICES ASSUME Init PROVE Typed
  OBVIOUS
<1> USE RoundsAssumption, LimitsAssumption DEF Init
<1>1. exp \in [status : Active \cup {"waiting_agent", "cancel_requested"} \cup Ended,
               term : Reasons, round : 1 .. MaxRounds]
  BY DEF Active, Reasons
<1>2. trial \in [Trials -> Row] /\ job \in [Trials -> JobRow]
  BY DEF Row, JobRow, Active
<1>3. fin \in [Trials -> [pc : {"no", "due", "read"}, by : {"api", "child"}, seen : Seen,
                          busy : SUBSET ({"none"} \cup Active \cup Over)]]
  BY DEF Nothing, Verdict0, Seen, Active, Reasons
<1>4. cand \in [Evidence -> Candidate]
  BY DEF Unverified, Candidate
<1>5. request \in [pc : {"no", "read"}, seen : Seen]
  BY DEF NoRequest, Verdict0, Seen, Active, Reasons
<1>6. crashes \in 0 .. MaxCrashes /\ recovering \in (SUBSET Trials) \cup {{NoTrial}}
  <2>1. 0 \in 0 .. MaxCrashes
    OBVIOUS
  <2>2. recovering \in {{NoTrial}}
    OBVIOUS
  <2> QED
    BY <2>1, <2>2, Zenon
<1>7. ctl \in [Controllers -> [pc : {"idle", "looking", "claimed", "prepared"},
                               trial : Trials \cup {NoTrial}]]
  BY DEF Resting
<1>8. TriesLeft /\ RunsMade
  BY DEF TriesLeft, RunsMade, Unverified
<1> QED
  BY <1>1, <1>2, <1>3, <1>4, <1>5, <1>6, <1>7, <1>8 DEF Typed, TypeOK, Candidate

\* The parts of the state, typed one by one.
ExpTyped(e)   == e \in [status : Active \cup {"waiting_agent", "cancel_requested"} \cup Ended,
                        term : Reasons, round : 1 .. MaxRounds]
JobTyped(j)   == /\ j \in [Trials -> JobRow]
                 /\ \A t \in Trials : /\ j[t].status = "none" => j[t].tries = 0
                                      /\ j[t].status = "queued" => j[t].tries < MaxAttempts
CtlTyped(c)   == c \in [Controllers -> [pc : {"idle", "looking", "claimed", "prepared"},
                                        trial : Trials \cup {NoTrial}]]
FinRow        == [pc : {"no", "due", "read"}, by : {"api", "child"}, seen : Seen,
                  busy : SUBSET ({"none"} \cup Active \cup Over)]
CandTyped(c)  == c \in [Evidence -> Candidate] /\ \A t \in Evidence : c[t].runs <= c[t].made
RestTyped(req, rec, d, a, n) ==
  /\ req \in [pc : {"no", "read"}, seen : Seen]
  /\ rec \in (SUBSET Trials) \cup {{NoTrial}}
  /\ d \in BOOLEAN /\ a \in BOOLEAN /\ n \in 0 .. MaxCrashes

LEMMA TypedParts ==
  /\ Typed <=> /\ ExpTyped(exp) /\ trial \in [Trials -> Row] /\ JobTyped(job) /\ CtlTyped(ctl)
               /\ fin \in [Trials -> FinRow] /\ CandTyped(cand)
               /\ RestTyped(request, recovering, due, alive, crashes)
  /\ Typed' <=> /\ ExpTyped(exp') /\ trial' \in [Trials -> Row] /\ JobTyped(job') /\ CtlTyped(ctl')
                /\ fin' \in [Trials -> FinRow] /\ CandTyped(cand')
                /\ RestTyped(request', recovering', due', alive', crashes')
BY DEF Typed, TypeOK, TriesLeft, RunsMade, ExpTyped, JobTyped, CtlTyped, FinRow, CandTyped,
       Candidate, RestTyped

\* One more, where one more is allowed.
LEMMA OneMore ==
  ASSUME NEW n \in Nat, NEW k \in 0 .. n, k < n
  PROVE  k + 1 \in 0 .. n
OBVIOUS

LEMMA FinWrites ==
  /\ Nothing \in FinRow /\ Owed("api") \in FinRow /\ Owed("child") \in FinRow
  /\ Verdict0 \in Seen /\ NoRequest \in [pc : {"no", "read"}, seen : Seen]
BY DEF Nothing, Owed, FinRow, Verdict0, NoRequest, Seen, Active, Reasons

\* A commit of a finalisation, whoever it is by.
LEMMA ConcludesTyped ==
  ASSUME Typed, NEW seen \in Seen, NEW busy, NEW rows, NEW round,
         Flush(seen, IfReady(seen, busy, rows, round))
  PROVE  ExpTyped(exp') /\ exp'.round = exp.round
<1>1. IfReady(seen, busy, rows, round) \in Seen
  BY IfReadyTyped
<1> QED
  BY <1>1, FlushTyped DEF Typed, ExpTyped

LEMMA CandsTyped ==
  ASSUME Typed, NEW busy, NEW rows
  PROVE  CandTyped(Reranked(busy, rows))
<1>1. \A t \in Evidence : cand[t].runs <= cand[t].made
  BY DEF Typed, RunsMade
<1> QED
  BY <1>1, RerankedTyped DEF Typed, CandTyped

LEMMA VerifyingTyped ==
  ASSUME NEW row \in Candidate, row.runs <= row.made, row.made < MaxRuns
  PROVE  Verifying(row) \in Candidate /\ Verifying(row).runs <= Verifying(row).made
<1>1. row.runs \in 0 .. MaxRuns /\ row.made \in 0 .. MaxRuns /\ MaxRuns \in Nat
  BY LimitsAssumption DEF Candidate
<1>2. row.made + 1 \in 0 .. MaxRuns /\ row.runs + 1 \in 0 .. MaxRuns /\ row.runs + 1 <= row.made + 1
  BY <1>1
<1>3. /\ Verifying(row).runs = row.runs + 1 /\ Verifying(row).made = row.made + 1
      /\ row.made + 1 \in 0 .. MaxRuns /\ row.runs + 1 \in 0 .. MaxRuns => Verifying(row) \in Candidate
  BY DEF Verifying, Candidate
<1> QED
  BY <1>2, <1>3

LEMMA NextTyped ==
  ASSUME Typed, [Next]_vars
  PROVE  Typed'
<1>0. /\ ExpTyped(exp) /\ trial \in [Trials -> Row] /\ JobTyped(job) /\ CtlTyped(ctl)
      /\ fin \in [Trials -> FinRow] /\ CandTyped(cand)
      /\ RestTyped(request, recovering, due, alive, crashes)
  BY TypedParts
<1>a. Columns \in Seen /\ Columns.status = exp.status /\ Columns.term = exp.term
  BY ColumnsSeen DEF Typed
<1>b. /\ CancelQueued(trial) \in [Trials -> Row]
      /\ Statuses(trial) \in SUBSET ({"none"} \cup Active \cup Over)
  BY <1>0, CancelledRows, StatusesTyped
<1>c. NoTrial \notin Trials /\ MaxRounds \in Nat /\ MaxAttempts \in Nat \ {0}
      /\ MaxRuns \in Nat /\ MaxCrashes \in Nat
  BY RoundsAssumption, LimitsAssumption
<1>1. ASSUME NEW t \in Trials, FinalizeRead(t) PROVE Typed'
  <2>1. fin' \in [Trials -> FinRow]
    BY <1>1, <1>0, <1>a, <1>b DEF FinalizeRead, FinRow
  <2> QED
    BY <1>1, <1>0, <2>1, TypedParts DEF FinalizeRead
<1>2. ASSUME NEW t \in Trials, FinalizeWrite(t) PROVE Typed'
  <2> DEFINE seen == IF PolicyApplies(fin[t].seen) THEN Stopped(fin[t].seen) ELSE fin[t].seen
             rows == IF PolicyApplies(fin[t].seen) THEN CancelQueued(trial) ELSE trial
             busy == IF PolicyApplies(fin[t].seen) THEN Statuses(rows) ELSE fin[t].busy
  <2>1. fin[t].seen \in Seen /\ seen \in Seen
    BY <1>0 DEF FinRow, Stopped, Seen, Reasons, Early
  <2>2. IfReady(seen, busy, rows, exp.round) \in Seen
    BY <2>1, IfReadyTyped
  <2>3. ExpTyped(exp')
    <3>1. Flush(fin[t].seen, IfReady(seen, busy, rows, exp.round))
      BY <1>2 DEF FinalizeWrite
    <3> HIDE DEF seen, busy, rows
    <3> QED
      BY <2>1, <2>2, <3>1, FlushTyped DEF Typed, ExpTyped
  <2>4. trial' \in [Trials -> Row]
    BY <1>2, <1>0, <1>b DEF FinalizeWrite
  <2>5. CandTyped(cand')
    <3>1. cand' = Reranked(busy, rows)
      BY <1>2 DEF FinalizeWrite
    <3> QED
      BY <3>1, CandsTyped
  <2>6. fin' \in [Trials -> FinRow]
    BY <1>2, <1>0, FinWrites DEF FinalizeWrite
  <2> QED
    BY <1>2, <1>0, <2>3, <2>4, <2>5, <2>6, TypedParts DEF FinalizeWrite
<1>3. ASSUME StopByPolicy PROVE ExpTyped(exp') /\ trial' \in [Trials -> Row] /\ CandTyped(cand')
  <2> DEFINE rows == CancelQueued(trial)
  <2>1. Stopped(Columns) \in Seen
    BY <1>a DEF Stopped, Seen, Reasons, Early
  <2>2. IfReady(Stopped(Columns), Statuses(rows), rows, exp.round) \in Seen
    BY <2>1, IfReadyTyped
  <2>3. Flush(Columns, IfReady(Stopped(Columns), Statuses(rows), rows, exp.round))
        /\ trial' = rows /\ cand' = Reranked(Statuses(rows), rows)
    BY <1>3 DEF StopByPolicy
  <2> HIDE DEF rows
  <2>4. ExpTyped(exp')
    BY <1>a, <2>2, <2>3, FlushTyped DEF Typed, ExpTyped
  <2>5. CandTyped(cand')
    BY <2>3, CandsTyped
  <2> QED
    BY <1>b, <2>3, <2>4, <2>5 DEF rows
<1>4. ASSUME EnforcePolicy PROVE Typed'
  BY <1>4, <1>0, <1>3, TypedParts DEF EnforcePolicy
<1>5. ASSUME NEW c \in Controllers, Look(c) PROVE Typed'
  BY <1>5, <1>0, TypedParts DEF Look, CtlTyped
<1>6. ASSUME NEW c \in Controllers, Claim(c) PROVE Typed'
  <2>1. ExpTyped(exp') /\ CtlTyped(ctl')
    BY <1>6, <1>0 DEF Claim, ExpTyped, CtlTyped, Resting, Active, InStatus
  <2>2. trial' \in [Trials -> Row]
    BY <1>6, <1>0, RowWrites DEF Claim, Active
  <2> QED
    BY <1>6, <1>0, <2>1, <2>2, TypedParts DEF Claim
<1>7. ASSUME NEW c \in Controllers, NEW status \in Over, EndsHere(c, status) PROVE Typed'
  <2>1. CtlTyped(ctl')
    BY <1>7, <1>0 DEF EndsHere, CtlTyped, Resting
  <2>2. trial' \in [Trials -> Row] /\ fin' \in [Trials -> FinRow]
    BY <1>7, <1>0, RowWrites, FinWrites DEF EndsHere
  <2> QED
    BY <1>7, <1>0, <2>1, <2>2, TypedParts DEF EndsHere
<1>8. ASSUME NEW c \in Controllers, FinishCancelledClaim(c) \/ TrialFails(c) PROVE Typed'
  BY <1>7, <1>8 DEF FinishCancelledClaim, TrialFails, Over
<1>9. ASSUME NEW c \in Controllers, PrepareBacktestRun(c) PROVE Typed'
  BY <1>9, <1>0, TypedParts DEF PrepareBacktestRun, CtlTyped
<1>10. ASSUME NEW c \in Controllers, EnqueueJob(c) PROVE Typed'
  <2>1. CtlTyped(ctl')
    BY <1>10, <1>0 DEF EnqueueJob, CtlTyped, Resting
  <2>2. JobTyped(job')
    <3>1. \A t \in Trials : \/ job'[t] = job[t]
                            \/ job[t].status = "none" /\ job'[t] = Put(job[t], "queued")
      BY <1>10, <1>0 DEF EnqueueJob, JobTyped
    <3>2. job' \in [Trials -> JobRow]
      BY <1>10, <1>0, JobWrites DEF EnqueueJob, JobTyped, Active
    <3> QED
      BY <1>0, <1>c, <3>1, <3>2, JobWrites DEF JobTyped, Active
  <2> QED
    BY <1>10, <1>0, <2>1, <2>2, TypedParts DEF EnqueueJob
<1>11. ASSUME NEW t \in Trials, JobStarts(t) \/ JobRequeued(t) PROVE Typed'
  <2>1. job[t] \in JobRow /\ job[t].tries \in 0 .. MaxAttempts
    BY <1>0 DEF JobTyped, JobRow
  <2>2. job[t].tries < MaxAttempts => Started(job[t]) \in JobRow /\ Started(job[t]).status = "running"
    <3>1. job[t].tries < MaxAttempts => job[t].tries + 1 \in 0 .. MaxAttempts
      BY <1>c, <2>1, OneMore
    <3> QED
      BY <2>1, <3>1 DEF JobRow, Started, Active
  <2>3. /\ Put(job[t], "queued") \in JobRow /\ Put(job[t], "queued").tries = job[t].tries
        /\ Put(job[t], "queued").status = "queued"
        /\ EndJob("cancelled") \in JobRow /\ EndJob("cancelled").status = "cancelled"
    BY <2>1, JobWrites DEF Active, Over
  <2>4. PICK row \in JobRow : /\ job' = [job EXCEPT ![t] = row]
                              /\ row.status # "none"
                              /\ row.status = "queued" => row.tries < MaxAttempts
    <3>1. CASE JobStarts(t)
      <4>1. job[t].tries < MaxAttempts
        BY <1>0, <3>1 DEF JobStarts, JobTyped
      <4> QED
        BY <2>2, <2>3, <3>1, <4>1 DEF JobStarts
    <3>2. CASE JobRequeued(t)
      BY <2>3, <3>2 DEF JobRequeued
    <3> QED
      BY <1>11, <3>1, <3>2
  <2>5. JobTyped(job')
    BY <1>0, <2>4 DEF JobTyped
  <2> QED
    BY <1>11, <1>0, <2>5, TypedParts DEF JobStarts, JobRequeued
<1>12. ASSUME NEW t \in Trials, NEW status \in Over, JobEnds(t, status) PROVE Typed'
  <2>1. JobTyped(job')
    BY <1>12, <1>0, JobWrites DEF JobEnds, JobTyped, Over
  <2>2. trial' \in [Trials -> Row] /\ fin' \in [Trials -> FinRow]
    BY <1>12, <1>0, RowWrites, FinWrites DEF JobEnds
  <2> QED
    BY <1>12, <1>0, <2>1, <2>2, TypedParts DEF JobEnds
<1>13. ASSUME NEW t \in Trials, CancelTrial(t) PROVE Typed'
  <2>1. trial' \in [Trials -> Row]
    BY <1>13, <1>0, RowWrites DEF CancelTrial, Over
  <2>2. JobTyped(job')
    <3>1. PICK row \in JobRow : /\ job' = job \/ job' = [job EXCEPT ![t] = row]
                                /\ row.status # "none"
                                /\ row.status = "queued" => row.tries < MaxAttempts
      <4>1. /\ Ask(job[t]) \in JobRow /\ Ask(job[t]).status = job[t].status
            /\ Ask(job[t]).tries = job[t].tries
            /\ EndJob("cancelled") \in JobRow /\ EndJob("cancelled").status = "cancelled"
        BY <1>0, JobWrites DEF JobTyped, Over
      <4>2. \/ job' = job
            \/ job' = [job EXCEPT ![t] = EndJob("cancelled")]
            \/ job[t].status # "none" /\ job' = [job EXCEPT ![t] = Ask(job[t])]
        BY <1>13 DEF CancelTrial
      <4> QED
        BY <1>0, <4>1, <4>2 DEF JobTyped
    <3> QED
      BY <1>0, <3>1 DEF JobTyped
  <2>3. fin' \in [Trials -> FinRow]
    BY <1>13, <1>0, FinWrites DEF CancelTrial
  <2> QED
    BY <1>13, <1>0, <2>1, <2>2, <2>3, TypedParts DEF CancelTrial
<1>14. ASSUME CancelRead PROVE Typed'
  <2>1. RestTyped(request', recovering', due', alive', crashes')
    BY <1>14, <1>0, <1>a DEF CancelRead, RestTyped
  <2> QED
    BY <1>14, <1>0, <2>1, TypedParts DEF CancelRead
<1>15. ASSUME CancelWrite PROVE Typed'
  <2> DEFINE seen == request.seen
             rows == CancelQueued(trial)
  <2>1. seen \in Seen /\ Put(seen, "cancel_requested") \in Seen
    BY <1>0 DEF RestTyped, Put, Seen
  <2>2. IfReady(Put(seen, "cancel_requested"), Statuses(rows), rows, exp.round) \in Seen
    BY <2>1, IfReadyTyped
  <2>3. ExpTyped(exp')
    BY <1>15, <2>1, <2>2, FlushTyped DEF CancelWrite, Typed, ExpTyped
  <2>4. trial' \in [Trials -> Row]
    <3>1. End("cancelled") \in Row
      BY RowWrites DEF Over
    <3> QED
      BY <1>15, <1>b, <3>1 DEF CancelWrite
  <2>5. JobTyped(job')
    <3>1. \A t \in Trials : \/ job'[t] = job[t] \/ job'[t] = EndJob("cancelled")
                            \/ job[t].status = "running" /\ job'[t] = Ask(job[t])
      BY <1>15, <1>0 DEF CancelWrite, JobTyped
    <3>2. job' = [t \in Trials |-> job'[t]]
      BY <1>15 DEF CancelWrite
    <3>3. \A t \in Trials : job'[t] \in JobRow
                            /\ ((job'[t].status = job[t].status /\ job'[t].tries = job[t].tries)
                                \/ job'[t].status = "cancelled")
      BY <1>0, <3>1, JobWrites DEF JobTyped, Over
    <3> QED
      BY <1>0, <3>2, <3>3 DEF JobTyped
  <2>6. CandTyped(cand')
    BY <1>15, CandsTyped DEF CancelWrite
  <2>7. RestTyped(request', recovering', due', alive', crashes')
    BY <1>15, <1>0, FinWrites DEF CancelWrite, RestTyped
  <2> QED
    BY <1>15, <1>0, <2>3, <2>4, <2>5, <2>6, <2>7, TypedParts DEF CancelWrite
<1>16. ASSUME SubmitRound PROVE Typed'
  <2>1. ExpTyped(exp')
    <3>1. exp.round \in 1 .. MaxRounds /\ exp.round < MaxRounds
      BY <1>16, <1>0 DEF SubmitRound, AwaitsRound, ExpTyped
    <3>2. exp.round + 1 \in 1 .. MaxRounds
      BY <1>c, <3>1
    <3> QED
      BY <1>16, <1>0, <3>2 DEF SubmitRound, ExpTyped, Active
  <2>2. trial' \in [Trials -> Row]
    BY <1>16, <1>0, RowWrites DEF SubmitRound, WithRound, Active
  <2> QED
    BY <1>16, <1>0, <2>1, <2>2, TypedParts DEF SubmitRound
<1>17. ASSUME UpdateTokenUsage PROVE Typed'
  <2>1. ExpTyped(exp') /\ trial' \in [Trials -> Row] /\ CandTyped(cand')
    BY <1>17, <1>0, <1>3 DEF UpdateTokenUsage
  <2>2. RestTyped(request', recovering', due', alive', crashes')
    BY <1>17, <1>0 DEF UpdateTokenUsage, RestTyped
  <2> QED
    BY <1>17, <1>0, <2>1, <2>2, TypedParts DEF UpdateTokenUsage
<1>18. ASSUME ControllerFails PROVE Typed'
  <2>1. ExpTyped(exp')
    BY <1>18, <1>0 DEF ControllerFails, ExpTyped, Ended, Reasons, Early
  <2> QED
    BY <1>18, <1>0, <1>b, <2>1, TypedParts DEF ControllerFails
<1>19. ASSUME NEW chosen \in (SUBSET Evidence) \ {{}}, Promote(chosen) PROVE Typed'
  <2> DEFINE new(t) == IF t \notin chosen THEN cand[t]
                       ELSE IF ~(\E u \in chosen : cand[u].doc # "completed")
                              THEN [cand[t] EXCEPT !.promoted = TRUE]
                       ELSE IF Fresh(cand[t]) THEN Verifying(cand[t])
                       ELSE cand[t]
  <2>1. ASSUME NEW t \in Evidence PROVE new(t) \in Candidate /\ new(t).runs <= new(t).made
    <3>1. cand[t] \in Candidate /\ cand[t].runs <= cand[t].made
      BY <1>0 DEF CandTyped
    <3>2. [cand[t] EXCEPT !.promoted = TRUE] \in Candidate
          /\ [cand[t] EXCEPT !.promoted = TRUE].runs = cand[t].runs
          /\ [cand[t] EXCEPT !.promoted = TRUE].made = cand[t].made
      BY <3>1 DEF Candidate
    <3>3. t \in chosen /\ Fresh(cand[t]) => cand[t].made < MaxRuns
      BY <1>19 DEF Promote
    <3>4. cand[t].made < MaxRuns =>
            Verifying(cand[t]) \in Candidate /\ Verifying(cand[t]).runs <= Verifying(cand[t]).made
      BY <1>c, <3>1, VerifyingTyped
    <3> QED
      BY <3>1, <3>2, <3>3, <3>4
  <2>2. cand' = [t \in Evidence |-> new(t)]
    BY <1>19 DEF Promote
  <2> HIDE DEF new
  <2>3. CandTyped(cand')
    BY <2>1, <2>2 DEF CandTyped
  <2> QED
    BY <1>19, <1>0, <2>3, TypedParts DEF Promote
<1>20. ASSUME NEW t \in Evidence, RetryVerification(t) PROVE Typed'
  <2>1. cand[t] \in Candidate /\ cand[t].runs <= cand[t].made
    BY <1>0 DEF CandTyped
  <2>2. Verifying(cand[t]) \in Candidate /\ Verifying(cand[t]).runs <= Verifying(cand[t]).made
    BY <1>20, <2>1, VerifyingTyped DEF RetryVerification
  <2>3. CandTyped(cand')
    BY <1>20, <1>0, <2>2 DEF RetryVerification, CandTyped
  <2> QED
    BY <1>20, <1>0, <2>3, TypedParts DEF RetryVerification
<1>21. ASSUME NEW t \in Evidence, NEW status \in Over, VerificationEnds(t, status) PROVE Typed'
  <2>1. cand[t] \in Candidate /\ cand[t].runs <= cand[t].made /\ cand[t].runs > 0
    BY <1>21, <1>0 DEF CandTyped, VerificationEnds
  <2>2. (cand[t].confirmed \/ status = "completed") \in BOOLEAN
    BY <2>1 DEF Candidate
  <2>3. Reported(cand[t], status) \in Candidate
        /\ Reported(cand[t], status).runs <= Reported(cand[t], status).made
    <3>1. cand[t].runs - 1 \in 0 .. MaxRuns /\ cand[t].runs - 1 <= cand[t].made
      BY <1>c, <2>1 DEF Candidate
    <3>2. status \in {"none", "queued"} \cup Over
      OBVIOUS
    <3> HIDE DEF Over
    <3> QED
      BY <2>1, <2>2, <3>1, <3>2 DEF Candidate, Reported
  <2>4. CandTyped(cand')
    <3>1. cand' = [cand EXCEPT ![t] = Reported(cand[t], status)]
      BY <1>21 DEF VerificationEnds
    <3> QED
      BY <1>0, <2>3, <3>1 DEF CandTyped
  <2> QED
    BY <1>21, <1>0, <2>4, TypedParts DEF VerificationEnds
<1>22. ASSUME PolicyFallsDue PROVE Typed'
  <2>1. RestTyped(request', recovering', due', alive', crashes')
    BY <1>22, <1>0 DEF PolicyFallsDue, RestTyped
  <2> QED
    BY <1>22, <1>0, <2>1, TypedParts DEF PolicyFallsDue
<1>23. ASSUME Crash PROVE Typed'
  <2>1. RestTyped(request', recovering', due', alive', crashes')
    <3>1. crashes + 1 \in 0 .. MaxCrashes
      BY <1>23, <1>0, <1>c, OneMore DEF Crash, RestTyped
    <3>2. recovering' \in {{NoTrial}}
      BY <1>23 DEF Crash
    <3>3. due \in BOOLEAN
      BY <1>0 DEF RestTyped
    <3> QED
      BY <1>23, <3>1, <3>2, <3>3, FinWrites, Zenon DEF Crash, RestTyped
  <2>2. CtlTyped(ctl') /\ fin' \in [Trials -> FinRow]
    BY <1>23, <1>0, FinWrites DEF Crash, CtlTyped, Resting
  <2> QED
    BY <1>23, <1>0, <2>1, <2>2, TypedParts DEF Crash
<1>24. ASSUME RecoverRead PROVE Typed'
  <2>1. RestTyped(request', recovering', due', alive', crashes')
    BY <1>24, <1>0 DEF RecoverRead, RestTyped, InStatus
  <2> QED
    BY <1>24, <1>0, <2>1, TypedParts DEF RecoverRead
<1>25. ASSUME RecoverWrite PROVE Typed'
  <2> DEFINE orphans == {t \in recovering : job[t].status \notin Active}
             rows == [t \in Trials |-> IF t \notin orphans THEN trial[t]
                                       ELSE IF RecoveryStops THEN End("cancelled") ELSE Put(trial[t], "queued")]
             idle == IF exp.status = "running" /\ InStatus(job, Active) = {}
                       THEN Put(Columns, "queued") ELSE Columns
  <2>1. idle \in Seen
    BY <1>a DEF Put, Seen, Active
  <2>2. IfReady(idle, Statuses(rows), rows, exp.round) \in Seen
    BY <2>1, IfReadyTyped
  <2>3. \/ Flush(Columns, IfReady(idle, Statuses(rows), rows, exp.round))
           /\ cand' = Reranked(Statuses(rows), rows)
        \/ UNCHANGED <<exp, cand>>
    BY <1>25 DEF RecoverWrite
  <2>4. rows \in [Trials -> Row] /\ trial' = rows
    BY <1>25, <1>0, RowWrites DEF RecoverWrite, Over, Active
  <2> HIDE DEF idle, rows
  <2>5. ExpTyped(exp') /\ CandTyped(cand')
    BY <1>0, <1>a, <2>2, <2>3, FlushTyped, CandsTyped DEF Typed, ExpTyped
  <2>6. RestTyped(request', recovering', due', alive', crashes')
    <3>1. recovering' \in {{NoTrial}}
      BY <1>25 DEF RecoverWrite
    <3> QED
      BY <1>25, <1>0, <3>1, Zenon DEF RecoverWrite, RestTyped
  <2> QED
    BY <1>25, <1>0, <2>4, <2>5, <2>6, TypedParts DEF RecoverWrite
<1>26. CASE UNCHANGED vars
  BY <1>26, <1>0, TypedParts DEF vars
<1> QED
  BY <1>1, <1>2, <1>4, <1>5, <1>6, <1>8, <1>9, <1>10, <1>11, <1>12, <1>13, <1>14, <1>15, <1>16,
     <1>17, <1>18, <1>19, <1>20, <1>21, <1>22, <1>23, <1>24, <1>25, <1>26
     DEF Next, Work, Environment, Finalizes, ControllerStep, JobStep, RecoverStep

-----------------------------------------------------------------------------
(* Promotion.                                                                *)

\* A step leaves a candidate alone, ranks it anew, or is one of the promotion's.
LEMMA PromotionSteps ==
  ASSUME Typed, PromotionIsEarned, [Next]_vars
  PROVE  PromotionIsEarned'
<1>0. ASSUME NEW t \in Evidence
      PROVE  /\ cand[t] \in Candidate
             /\ cand[t].promoted \/ cand[t].doc = "completed" => cand[t].confirmed
             /\ cand[t].doc = "queued" => cand[t].runs > 0
  BY TypedParts DEF CandTyped, PromotionIsEarned
<1>1. ASSUME NEW busy, NEW rows, cand' = Reranked(busy, rows) PROVE PromotionIsEarned'
  <2>1. ASSUME NEW t \in Evidence
        PROVE  /\ cand'[t].runs = cand[t].runs /\ cand'[t].confirmed = cand[t].confirmed
               /\ cand'[t].promoted = cand[t].promoted /\ cand'[t].doc \in {cand[t].doc, "none"}
    BY <1>1, RerankedTyped DEF Typed
  <2> QED
    BY <1>0, <2>1 DEF PromotionIsEarned
<1>2. ASSUME UNCHANGED cand PROVE PromotionIsEarned'
  BY <1>2 DEF PromotionIsEarned
\* What a verification that is asked for makes of its candidate.
<1>3. ASSUME NEW t \in Evidence
      PROVE  /\ Verifying(cand[t]).promoted = cand[t].promoted
             /\ Verifying(cand[t]).confirmed = cand[t].confirmed
             /\ Verifying(cand[t]).doc = "queued" /\ Verifying(cand[t]).runs > 0
  <2>1. cand[t] \in Candidate /\ cand[t].runs \in Nat
    BY <1>0, LimitsAssumption DEF Candidate
  <2>2. Verifying(cand[t]).runs = cand[t].runs + 1
    BY <2>1 DEF Verifying, Candidate
  <2> QED
    BY <2>1, <2>2 DEF Verifying, Candidate
<1>4. ASSUME NEW chosen \in (SUBSET Evidence) \ {{}}, Promote(chosen) PROVE PromotionIsEarned'
  <2> DEFINE waiting == \E t \in chosen : cand[t].doc # "completed"
             new(t)  == IF t \notin chosen THEN cand[t]
                        ELSE IF ~waiting THEN [cand[t] EXCEPT !.promoted = TRUE]
                        ELSE IF Fresh(cand[t]) THEN Verifying(cand[t])
                        ELSE cand[t]
  <2>1. cand' = [t \in Evidence |-> new(t)]
    BY <1>4 DEF Promote
  <2>2. \A t \in chosen : ~waiting => cand[t].doc = "completed"
    OBVIOUS
  <2> HIDE DEF waiting
  <2>3. ASSUME NEW t \in Evidence
        PROVE  /\ new(t).promoted \/ new(t).doc = "completed" => new(t).confirmed
               /\ new(t).doc = "queued" => new(t).runs > 0
    <3>1. CASE t \in chosen /\ ~waiting
      <4>1. cand[t].doc = "completed" /\ cand[t].confirmed
        BY <1>0, <2>2, <3>1
      <4> QED
        BY <1>0, <3>1, <4>1 DEF Candidate
    <3>2. CASE t \in chosen /\ waiting /\ Fresh(cand[t])
      BY <1>0, <1>3, <3>2 DEF Fresh
    <3>3. CASE t \notin chosen \/ (waiting /\ ~Fresh(cand[t]))
      BY <1>0, <3>3
    <3> QED
      BY <3>1, <3>2, <3>3
  <2> HIDE DEF new
  <2> QED
    BY <2>1, <2>3 DEF PromotionIsEarned
<1>5. ASSUME NEW t \in Evidence, RetryVerification(t) PROVE PromotionIsEarned'
  <2>1. cand' = [cand EXCEPT ![t] = Verifying(cand[t])] /\ cand[t].doc = "failed"
    BY <1>5 DEF RetryVerification
  <2>2. DOMAIN cand = Evidence
    BY TypedParts DEF CandTyped
  <2> QED
    BY <1>0, <1>3, <2>1, <2>2 DEF PromotionIsEarned
<1>6. ASSUME NEW t \in Evidence, NEW status \in Over, VerificationEnds(t, status) PROVE PromotionIsEarned'
  <2>1. cand' = [cand EXCEPT ![t] = Reported(cand[t], status)]
    BY <1>6 DEF VerificationEnds
  <2>2. DOMAIN cand = Evidence
    BY TypedParts DEF CandTyped
  <2>3. /\ Reported(cand[t], status).promoted = cand[t].promoted
        /\ Reported(cand[t], status).confirmed <=> cand[t].confirmed \/ status = "completed"
        /\ Reported(cand[t], status).doc = status /\ status # "queued"
    BY <1>0 DEF Reported, Candidate, Over
  <2> QED
    BY <1>0, <2>1, <2>2, <2>3 DEF PromotionIsEarned
<1>7. ASSUME NEW t \in Trials, Finalizes(t) PROVE PromotionIsEarned'
  <2>1. CASE FinalizeRead(t)
    BY <1>2, <2>1 DEF FinalizeRead
  <2>2. CASE FinalizeWrite(t)
    BY <1>1, <2>2 DEF FinalizeWrite
  <2> QED
    BY <1>7, <2>1, <2>2 DEF Finalizes
<1>8. ASSUME EnforcePolicy \/ UpdateTokenUsage PROVE PromotionIsEarned'
  BY <1>1, <1>2, <1>8 DEF EnforcePolicy, UpdateTokenUsage, StopByPolicy
<1>9. ASSUME CancelWrite PROVE PromotionIsEarned'
  BY <1>1, <1>9 DEF CancelWrite
<1>10. ASSUME RecoverStep PROVE PromotionIsEarned'
  BY <1>1, <1>2, <1>10 DEF RecoverStep, RecoverRead, RecoverWrite
<1>11. ASSUME NEW c \in Controllers, ControllerStep(c) PROVE PromotionIsEarned'
  BY <1>2, <1>11 DEF ControllerStep, Look, Claim, FinishCancelledClaim, PrepareBacktestRun,
                     EnqueueJob, TrialFails, EndsHere
<1>12. ASSUME NEW t \in Trials, JobStep(t) \/ CancelTrial(t) PROVE PromotionIsEarned'
  BY <1>2, <1>12 DEF JobStep, JobStarts, JobRequeued, JobEnds, CancelTrial
<1>13. ASSUME CancelRead \/ SubmitRound \/ ControllerFails \/ PolicyFallsDue \/ Crash
       PROVE  PromotionIsEarned'
  BY <1>2, <1>13 DEF CancelRead, SubmitRound, ControllerFails, PolicyFallsDue, Crash
<1>14. CASE UNCHANGED vars
  BY <1>2, <1>14 DEF vars
<1> QED
  BY <1>4, <1>5, <1>6, <1>7, <1>8, <1>9, <1>10, <1>11, <1>12, <1>13, <1>14
     DEF Next, Work, Environment

\* Every variable keeps its type: statuses, counters and terminations are those
\* the code writes, for any number of trials, rounds, controllers and crashes.
THEOREM TypesKept == Spec => []TypeOK
<1>1. Typed /\ [Next]_vars => Typed'
  BY NextTyped
<1>2. Typed => TypeOK
  BY DEF Typed
<1> QED
  BY InitTyped, <1>1, <1>2, PTL DEF Spec

\* promote_candidates: a candidate becomes a strategy only after a full run has
\* confirmed its evidence, and a promotion that waits has a run that will report,
\* however verifications, retries, cancellations and new rankings interleave.
THEOREM PromotionsAreEarned == Spec => []PromotionIsEarned
<1>1. Init => PromotionIsEarned
  BY DEF Init, PromotionIsEarned, Unverified
<1>2. Typed /\ PromotionIsEarned /\ [Next]_vars => (Typed /\ PromotionIsEarned)'
  BY NextTyped, PromotionSteps
<1> QED
  BY InitTyped, <1>1, <1>2, PTL DEF Spec

-----------------------------------------------------------------------------
(* The ends of trials and of the experiment, where no handler is overtaken   *)
(* between what it reads and what it commits.                                *)

\* What the agent or a reader is shown as settled.
Settled == exp.status \in Ended \cup {"waiting_agent"} /\ exp.term # "controller"
AtHand(c) == ctl[c].pc \in {"claimed", "prepared"}

\* A job that waits or runs belongs to a trial that runs.
JobsFollow == \A t \in Trials : job[t].status \in Active => trial[t].status = "running"

\* A controller has a running trial, which has no job at work, for itself.
InHand ==
  /\ \A c \in Controllers : AtHand(c) => /\ ctl[c].trial \in Trials
                                         /\ trial[ctl[c].trial].status = "running"
                                         /\ job[ctl[c].trial].status \notin Active
  /\ \A b, c \in Controllers : b # c /\ AtHand(b) /\ AtHand(c) => ctl[b].trial # ctl[c].trial

\* What a handler has read is still so.
AsRead ==
  /\ \A t \in Trials : fin[t].pc = "read" => fin[t].seen = Columns /\ fin[t].busy = Statuses(trial)
  /\ request.pc = "read" => request.seen = Columns /\ exp.status \notin Ended
  /\ recovering # {NoTrial} => recovering = InStatus(trial, {"running"})

\* Recovery runs before anything else does.
Restarts ==
  /\ ~alive => \A c \in Controllers : ctl[c].pc = "idle"
  /\ alive => recovering = {NoTrial}

NothingOwed == Settled => \A t \in Trials : fin[t].pc = "no"

Fits(status, rows) ==
  /\ status = "partially_failed" => Some(rows, "completed")
  /\ status = "completed" => ~Some(rows, "failed")
  /\ status = "failed" => ~Some(rows, "completed")

Waits == exp.status = "waiting_agent" => exp.term = "none"

HaltedIsEmpty == Halted => ~Some(trial, "queued")

\* The trials of a round to come are not there yet.
RoundsToCome == \A t \in Trials : Round[t] > exp.round => trial[t].status = "none"

Held == JobsFollow /\ InHand /\ AsRead /\ Restarts
EndsAreSound == SettledIsWhole /\ NothingOwed /\ VerdictFits /\ Waits /\ HaltedIsEmpty /\ RoundsToCome
ResInv == Typed /\ Held /\ EndsAreSound

\* What a step keeps of what has ended.
Kept ==
  /\ \A t \in Trials : trial[t].status \in Over => trial'[t].status = trial[t].status
  /\ Halted => Halted' /\ exp'.round = exp.round

NoneOpen ==
  /\ \A t \in Trials : fin[t].pc = "no"
  /\ \A c \in Controllers : ctl[c].pc # "looking"
  /\ request.pc = "no" /\ recovering = {NoTrial}

LEMMA MayRunAlone ==
  ASSUME ~Overtaken, NEW h, MayRun(h)
  PROVE  /\ \A t \in Trials : fin[t].pc # "no" => h = <<"fin", t>>
         /\ \A c \in Controllers : ctl[c].pc = "looking" => h = <<"ctl", c>>
         /\ request.pc # "no" => h = <<"request">>
         /\ recovering # {NoTrial} => h = <<"recover">>
<1>1. Open \subseteq {h}
  BY DEF MayRun
<1>2. ASSUME NEW t \in Trials, fin[t].pc # "no" PROVE h = <<"fin", t>>
  BY <1>1, <1>2 DEF Open
<1>3. ASSUME NEW c \in Controllers, ctl[c].pc = "looking" PROVE h = <<"ctl", c>>
  BY <1>1, <1>3 DEF Open
<1>4. request.pc # "no" => h = <<"request">>
  BY <1>1 DEF Open
<1>5. recovering # {NoTrial} => h = <<"recover">>
  BY <1>1 DEF Open
<1> QED
  BY <1>2, <1>3, <1>4, <1>5

LEMMA QuietIsClosed ==
  ASSUME ~Overtaken, Quiet
  PROVE  NoneOpen
<1>1. Open = {}
  BY DEF Quiet
<1>2. ASSUME NEW t \in Trials, fin[t].pc # "no" PROVE FALSE
  BY <1>1, <1>2 DEF Open
<1>3. ASSUME NEW c \in Controllers, ctl[c].pc = "looking" PROVE FALSE
  <2>1. <<"ctl", c>> \in Open
    BY <1>3 DEF Open
  <2> QED
    BY <1>1, <2>1
<1>4. request.pc = "no" /\ recovering = {NoTrial}
  BY <1>1 DEF Open
<1> QED
  BY <1>2, <1>3, <1>4 DEF NoneOpen

\* Handlers have different names.
LEMMA Handlers ==
  /\ \A t, u : <<"fin", t>> = <<"fin", u>> => t = u
  /\ \A c, d : <<"ctl", c>> = <<"ctl", d>> => c = d
  /\ \A t, c : <<"fin", t>> # <<"ctl", c>>
  /\ \A t : <<"fin", t>> # <<"request">> /\ <<"fin", t>> # <<"recover">>
  /\ \A c : <<"ctl", c>> # <<"request">> /\ <<"ctl", c>> # <<"recover">>
  /\ <<"request">> # <<"recover">>
OBVIOUS

LEMMA OnlyFin ==
  ASSUME ~Overtaken, NEW t \in Trials, MayRun(<<"fin", t>>)
  PROVE  /\ \A u \in Trials : u # t => fin[u].pc = "no"
         /\ \A c \in Controllers : ctl[c].pc # "looking"
         /\ request.pc = "no" /\ recovering = {NoTrial}
BY MayRunAlone, Handlers

LEMMA OnlyCtl ==
  ASSUME ~Overtaken, NEW c \in Controllers, MayRun(<<"ctl", c>>)
  PROVE  /\ \A u \in Trials : fin[u].pc = "no"
         /\ request.pc = "no" /\ recovering = {NoTrial}
BY MayRunAlone, Handlers

LEMMA OnlyRequest ==
  ASSUME ~Overtaken, MayRun(<<"request">>)
  PROVE  /\ \A u \in Trials : fin[u].pc = "no"
         /\ \A c \in Controllers : ctl[c].pc # "looking"
         /\ recovering = {NoTrial}
BY MayRunAlone, Handlers

LEMMA OnlyRecovery ==
  ASSUME ~Overtaken, MayRun(<<"recover">>)
  PROVE  /\ \A u \in Trials : fin[u].pc = "no"
         /\ \A c \in Controllers : ctl[c].pc # "looking"
         /\ request.pc = "no"
BY MayRunAlone, Handlers

\* _finalize_if_ready over all trials: nothing while one waits or runs, and else
\* the status that the trials call for.
LEMMA Concluded ==
  ASSUME NEW seen \in Seen, NEW rows \in [Trials -> Row], NEW round, NEW w,
         w = IfReady(seen, Statuses(rows), rows, round)
  PROVE  /\ w \in Seen
         /\ InStatus(rows, Active) # {} => w = seen
         /\ InStatus(rows, Active) = {} =>
              /\ w.status \in Ended \cup {"waiting_agent"}
              /\ Fits(w.status, rows)
              /\ w.status = "waiting_agent" => w.term = "none"
              /\ seen.status = "cancel_requested" /\ seen.term \notin Early => w.status = "cancelled"
         /\ seen.term # "none" => w.term = seen.term
         /\ w.term # seen.term => w.term \in {"novalid", "rounds"}
<1>1. w \in Seen
  BY IfReadyTyped
<1>2. Outstanding(Statuses(rows)) <=> InStatus(rows, Active) # {}
  BY DEF Outstanding, Statuses, InStatus
<1>3. InStatus(rows, Active) # {} => w = seen
  BY <1>2 DEF IfReady
<1>4. Fits(Verdict(rows), rows) /\ Verdict(rows) \in {"completed", "partially_failed", "failed"}
  BY DEF Fits, Verdict
<1>5. Fits(EarlyVerdict(rows), rows) /\ EarlyVerdict(rows) \in {"completed", "partially_failed", "failed"}
  BY DEF Fits, EarlyVerdict
<1>6. ASSUME InStatus(rows, Active) = {}
      PROVE  /\ w.status \in Ended \cup {"waiting_agent"}
             /\ Fits(w.status, rows)
             /\ w.status = "waiting_agent" => w.term = "none"
             /\ seen.status = "cancel_requested" /\ seen.term \notin Early => w.status = "cancelled"
             /\ seen.term # "none" => w.term = seen.term
             /\ w.term # seen.term => w.term \in {"novalid", "rounds"}
  <2>1. w = Finalized(seen, rows, round)
    BY <1>2, <1>6 DEF IfReady
  <2>2. CASE seen.term = "none" /\ seen.status # "cancel_requested"
    <3>1. CASE ~Ranked(rows)
      BY <1>4, <2>1, <2>2, <3>1 DEF Finalized, Ended
    <3>2. CASE Ranked(rows) /\ round >= MaxRounds
      BY <1>4, <2>1, <2>2, <3>2 DEF Finalized, Ended
    <3>3. CASE Ranked(rows) /\ ~(round >= MaxRounds)
      BY <2>1, <2>2, <3>3 DEF Finalized, Put, Fits, Seen
    <3> QED
      BY <3>1, <3>2, <3>3
  <2>3. CASE ~(seen.term = "none" /\ seen.status # "cancel_requested")
    <3>1. CASE seen.term \in Early
      <4>1. w = Put(seen, EarlyVerdict(rows))
        BY <2>1, <2>3, <3>1 DEF Finalized
      <4> QED
        BY <1>5, <3>1, <4>1 DEF Put, Seen, Ended
    <3>2. CASE seen.term \notin Early /\ seen.status = "cancel_requested"
      <4>1. w = Put(seen, "cancelled")
        BY <2>1, <2>3, <3>2 DEF Finalized
      <4> QED
        BY <3>2, <4>1 DEF Put, Seen, Ended, Fits
    <3>3. CASE seen.term \notin Early /\ seen.status # "cancel_requested"
      <4>1. w = Put(seen, Verdict(rows))
        BY <2>1, <2>3, <3>3 DEF Finalized
      <4> QED
        BY <1>4, <3>3, <4>1 DEF Put, Seen, Ended
    <3> QED
      BY <3>1, <3>2, <3>3
  <2> QED
    BY <2>2, <2>3
<1> QED
  BY <1>1, <1>3, <1>6

\* The columns that a handler has read and that nobody wrote since take the values
\* it wants.
LEMMA FlushWrites ==
  ASSUME TypeOK, NEW wanted \in Seen, Flush(Columns, wanted)
  PROVE  exp'.status = wanted.status /\ exp'.term = wanted.term /\ exp'.round = exp.round
BY ColumnsSeen DEF Flush, TypeOK

\* A handler that finalises, over what it makes of the experiment and the trials.
LEMMA ConcludingIsSound ==
  ASSUME Typed, EndsAreSound, NEW seen \in Seen, NEW rows \in [Trials -> Row],
         Flush(Columns, IfReady(seen, Statuses(rows), rows, exp.round)),
         JobsFollow', \A t \in Trials : fin'[t].pc = "no",
         InStatus(rows, Active) = {} => trial' = rows,
         InStatus(rows, Active) # {} =>
           /\ seen.status \in Ended => seen.term = "controller"
           /\ seen.status # "waiting_agent"
           /\ seen.term \in Early \/ seen.status \in {"cancel_requested", "cancelled"} =>
                ~Some(trial', "queued"),
         \A t \in Trials : trial[t].status = "none" => trial'[t].status = "none"
  PROVE  EndsAreSound'
<1> DEFINE w == IfReady(seen, Statuses(rows), rows, exp.round)
<1>1. /\ w \in Seen
      /\ InStatus(rows, Active) # {} => w = seen
      /\ InStatus(rows, Active) = {} =>
           /\ w.status \in Ended \cup {"waiting_agent"}
           /\ Fits(w.status, rows)
           /\ w.status = "waiting_agent" => w.term = "none"
  BY Concluded
<1>2. exp'.status = w.status /\ exp'.term = w.term /\ exp'.round = exp.round
  BY <1>1, FlushWrites DEF Typed
<1> HIDE DEF w
<1>3. NothingOwed'
  BY DEF NothingOwed
<1>4. RoundsToCome'
  BY <1>2 DEF EndsAreSound, RoundsToCome
<1>5. CASE InStatus(rows, Active) # {}
  <2>1. w = seen
    BY <1>1, <1>5
  <2>2. ~Settled'
    BY <1>2, <1>5, <2>1 DEF Settled
  <2>3. SettledIsWhole' /\ VerdictFits'
    BY <2>2 DEF Settled, SettledIsWhole, VerdictFits
  <2>4. Waits' /\ HaltedIsEmpty'
    BY <1>2, <1>5, <2>1 DEF Waits, HaltedIsEmpty, Halted
  <2> QED
    BY <1>3, <1>4, <2>3, <2>4 DEF EndsAreSound
<1>6. CASE InStatus(rows, Active) = {}
  <2>1. trial' = rows
    BY <1>6
  <2>2. InStatus(trial', Active) = {} /\ InStatus(job', Active) = {}
    BY <1>6, <2>1 DEF JobsFollow, InStatus, Active
  <2>3. SettledIsWhole' /\ HaltedIsEmpty'
    BY <2>2 DEF SettledIsWhole, HaltedIsEmpty, Some, InStatus, Active
  <2>4. VerdictFits' /\ Waits'
    BY <1>1, <1>2, <1>6, <2>1 DEF VerdictFits, Waits, Fits
  <2> QED
    BY <1>3, <1>4, <2>3, <2>4 DEF EndsAreSound
<1> QED
  BY <1>5, <1>6

-----------------------------------------------------------------------------
(* The steps, one lemma per action.                                          *)

\* A finalisation, a request or a recovery that was opened is the only one: where
\* none is, there is nothing that has been read.
LEMMA NothingRead ==
  ASSUME \A t \in Trials : fin'[t].pc # "read", request'.pc = "no", recovering' = {NoTrial}
  PROVE  AsRead'
BY DEF AsRead

\* The controllers that have a trial at hand keep it, or let it go.
LEMMA HandsKept ==
  ASSUME InHand,
         \A c \in Controllers : AtHand(c)' => /\ AtHand(c) /\ ctl'[c].trial = ctl[c].trial
                                              /\ trial'[ctl[c].trial].status = "running"
                                              /\ job'[ctl[c].trial].status \notin Active
  PROVE  InHand'
BY DEF InHand, AtHand

\* Trials end only where the experiment is at work, or was ended by the agent.
LEMMA NotSettled ==
  ASSUME EndsAreSound, NEW t \in Trials, trial[t].status \in Active
  PROVE  ~Settled
BY DEF EndsAreSound, SettledIsWhole, Settled, InStatus

\* The experiment is as it was, and no trial waits that did not.
LEMMA SameExperiment ==
  ASSUME EndsAreSound, UNCHANGED exp, ~Settled,
         \A t \in Trials : /\ trial[t].status = "none" => trial'[t].status = "none"
                           /\ trial'[t].status = "queued" => trial[t].status = "queued"
  PROVE  EndsAreSound' /\ (Halted => Halted' /\ exp'.round = exp.round)
<1>1. ~Settled'
  BY DEF Settled
<1>2. SettledIsWhole' /\ NothingOwed' /\ VerdictFits'
  BY <1>1 DEF Settled, SettledIsWhole, NothingOwed, VerdictFits
<1>3. Waits' /\ HaltedIsEmpty' /\ RoundsToCome'
  BY DEF EndsAreSound, Waits, HaltedIsEmpty, RoundsToCome, Halted, Some, InStatus
<1> QED
  BY <1>2, <1>3 DEF EndsAreSound, Halted

\* Neither the experiment, nor the trials, nor what is owed changes.
LEMMA NothingEnds ==
  ASSUME EndsAreSound, UNCHANGED <<exp, trial>>,
         \A t \in Trials : job'[t].status \in Active => job[t].status \in Active,
         \A t \in Trials : fin[t].pc = "no" => fin'[t].pc = "no"
  PROVE  EndsAreSound' /\ Kept
<1>1. SettledIsWhole' /\ NothingOwed'
  BY DEF EndsAreSound, SettledIsWhole, NothingOwed, Settled, InStatus
<1>2. VerdictFits' /\ Waits' /\ HaltedIsEmpty' /\ RoundsToCome'
  BY DEF EndsAreSound, VerdictFits, Waits, HaltedIsEmpty, RoundsToCome, Halted, Some, InStatus
<1> QED
  BY <1>1, <1>2 DEF EndsAreSound, Kept, Halted

LEMMA FinalizeReadStep ==
  ASSUME ResInv, ~Overtaken, NEW t \in Trials, FinalizeRead(t)
  PROVE  Held' /\ EndsAreSound' /\ Kept
<1>1. /\ \A u \in Trials : u # t => fin[u].pc = "no"
      /\ request.pc = "no" /\ recovering = {NoTrial}
  BY OnlyFin DEF FinalizeRead
<1>2. fin \in [Trials -> FinRow]
  BY TypedParts DEF ResInv
<1>3. AsRead'
  BY <1>1, <1>2 DEF FinalizeRead, AsRead, Columns, Statuses, FinRow
<1>4. JobsFollow' /\ InHand' /\ Restarts'
  BY DEF ResInv, Held, FinalizeRead, JobsFollow, InHand, AtHand, Restarts
<1>5. ~Settled
  BY DEF FinalizeRead, ResInv, EndsAreSound, NothingOwed
<1>6. EndsAreSound' /\ (Halted => Halted' /\ exp'.round = exp.round)
  BY <1>5, SameExperiment DEF ResInv, FinalizeRead
<1> QED
  BY <1>3, <1>4, <1>6 DEF Held, Kept, FinalizeRead

\* What cancelling the queued trials does to hands, jobs and ended trials: nothing.
LEMMA QueuedOnes ==
  ASSUME Typed
  PROVE  /\ CancelQueued(trial) \in [Trials -> Row]
         /\ \A t \in Trials :
              /\ CancelQueued(trial)[t].status # "queued"
              /\ trial[t].status # "queued" => CancelQueued(trial)[t].status = trial[t].status
              /\ CancelQueued(trial)[t].status \in Active <=> trial[t].status = "running"
              /\ CancelQueued(trial)[t].status = "none" <=> trial[t].status = "none"
BY CancelledRows, TypedParts DEF Active

\* Stopped by the policy, by whichever handler: what it cancels, and finalises.
LEMMA StopIsSound ==
  ASSUME ResInv, Stoppable(Columns), UNCHANGED <<job, ctl>>,
         Flush(Columns, IfReady(Stopped(Columns), Statuses(CancelQueued(trial)), CancelQueued(trial), exp.round)),
         trial' = CancelQueued(trial), \A t \in Trials : fin'[t].pc = "no"
  PROVE  JobsFollow' /\ InHand' /\ EndsAreSound' /\ Kept
<1>1. JobsFollow'
  BY QueuedOnes DEF ResInv, Held, JobsFollow
<1>2. InHand'
  BY QueuedOnes, HandsKept DEF ResInv, Held, InHand, AtHand, Active
<1>3. Columns \in Seen /\ Columns.status = exp.status /\ Columns.term = exp.term
  BY ColumnsSeen DEF ResInv, Typed
<1>4. Stopped(Columns) \in Seen /\ Stopped(Columns).status = exp.status /\ Stopped(Columns).term = "policy"
  BY <1>3 DEF Stopped, Seen, Reasons, Early
<1>5. exp.status \notin Ended /\ exp.term = "none"
  BY <1>3 DEF Stoppable
<1>6. InStatus(CancelQueued(trial), Active) # {} => exp.status # "waiting_agent"
  BY <1>5, QueuedOnes, NotSettled DEF ResInv, InStatus, Settled, Active
<1>7. EndsAreSound'
  BY <1>1, <1>4, <1>5, <1>6, QueuedOnes, ConcludingIsSound
     DEF ResInv, Some, InStatus, Ended
<1>8. exp'.term = "policy" /\ exp'.round = exp.round
  BY <1>4, QueuedOnes, Concluded, FlushWrites DEF ResInv, Typed
<1>9. Kept
  BY <1>8, QueuedOnes DEF Kept, Halted, Early, Over, ResInv
<1> QED
  BY <1>1, <1>2, <1>7, <1>9

LEMMA FinalizeWriteStep ==
  ASSUME ResInv, ~Overtaken, NEW t \in Trials, FinalizeWrite(t)
  PROVE  Held' /\ EndsAreSound' /\ Kept
<1>1. /\ \A u \in Trials : u # t => fin[u].pc = "no"
      /\ request.pc = "no" /\ recovering = {NoTrial}
  BY OnlyFin DEF FinalizeWrite
<1>2. fin[t].pc = "read" /\ fin[t].seen = Columns /\ fin[t].busy = Statuses(trial)
  BY DEF FinalizeWrite, ResInv, Held, AsRead
<1>3. fin \in [Trials -> FinRow] /\ Typed /\ trial \in [Trials -> Row]
  BY TypedParts DEF ResInv
<1>4. \A u \in Trials : fin'[u].pc = "no"
  BY <1>1, <1>3 DEF FinalizeWrite, Nothing
<1>5. AsRead' /\ Restarts'
  BY <1>1, <1>4, NothingRead DEF FinalizeWrite, ResInv, Held, Restarts
<1>6. ~Settled
  BY <1>2 DEF ResInv, EndsAreSound, NothingOwed
<1>7. CASE PolicyApplies(Columns)
  <2>1. /\ Flush(Columns, IfReady(Stopped(Columns), Statuses(CancelQueued(trial)), CancelQueued(trial), exp.round))
        /\ trial' = CancelQueued(trial) /\ UNCHANGED <<job, ctl>>
    BY <1>2, <1>7 DEF FinalizeWrite
  <2> QED
    BY <1>4, <1>5, <1>7, <2>1, StopIsSound DEF PolicyApplies, Held
<1>8. CASE ~PolicyApplies(Columns)
  <2>1. /\ Flush(Columns, IfReady(Columns, Statuses(trial), trial, exp.round))
        /\ UNCHANGED <<trial, job, ctl>>
    BY <1>2, <1>8 DEF FinalizeWrite
  <2>2. JobsFollow' /\ InHand'
    BY <2>1 DEF ResInv, Held, JobsFollow, InHand, AtHand
  <2>3. Columns \in Seen /\ Columns.status = exp.status /\ Columns.term = exp.term
    BY <1>3, ColumnsSeen DEF Typed
  <2>4. InStatus(trial, Active) # {} =>
           /\ exp.status \in Ended => exp.term = "controller"
           /\ exp.status # "waiting_agent"
           /\ Halted => ~Some(trial, "queued")
    BY <1>6 DEF Settled, ResInv, EndsAreSound, Waits, HaltedIsEmpty
  <2>5. EndsAreSound'
    BY <1>3, <1>4, <2>1, <2>2, <2>3, <2>4, ConcludingIsSound DEF ResInv, Halted
  <2>6. Halted => Halted' /\ exp'.round = exp.round
    <3> DEFINE w == IfReady(Columns, Statuses(trial), trial, exp.round)
    <3>1. /\ w \in Seen
          /\ exp.term # "none" => w.term = exp.term
          /\ exp.status = "cancel_requested" /\ exp.term \notin Early => w.status \in {"cancel_requested", "cancelled"}
      BY <1>3, <2>3, Concluded
    <3>2. exp'.status = w.status /\ exp'.term = w.term /\ exp'.round = exp.round
      BY <1>3, <2>1, <3>1, FlushWrites DEF Typed
    <3>3. Halted => exp.term \in Early \/ exp.status = "cancel_requested"
      BY <1>6 DEF Halted, Settled, Ended, Early
    <3> HIDE DEF w
    <3> QED
      BY <3>1, <3>2, <3>3 DEF Halted, Early
  <2> QED
    BY <1>5, <2>1, <2>2, <2>5, <2>6 DEF Held, Kept
<1> QED
  BY <1>7, <1>8

LEMMA PolicyStep ==
  ASSUME ResInv, ~Overtaken, EnforcePolicy \/ UpdateTokenUsage
  PROVE  Held' /\ EndsAreSound' /\ Kept
<1>1. NoneOpen /\ alive
  BY QuietIsClosed DEF EnforcePolicy, UpdateTokenUsage
<1>2. UNCHANGED <<job, ctl, fin, request, recovering, alive>>
  BY DEF EnforcePolicy, UpdateTokenUsage
<1>3. AsRead' /\ Restarts'
  BY <1>1, <1>2, NothingRead DEF NoneOpen, Restarts
<1>4. CASE Stoppable(Columns) /\ StopByPolicy
  BY <1>1, <1>2, <1>3, <1>4, StopIsSound DEF StopByPolicy, NoneOpen, Held
<1>5. CASE UNCHANGED <<exp, trial>>
  <2>1. JobsFollow' /\ InHand'
    BY <1>2, <1>5 DEF ResInv, Held, JobsFollow, InHand, AtHand
  <2> QED
    BY <1>2, <1>3, <1>5, <2>1, NothingEnds DEF ResInv, Held
<1> QED
  BY <1>4, <1>5 DEF EnforcePolicy, UpdateTokenUsage, PolicyApplies

LEMMA LookStep ==
  ASSUME ResInv, ~Overtaken, NEW c \in Controllers, Look(c)
  PROVE  Held' /\ EndsAreSound' /\ Kept
<1>1. NoneOpen /\ alive
  BY QuietIsClosed DEF Look
<1>2. CtlTyped(ctl)
  BY TypedParts DEF ResInv
<1>3. AsRead' /\ Restarts' /\ JobsFollow'
  BY <1>1, NothingRead DEF Look, ResInv, Held, NoneOpen, Restarts, JobsFollow
<1>4. InHand'
  BY <1>2, HandsKept DEF Look, ResInv, Held, InHand, AtHand, CtlTyped
<1> QED
  BY <1>3, <1>4, NothingEnds DEF Look, ResInv, Held

LEMMA ClaimStep ==
  ASSUME ResInv, ~Overtaken, NEW c \in Controllers, Claim(c)
  PROVE  Held' /\ EndsAreSound' /\ Kept
<1>1. (\A u \in Trials : fin[u].pc = "no") /\ request.pc = "no" /\ recovering = {NoTrial}
  BY OnlyCtl DEF Claim
<1>2. CtlTyped(ctl) /\ trial \in [Trials -> Row] /\ ExpTyped(exp)
  BY TypedParts DEF ResInv
<1>3. alive
  BY DEF Claim, ResInv, Held, Restarts
<1>4. AsRead' /\ Restarts'
  BY <1>1, <1>3, NothingRead DEF Claim, Restarts
<1>5. CASE ctl' = [ctl EXCEPT ![c] = Resting] /\ UNCHANGED <<exp, trial>>
  <2>1. JobsFollow' /\ InHand'
    BY <1>2, <1>5, HandsKept DEF Claim, ResInv, Held, InHand, AtHand, JobsFollow, CtlTyped, Resting
  <2> QED
    BY <1>4, <1>5, <2>1, NothingEnds DEF Claim, ResInv, Held
<1>6. ASSUME NEW t \in Trials, trial[t].status = "queued", Claimable,
             trial' = [trial EXCEPT ![t] = Put(@, "running")],
             exp' = [exp EXCEPT !.status = "running"],
             ctl' = [ctl EXCEPT ![c] = [pc |-> "claimed", trial |-> t]]
      PROVE  Held' /\ EndsAreSound' /\ Kept
  <2>1. /\ trial'[t].status = "running"
        /\ \A u \in Trials : u # t => trial'[u] = trial[u]
    BY <1>2, <1>6 DEF Put, Row
  <2>2. JobsFollow'
    BY <2>1 DEF Claim, ResInv, Held, JobsFollow
  <2>3. job[t].status \notin Active
    BY <1>6 DEF ResInv, Held, JobsFollow
  <2>4. /\ AtHand(c)' /\ ctl'[c].trial = t
        /\ \A b \in Controllers : b # c => ctl'[b] = ctl[b]
    BY <1>2, <1>6 DEF CtlTyped, AtHand
  <2>5. \A b \in Controllers : AtHand(b) => ctl[b].trial # t
    BY <1>6 DEF ResInv, Held, InHand
  <2>6. InHand'
    <3>1. ASSUME NEW b \in Controllers, AtHand(b)'
          PROVE  /\ ctl'[b].trial \in Trials
                 /\ trial'[ctl'[b].trial].status = "running"
                 /\ job'[ctl'[b].trial].status \notin Active
      BY <2>1, <2>3, <2>4, <2>5, <3>1 DEF Claim, ResInv, Held, InHand, AtHand
    <3>2. ASSUME NEW a \in Controllers, NEW b \in Controllers, a # b, AtHand(a)', AtHand(b)'
          PROVE  ctl'[a].trial # ctl'[b].trial
      BY <2>4, <2>5, <3>2 DEF ResInv, Held, InHand, AtHand
    <3> QED
      BY <3>1, <3>2 DEF InHand
  <2>7. exp'.status = "running" /\ exp'.term = exp.term /\ exp'.round = exp.round
    BY <1>2, <1>6 DEF ExpTyped
  <2>8. exp.term \notin Early
    BY <1>6 DEF ResInv, EndsAreSound, HaltedIsEmpty, Halted, Some, InStatus
  <2>9. EndsAreSound'
    <3>1. SettledIsWhole' /\ NothingOwed' /\ VerdictFits' /\ Waits' /\ HaltedIsEmpty'
      BY <2>7, <2>8 DEF SettledIsWhole, NothingOwed, Settled, VerdictFits, Waits, HaltedIsEmpty, Halted, Ended
    <3>2. RoundsToCome'
      BY <1>6, <2>1, <2>7 DEF ResInv, EndsAreSound, RoundsToCome
    <3> QED
      BY <3>1, <3>2 DEF EndsAreSound
  <2>10. Kept
    BY <1>6, <2>1, <2>8 DEF Kept, Halted, Claimable, Active, Over
  <2> QED
    BY <1>4, <2>2, <2>6, <2>9, <2>10 DEF Held
<1> QED
  BY <1>5, <1>6 DEF Claim, InStatus

\* The trial of a controller ends: committed, and the finalisation is owed.
LEMMA EndsHereStep ==
  ASSUME ResInv, NoneOpen, NEW c \in Controllers, AtHand(c), NEW status \in Over, EndsHere(c, status)
  PROVE  Held' /\ EndsAreSound' /\ Kept
<1> DEFINE t == ctl[c].trial
<1>1. CtlTyped(ctl) /\ trial \in [Trials -> Row] /\ fin \in [Trials -> FinRow]
  BY TypedParts DEF ResInv
<1>2. t \in Trials /\ trial[t].status = "running" /\ job[t].status \notin Active
  BY DEF ResInv, Held, InHand
<1>3. /\ trial'[t].status = status
      /\ \A u \in Trials : u # t => trial'[u] = trial[u]
  BY <1>1, <1>2 DEF EndsHere, End
<1>4. \A u \in Trials : fin'[u].pc # "read"
  BY <1>1 DEF EndsHere, NoneOpen, Owed, Nothing
<1>5. \A b \in Controllers : AtHand(b)' => b # c /\ AtHand(b) /\ ctl'[b].trial = ctl[b].trial
  BY <1>1 DEF EndsHere, AtHand, Resting, CtlTyped
<1>6. AsRead' /\ Restarts'
  BY <1>1, <1>4, <1>5, NothingRead DEF EndsHere, NoneOpen, ResInv, Held, Restarts, CtlTyped, Resting
<1>7. JobsFollow'
  BY <1>2, <1>3 DEF EndsHere, ResInv, Held, JobsFollow
<1>8. InHand'
  BY <1>2, <1>3, <1>5, HandsKept DEF EndsHere, ResInv, Held, InHand
<1>9. ~Settled
  BY <1>2, NotSettled DEF ResInv, Active
<1>10. EndsAreSound' /\ (Halted => Halted' /\ exp'.round = exp.round)
  BY <1>2, <1>3, <1>9, SameExperiment DEF EndsHere, ResInv, Over
<1>11. Kept
  BY <1>2, <1>3, <1>10 DEF Kept, Over
<1> QED
  BY <1>6, <1>7, <1>8, <1>10, <1>11 DEF Held

LEMMA ControllerEndsStep ==
  ASSUME ResInv, ~Overtaken, NEW c \in Controllers, FinishCancelledClaim(c) \/ TrialFails(c)
  PROVE  Held' /\ EndsAreSound' /\ Kept
<1>1. NoneOpen /\ AtHand(c)
  BY QuietIsClosed DEF FinishCancelledClaim, TrialFails, AtHand
<1> QED
  BY <1>1, EndsHereStep DEF FinishCancelledClaim, TrialFails, Over

LEMMA PrepareStep ==
  ASSUME ResInv, ~Overtaken, NEW c \in Controllers, PrepareBacktestRun(c)
  PROVE  Held' /\ EndsAreSound' /\ Kept
<1>1. NoneOpen
  BY QuietIsClosed DEF PrepareBacktestRun
<1>2. CtlTyped(ctl)
  BY TypedParts DEF ResInv
<1>3. \A b \in Controllers : /\ AtHand(b)' => AtHand(b)
                             /\ ctl'[b].trial = ctl[b].trial
                             /\ ctl[b].pc = "idle" => ctl'[b].pc = "idle"
  BY <1>2 DEF PrepareBacktestRun, AtHand, CtlTyped
<1>4. ctl[c].pc # "idle"
  BY DEF PrepareBacktestRun
<1>5. AsRead' /\ Restarts' /\ JobsFollow'
  BY <1>1, <1>3, NothingRead DEF PrepareBacktestRun, ResInv, Held, NoneOpen, Restarts, JobsFollow
<1>6. InHand'
  BY <1>3, HandsKept DEF PrepareBacktestRun, ResInv, Held, InHand
<1> QED
  BY <1>5, <1>6, NothingEnds DEF PrepareBacktestRun, ResInv, Held

LEMMA EnqueueStep ==
  ASSUME ResInv, ~Overtaken, NEW c \in Controllers, EnqueueJob(c)
  PROVE  Held' /\ EndsAreSound' /\ Kept
<1> DEFINE t == ctl[c].trial
<1>1. NoneOpen
  BY QuietIsClosed DEF EnqueueJob
<1>2. CtlTyped(ctl) /\ JobTyped(job)
  BY TypedParts DEF ResInv
<1>3. t \in Trials /\ trial[t].status = "running" /\ AtHand(c)
  BY DEF EnqueueJob, ResInv, Held, InHand, AtHand
<1>4. \A u \in Trials : u # t => job'[u] = job[u]
  BY <1>2 DEF EnqueueJob, JobTyped
<1>5. \A b \in Controllers : /\ AtHand(b)' => b # c /\ AtHand(b) /\ ctl'[b].trial = ctl[b].trial
                             /\ ctl[b].pc = "idle" => ctl'[b].pc = "idle"
  BY <1>2 DEF EnqueueJob, AtHand, CtlTyped, Resting
<1>6. AsRead' /\ Restarts' /\ JobsFollow'
  BY <1>1, <1>3, <1>4, <1>5, NothingRead DEF EnqueueJob, ResInv, Held, NoneOpen, Restarts, JobsFollow
<1>7. InHand'
  BY <1>3, <1>4, <1>5, HandsKept DEF EnqueueJob, ResInv, Held, InHand
<1>8. ~Settled
  BY <1>3, NotSettled DEF ResInv, Active
<1>9. EndsAreSound' /\ (Halted => Halted' /\ exp'.round = exp.round)
  BY <1>8, SameExperiment DEF EnqueueJob, ResInv
<1> QED
  BY <1>6, <1>7, <1>9 DEF Held, Kept, EnqueueJob

LEMMA JobMovesStep ==
  ASSUME ResInv, ~Overtaken, NEW t \in Trials, JobStarts(t) \/ JobRequeued(t)
  PROVE  Held' /\ EndsAreSound' /\ Kept
<1>1. NoneOpen
  BY QuietIsClosed DEF JobStarts, JobRequeued
<1>2. job[t].status \in Active
  BY DEF JobStarts, JobRequeued, Active
<1>3. trial[t].status = "running"
  BY <1>2 DEF ResInv, Held, JobsFollow
<1>4. \A u \in Trials : u # t => job'[u] = job[u]
  BY TypedParts DEF JobStarts, JobRequeued, ResInv, JobTyped
<1>5. \A b \in Controllers : AtHand(b) => ctl[b].trial # t
  BY <1>2 DEF ResInv, Held, InHand
<1>6. UNCHANGED <<exp, trial, ctl, fin, request, recovering, alive>>
  BY DEF JobStarts, JobRequeued
<1>7. AsRead' /\ Restarts' /\ JobsFollow'
  BY <1>1, <1>3, <1>4, <1>6, NothingRead DEF ResInv, Held, NoneOpen, Restarts, JobsFollow
<1>8. InHand'
  BY <1>4, <1>5, <1>6, HandsKept DEF ResInv, Held, InHand, AtHand
<1>9. ~Settled
  BY <1>3, NotSettled DEF ResInv, Active
<1>10. EndsAreSound' /\ (Halted => Halted' /\ exp'.round = exp.round)
  BY <1>6, <1>9, SameExperiment DEF ResInv
<1> QED
  BY <1>6, <1>7, <1>8, <1>10 DEF Held, Kept

LEMMA JobEndsStep ==
  ASSUME ResInv, ~Overtaken, NEW t \in Trials, NEW status \in Over, JobEnds(t, status)
  PROVE  Held' /\ EndsAreSound' /\ Kept
<1>1. NoneOpen
  BY QuietIsClosed DEF JobEnds
<1>2. job[t].status = "running" /\ trial[t].status = "running"
  BY DEF JobEnds, ResInv, Held, JobsFollow, Active
<1>3. /\ job'[t].status = status /\ trial'[t].status = status
      /\ \A u \in Trials : u # t => job'[u] = job[u] /\ trial'[u] = trial[u]
  BY TypedParts DEF JobEnds, ResInv, JobTyped, End, EndJob
<1>4. \A b \in Controllers : AtHand(b) => ctl[b].trial # t
  BY <1>2 DEF ResInv, Held, InHand, Active
<1>5. \A u \in Trials : fin'[u].pc # "read"
  BY <1>1, TypedParts DEF JobEnds, NoneOpen, Owed, Nothing, ResInv
<1>6. AsRead' /\ Restarts' /\ JobsFollow'
  BY <1>1, <1>3, <1>5, NothingRead DEF JobEnds, ResInv, Held, NoneOpen, Restarts, JobsFollow, Over, Active
<1>7. InHand'
  BY <1>3, <1>4, HandsKept DEF JobEnds, ResInv, Held, InHand, AtHand
<1>8. ~Settled
  BY <1>2, NotSettled DEF ResInv, Active
<1>9. EndsAreSound' /\ (Halted => Halted' /\ exp'.round = exp.round)
  BY <1>2, <1>3, <1>8, SameExperiment DEF JobEnds, ResInv, Over
<1> QED
  BY <1>2, <1>3, <1>6, <1>7, <1>9 DEF Held, Kept, Over

LEMMA CancelTrialStep ==
  ASSUME ResInv, ~Overtaken, NEW t \in Trials, CancelTrial(t)
  PROVE  Held' /\ EndsAreSound' /\ Kept
<1> DEFINE ends == job[t].status = "queued" \/ (job[t].status = "none" /\ trial[t].status = "queued")
<1>1. NoneOpen
  BY QuietIsClosed DEF CancelTrial
<1>2. trial[t].status \in Active /\ job[t].status \notin Over
  BY DEF CancelTrial
<1>3. trial \in [Trials -> Row] /\ job \in [Trials -> JobRow] /\ fin \in [Trials -> FinRow]
  BY TypedParts DEF ResInv, JobTyped
<1>4. /\ trial'[t].status = IF ends THEN "cancelled" ELSE trial[t].status
      /\ job'[t].status = IF ends /\ job[t].status # "none" THEN "cancelled" ELSE job[t].status
      /\ \A u \in Trials : u # t => job'[u] = job[u] /\ trial'[u] = trial[u]
  <2>1. /\ End("cancelled").status = "cancelled" /\ Ask(trial[t]).status = trial[t].status
        /\ EndJob("cancelled").status = "cancelled" /\ Ask(job[t]).status = job[t].status
    BY <1>3, RowWrites, JobWrites DEF Over
  <2> QED
    BY <1>3, <2>1 DEF CancelTrial
<1>5. \A u \in Trials : fin'[u].pc # "read"
  BY <1>1, <1>3 DEF CancelTrial, NoneOpen, Owed, Nothing
<1>6. ends => \A b \in Controllers : AtHand(b) => ctl[b].trial # t
  BY DEF ResInv, Held, InHand, Active
<1>7. AsRead' /\ Restarts' /\ JobsFollow'
  BY <1>1, <1>4, <1>5, NothingRead
     DEF CancelTrial, ResInv, Held, NoneOpen, Restarts, JobsFollow, Over, Active
<1>8. InHand'
  BY <1>4, <1>6, HandsKept DEF CancelTrial, ResInv, Held, InHand, AtHand
<1>9. ~Settled
  BY <1>2, NotSettled DEF ResInv
<1>10. EndsAreSound' /\ (Halted => Halted' /\ exp'.round = exp.round)
  BY <1>2, <1>4, <1>9, SameExperiment DEF CancelTrial, ResInv, Active
<1> QED
  BY <1>2, <1>4, <1>7, <1>8, <1>10 DEF Held, Kept, Over, Active

LEMMA CancelReadStep ==
  ASSUME ResInv, ~Overtaken, CancelRead
  PROVE  Held' /\ EndsAreSound' /\ Kept
<1>1. NoneOpen
  BY QuietIsClosed DEF CancelRead
<1>2. AsRead'
  BY <1>1 DEF CancelRead, NoneOpen, AsRead, Columns
<1>3. JobsFollow' /\ InHand' /\ Restarts'
  BY DEF CancelRead, ResInv, Held, JobsFollow, InHand, AtHand, Restarts
<1> QED
  BY <1>2, <1>3, NothingEnds DEF CancelRead, ResInv, Held

LEMMA CancelWriteStep ==
  ASSUME ResInv, ~Overtaken, CancelWrite
  PROVE  Held' /\ EndsAreSound' /\ Kept
<1> DEFINE rows == CancelQueued(trial)
           asked == Put(Columns, "cancel_requested")
<1>1. (\A u \in Trials : fin[u].pc = "no") /\ recovering = {NoTrial}
  BY OnlyRequest DEF CancelWrite
<1>2. request.seen = Columns /\ exp.status \notin Ended
  BY DEF CancelWrite, ResInv, Held, AsRead
<1>3. /\ Flush(Columns, IfReady(asked, Statuses(rows), rows, exp.round))
      /\ UNCHANGED <<ctl, fin, recovering, alive>>
      /\ request'.pc = "no"
  BY <1>2 DEF CancelWrite, NoRequest
<1>4. ASSUME NEW t \in Trials
      PROVE  /\ trial'[t].status = IF job[t].status = "queued" THEN "cancelled" ELSE rows[t].status
             /\ job'[t].status = IF job[t].status = "queued" THEN "cancelled" ELSE job[t].status
  <2>1. End("cancelled").status = "cancelled" /\ EndJob("cancelled").status = "cancelled"
        /\ Ask(job[t]).status = job[t].status
    BY TypedParts, RowWrites, JobWrites DEF Over, ResInv, JobTyped
  <2> QED
    BY <2>1 DEF CancelWrite, InStatus
<1>5. AsRead' /\ Restarts'
  BY <1>1, <1>3, NothingRead DEF ResInv, Held, Restarts
<1>6. JobsFollow'
  BY <1>4, QueuedOnes DEF ResInv, Held, JobsFollow, Active
<1>7. InHand'
  BY <1>3, <1>4, QueuedOnes, HandsKept DEF ResInv, Held, InHand, AtHand, Active
<1>8. /\ asked \in Seen /\ asked.status = "cancel_requested" /\ asked.term = exp.term
      /\ rows \in [Trials -> Row] /\ Typed
  BY ColumnsSeen, QueuedOnes DEF Put, Seen, ResInv, Typed
<1>9. InStatus(rows, Active) = {} => trial' = rows
  <2>1. ASSUME InStatus(rows, Active) = {}, NEW t \in Trials PROVE job[t].status # "queued"
    BY <2>1, QueuedOnes DEF InStatus, ResInv, Held, JobsFollow, Active
  <2>2. InStatus(rows, Active) = {} => trial' = [t \in Trials |-> rows[t]]
    BY <2>1 DEF CancelWrite, InStatus
  <2> QED
    BY <1>8, <2>2
<1>10. \A t \in Trials : /\ trial'[t].status # "queued"
                         /\ trial[t].status = "none" => trial'[t].status = "none"
                         /\ trial[t].status \in Over => trial'[t].status = trial[t].status
  BY <1>4, QueuedOnes DEF ResInv, Held, JobsFollow, Active, Over
<1> HIDE DEF rows, asked
<1>11. EndsAreSound'
  BY <1>1, <1>3, <1>6, <1>8, <1>9, <1>10, ConcludingIsSound DEF ResInv, Some, InStatus, Ended
<1>12. Halted => Halted' /\ exp'.round = exp.round
  <2> DEFINE w == IfReady(asked, Statuses(rows), rows, exp.round)
  <2>1. /\ w \in Seen
        /\ exp.term # "none" => w.term = exp.term
        /\ exp.term \notin Early => w.status \in {"cancel_requested", "cancelled"}
    BY <1>8, Concluded
  <2>2. exp'.status = w.status /\ exp'.term = w.term /\ exp'.round = exp.round
    BY <1>3, <1>8, <2>1, FlushWrites DEF Typed
  <2> HIDE DEF w
  <2> QED
    BY <2>1, <2>2 DEF Halted, Early
<1> QED
  BY <1>5, <1>6, <1>7, <1>10, <1>11, <1>12 DEF Held, Kept

LEMMA SubmitRoundStep ==
  ASSUME ResInv, ~Overtaken, SubmitRound
  PROVE  Held' /\ EndsAreSound' /\ Kept
<1>1. NoneOpen /\ alive
  BY QuietIsClosed DEF SubmitRound
<1>2. ExpTyped(exp) /\ trial \in [Trials -> Row]
  BY TypedParts DEF ResInv
<1>3. exp.status = "waiting_agent" /\ exp.term = "none"
  BY DEF SubmitRound, AwaitsRound, ResInv, EndsAreSound, Waits
<1>4. exp'.status = "queued" /\ exp'.term = "none" /\ exp'.round = exp.round + 1
  BY <1>2, <1>3 DEF SubmitRound, ExpTyped
<1>5. exp.round \in Nat /\ Round \in [Trials -> 1 .. MaxRounds] /\ MaxRounds \in Nat
  BY <1>2, RoundsAssumption DEF ExpTyped
<1>6. ASSUME NEW t \in Trials
      PROVE  \/ trial'[t] = trial[t] /\ Round[t] # exp.round + 1
             \/ trial[t].status = "none" /\ trial'[t].status = "queued" /\ Round[t] = exp.round + 1
  <2>1. Round[t] = exp.round + 1 => trial[t].status = "none"
    BY <1>5 DEF ResInv, EndsAreSound, RoundsToCome
  <2>2. Put(trial[t], "queued").status = "queued"
    BY <1>2 DEF Put, Row
  <2>3. trial'[t] = IF Round[t] = exp.round + 1 THEN Put(trial[t], "queued") ELSE trial[t]
    BY DEF SubmitRound, WithRound, RoundTrials
  <2> QED
    BY <2>1, <2>2, <2>3
<1>7. AsRead' /\ Restarts' /\ JobsFollow'
  BY <1>1, <1>6, NothingRead DEF SubmitRound, ResInv, Held, NoneOpen, Restarts, JobsFollow
<1>8. InHand'
  BY <1>6, HandsKept DEF SubmitRound, ResInv, Held, InHand, AtHand
<1>9. SettledIsWhole' /\ NothingOwed' /\ VerdictFits' /\ Waits' /\ HaltedIsEmpty'
  BY <1>4 DEF SettledIsWhole, NothingOwed, Settled, VerdictFits, Waits, HaltedIsEmpty, Halted, Ended, Early
<1>10. RoundsToCome'
  <2>1. ASSUME NEW t \in Trials, Round[t] > exp.round + 1 PROVE trial'[t].status = "none"
    <3>1. Round[t] \in Nat
      BY <1>5
    <3>2. Round[t] > exp.round /\ Round[t] # exp.round + 1
      BY <1>5, <2>1, <3>1
    <3> QED
      BY <1>6, <3>2 DEF ResInv, EndsAreSound, RoundsToCome
  <2> QED
    BY <1>4, <2>1 DEF RoundsToCome
<1>11. Kept
  BY <1>3, <1>6 DEF Kept, Halted, Over, Early
<1> QED
  BY <1>7, <1>8, <1>9, <1>10, <1>11 DEF Held, EndsAreSound

LEMMA ControllerFailsStep ==
  ASSUME ResInv, ~Overtaken, ControllerFails
  PROVE  Held' /\ EndsAreSound' /\ Kept
<1>1. NoneOpen /\ alive
  BY QuietIsClosed DEF ControllerFails
<1>2. exp'.status \in {"partially_failed", "failed"} /\ exp'.term = "controller" /\ exp'.round = exp.round
  BY TypedParts DEF ControllerFails, ResInv, ExpTyped
<1>3. AsRead' /\ Restarts'
  BY <1>1, NothingRead DEF ControllerFails, NoneOpen, Restarts
<1>4. JobsFollow'
  BY QueuedOnes DEF ControllerFails, ResInv, Held, JobsFollow
<1>5. InHand'
  BY QueuedOnes, HandsKept DEF ControllerFails, ResInv, Held, InHand, AtHand
<1>6. SettledIsWhole' /\ NothingOwed' /\ VerdictFits' /\ Waits'
  BY <1>2 DEF SettledIsWhole, NothingOwed, Settled, VerdictFits, Waits
<1>7. HaltedIsEmpty' /\ RoundsToCome'
  BY <1>2, QueuedOnes DEF ControllerFails, ResInv, EndsAreSound, HaltedIsEmpty, RoundsToCome, Some, InStatus
<1>8. Kept
  BY <1>2, QueuedOnes DEF ControllerFails, ResInv, Kept, Halted, Early, Over
<1> QED
  BY <1>3, <1>4, <1>5, <1>6, <1>7, <1>8 DEF Held, EndsAreSound

LEMMA CrashStep ==
  ASSUME ResInv, Crash
  PROVE  Held' /\ EndsAreSound' /\ Kept
<1>1. \A t \in Trials : fin'[t] = Nothing \/ fin'[t] = fin[t]
  BY DEF Crash
<1>2. AsRead'
  BY <1>1 DEF Crash, ResInv, Held, AsRead, Columns, Statuses, Nothing, NoRequest
<1>3. JobsFollow' /\ InHand' /\ Restarts'
  BY DEF Crash, ResInv, Held, JobsFollow, InHand, AtHand, Restarts, Resting
<1>4. \A t \in Trials : fin[t].pc = "no" => fin'[t].pc = "no"
  BY <1>1 DEF Nothing
<1> QED
  BY <1>2, <1>3, <1>4, NothingEnds DEF Crash, ResInv, Held

LEMMA RecoverReadStep ==
  ASSUME ResInv, ~Overtaken, RecoverRead
  PROVE  Held' /\ EndsAreSound' /\ Kept
<1>1. NoneOpen
  BY QuietIsClosed DEF RecoverRead
<1>2. AsRead'
  BY <1>1 DEF RecoverRead, NoneOpen, AsRead, InStatus
<1>3. JobsFollow' /\ InHand' /\ Restarts'
  BY DEF RecoverRead, ResInv, Held, JobsFollow, InHand, AtHand, Restarts
<1> QED
  BY <1>2, <1>3, NothingEnds DEF RecoverRead, ResInv, Held

LEMMA RecoverWriteStep ==
  ASSUME ResInv, ~Overtaken, RecoverWrite
  PROVE  Held' /\ EndsAreSound' /\ Kept
<1> DEFINE orphans == {t \in recovering : job[t].status \notin Active}
           rows == [t \in Trials |-> IF t \notin orphans THEN trial[t]
                                     ELSE IF RecoveryStops THEN End("cancelled") ELSE Put(trial[t], "queued")]
           idle == IF exp.status = "running" /\ InStatus(job, Active) = {}
                     THEN Put(Columns, "queued") ELSE Columns
<1>1. (\A u \in Trials : fin[u].pc = "no") /\ request.pc = "no"
  BY OnlyRecovery DEF RecoverWrite
<1>2. recovering = InStatus(trial, {"running"}) /\ ~alive
  BY DEF RecoverWrite, ResInv, Held, AsRead, Restarts
<1>3. UNCHANGED <<job, ctl, fin, request>> /\ recovering' = {NoTrial} /\ alive' /\ trial' = rows
  BY DEF RecoverWrite
<1>4. rows \in [Trials -> Row] /\ Typed /\ trial \in [Trials -> Row]
  BY TypedParts, RowWrites DEF ResInv, Over, Active
<1>5. ASSUME NEW t \in Trials
      PROVE  \/ trial'[t] = trial[t]
             \/ /\ trial[t].status = "running" /\ job[t].status \notin Active
                /\ trial'[t].status = IF RecoveryStops THEN "cancelled" ELSE "queued"
  <2>1. End("cancelled").status = "cancelled" /\ Put(trial[t], "queued").status = "queued"
    BY <1>4 DEF End, Put, Row
  <2> QED
    BY <1>2, <1>3, <2>1 DEF InStatus
<1>6. AsRead' /\ Restarts'
  BY <1>1, <1>3, NothingRead DEF Restarts
<1>7. JobsFollow'
  BY <1>3, <1>5 DEF ResInv, Held, JobsFollow
<1>8. InHand'
  BY <1>2, <1>3 DEF ResInv, Held, Restarts, InHand, AtHand
<1>9. \A t \in Trials : /\ trial[t].status = "none" => trial'[t].status = "none"
                        /\ trial[t].status \in Over => trial'[t].status = trial[t].status
  BY <1>5 DEF Over
<1>10. /\ idle \in Seen /\ idle.term = exp.term
       /\ idle.status = exp.status \/ (exp.status = "running" /\ idle.status = "queued")
  BY <1>4, ColumnsSeen DEF Put, Seen, Active, Typed
<1>11. CASE Flush(Columns, IfReady(idle, Statuses(rows), rows, exp.round))
            /\ (orphans # {} \/ exp.status \in Active \cup {"cancel_requested"})
  <2>1. Settled => exp.status \in Active \cup {"cancel_requested"}
    <3>1. Settled => orphans = {}
      BY <1>2, NotSettled DEF ResInv, InStatus, Active
    <3> QED
      BY <1>11, <3>1
  <2>2. ~Settled
    BY <2>1 DEF Settled, Ended, Active
  <2>3. exp.status \in Ended => exp.term = "controller"
    BY <2>2 DEF Settled
  <2>4. exp.status # "waiting_agent"
    BY <2>2 DEF Settled, ResInv, EndsAreSound, Waits
  <2>5. idle.term \in Early \/ idle.status \in {"cancel_requested", "cancelled"} => ~Some(trial', "queued")
    <3>1. Halted <=> idle.term \in Early \/ idle.status \in {"cancel_requested", "cancelled"}
      BY <1>10 DEF Halted
    <3>2. Halted => RecoveryStops
      BY <2>3 DEF Halted, RecoveryStops, Early, Ended
    <3>3. Halted => ~Some(trial, "queued")
      BY DEF ResInv, EndsAreSound, HaltedIsEmpty
    <3> QED
      BY <1>5, <3>1, <3>2, <3>3 DEF Some, InStatus
  <2>6. idle.status \in Ended => idle.term = "controller"
    BY <1>10, <2>3 DEF Ended
  <2>7. idle.status # "waiting_agent"
    BY <1>10, <2>4
  <2> HIDE DEF rows, idle
  <2>8. EndsAreSound'
    BY <1>1, <1>3, <1>4, <1>7, <1>9, <1>10, <1>11, <2>5, <2>6, <2>7, ConcludingIsSound DEF ResInv
  <2>9. Halted => Halted' /\ exp'.round = exp.round
    <3> DEFINE w == IfReady(idle, Statuses(rows), rows, exp.round)
    <3>1. /\ w \in Seen
          /\ idle.term # "none" => w.term = idle.term
          /\ idle.status = "cancel_requested" /\ idle.term \notin Early =>
               w.status \in {"cancel_requested", "cancelled"}
      BY <1>4, <1>10, Concluded
    <3>2. exp'.status = w.status /\ exp'.term = w.term /\ exp'.round = exp.round
      BY <1>4, <1>11, <3>1, FlushWrites DEF Typed
    <3>3. Halted => exp.term \in Early \/ exp.status = "cancel_requested"
      BY <2>3 DEF Halted, Ended, Early
    <3> HIDE DEF w
    <3> QED
      BY <1>10, <3>1, <3>2, <3>3 DEF Halted, Early
  <2> QED
    BY <1>6, <1>7, <1>8, <1>9, <2>8, <2>9 DEF Held, Kept
<1>12. CASE UNCHANGED exp /\ orphans = {}
  <2>1. trial' = trial
    <3>1. rows = [t \in Trials |-> trial[t]]
      BY <1>12
    <3> QED
      BY <1>3, <1>4, <3>1
  <2>2. EndsAreSound' /\ Kept
    BY <1>3, <1>12, <2>1, NothingEnds DEF ResInv
  <2> QED
    BY <1>6, <1>7, <1>8, <2>2 DEF Held
<1>13. \/ /\ Flush(Columns, IfReady(idle, Statuses(rows), rows, exp.round))
          /\ orphans # {} \/ exp.status \in Active \cup {"cancel_requested"}
       \/ UNCHANGED exp /\ orphans = {}
  BY DEF RecoverWrite
<1> QED
  BY <1>11, <1>12, <1>13

\* Steps of the promotion, and of time.
LEMMA ElsewhereStep ==
  ASSUME ResInv, UNCHANGED <<exp, trial, job, ctl, fin, request, recovering, alive>>
  PROVE  Held' /\ EndsAreSound' /\ Kept
<1>1. Held'
  BY DEF ResInv, Held, JobsFollow, InHand, AtHand, AsRead, Columns, Statuses, InStatus, Restarts
<1> QED
  BY <1>1, NothingEnds DEF ResInv

LEMMA ResNext ==
  ASSUME ResInv, ~Overtaken, [Next]_vars
  PROVE  ResInv' /\ Kept
<1>1. Typed'
  BY NextTyped DEF ResInv
<1>2. Held' /\ EndsAreSound' /\ Kept
  <2>1. ASSUME NEW t \in Trials, Finalizes(t) \/ JobStep(t) \/ CancelTrial(t)
        PROVE  Held' /\ EndsAreSound' /\ Kept
    BY <2>1, FinalizeReadStep, FinalizeWriteStep, JobMovesStep, JobEndsStep, CancelTrialStep
       DEF Finalizes, JobStep
  <2>2. ASSUME NEW c \in Controllers, ControllerStep(c) PROVE Held' /\ EndsAreSound' /\ Kept
    BY <2>2, LookStep, ClaimStep, ControllerEndsStep, PrepareStep, EnqueueStep DEF ControllerStep
  <2>3. ASSUME \/ \E t \in Evidence, status \in Over : VerificationEnds(t, status)
               \/ \E chosen \in (SUBSET Evidence) \ {{}} : Promote(chosen)
               \/ \E t \in Evidence : RetryVerification(t)
               \/ PolicyFallsDue
               \/ UNCHANGED vars
        PROVE  Held' /\ EndsAreSound' /\ Kept
    <3>1. UNCHANGED <<exp, trial, job, ctl, fin, request, recovering, alive>>
      BY <2>3 DEF VerificationEnds, Promote, RetryVerification, PolicyFallsDue, vars
    <3> QED
      BY <3>1, ElsewhereStep
  <2>4. ASSUME EnforcePolicy \/ RecoverStep PROVE Held' /\ EndsAreSound' /\ Kept
    BY <2>4, PolicyStep, RecoverReadStep, RecoverWriteStep DEF RecoverStep
  <2>5. ASSUME CancelRead \/ CancelWrite \/ SubmitRound \/ UpdateTokenUsage \/ ControllerFails \/ Crash
        PROVE  Held' /\ EndsAreSound' /\ Kept
    BY <2>5, CancelReadStep, CancelWriteStep, SubmitRoundStep, PolicyStep, ControllerFailsStep, CrashStep
  <2> QED
    BY <2>1, <2>2, <2>3, <2>4, <2>5 DEF Next, Work, Environment
<1> QED
  BY <1>1, <1>2 DEF ResInv

LEMMA InitSound == Init => ResInv
<1> SUFFICES ASSUME Init PROVE ResInv
  OBVIOUS
<1>1. Held
  BY DEF Init, Held, JobsFollow, InHand, AtHand, AsRead, Restarts, Resting, Nothing, NoRequest, Active
<1>2. EndsAreSound
  <2>1. exp.status = "queued" /\ exp.term = "none" /\ exp.round = 1
    BY DEF Init
  <2>2. SettledIsWhole /\ NothingOwed /\ VerdictFits /\ Waits /\ HaltedIsEmpty
    BY <2>1 DEF SettledIsWhole, NothingOwed, Settled, VerdictFits, Waits, HaltedIsEmpty, Halted, Ended, Early
  <2>3. RoundsToCome
    BY <2>1, RoundsAssumption DEF Init, RoundsToCome
  <2> QED
    BY <2>2, <2>3 DEF EndsAreSound
<1> QED
  BY <1>1, <1>2, InitTyped DEF ResInv

LEMMA ResAlways == ASSUME ~Overtaken PROVE Spec => []ResInv
<1>1. ResInv /\ [Next]_vars => ResInv'
  BY ResNext
<1> QED
  BY InitSound, <1>1, PTL DEF Spec

\* _finalize_if_ready and those who call it: an experiment that is final or waits
\* for the agent has no trial and no job left, unless the agent ended it.
THEOREM SettledExperimentsAreWhole == ASSUME ~Overtaken PROVE Spec => []SettledIsWhole
<1>1. ResInv => SettledIsWhole
  BY DEF ResInv, EndsAreSound
<1> QED
  BY ResAlways, <1>1, PTL

\* The verdict is the one that the trials call for, whichever of the finalising
\* handlers wrote it, and however late.
THEOREM VerdictsFit == ASSUME ~Overtaken PROVE Spec => []VerdictFits
<1>1. ResInv => VerdictFits
  BY DEF ResInv, EndsAreSound
<1> QED
  BY ResAlways, <1>1, PTL

\* No claim, recovery, late finalisation, request or crash brings back what was
\* halted, or takes back the end of a trial.
THEOREM EndsStayFinal == ASSUME ~Overtaken PROVE Spec => EndsAreFinal
<1>1. ResInv /\ [Next]_vars =>
        [Halted => /\ Halted'
                   /\ exp'.round = exp.round
                   /\ \A t \in Trials : trial[t].status = "queued" => trial'[t].status # "running"]_vars
  BY ResNext DEF ResInv, EndsAreSound, HaltedIsEmpty, Kept, Some, InStatus
<1>2. ResInv /\ [Next]_vars =>
        [\A t \in Trials : trial[t].status \in Over => trial'[t].status = trial[t].status]_vars
  BY ResNext DEF Kept
<1> QED
  BY ResAlways, <1>1, <1>2, PTL DEF Spec, EndsAreFinal, HaltsForGood, TrialEndsOnce
====

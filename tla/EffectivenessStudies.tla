------------------------ MODULE EffectivenessStudies ------------------------
(***************************************************************************)
(* A support/resistance effectiveness study under the maintenance gate:    *)
(* support_resistance_validation_service.py over MarketDataMaintenance.    *)
(*                                                                         *)
(* The study is a parent experiment without trials. Its children are       *)
(* experiments of their own: a discovery, the annual folds, the final      *)
(* holdout. Each is created by the follow-up of the job that ended the one *)
(* before it, through create_category_study, and that asks the gate. The   *)
(* gate waits for the parent as for every experiment that has not ended.   *)
(***************************************************************************)
EXTENDS MarketDataMaintenance, FiniteSets

CONSTANTS
  Study, Discovery, Final,   \* the parent and two of its children
  Annual,                    \* the children of the annual folds
  EarlyReports,              \* TRUE: an operator may retry the report of a study
                             \* that has not ended
  MaxTries                   \* follow-ups a job can raise from: one per attempt
                             \* and one when the last attempt is recorded failed

Children == {Discovery, Final} \cup Annual

ASSUME StudyAssumption ==
  /\ Managed = {Study} \cup Children
  /\ Study \notin Children /\ Discovery # Final /\ {Discovery, Final} \cap Annual = {}
  /\ IsFiniteSet(Annual) /\ Annual # {}
ASSUME TriesAssumption == EarlyReports \in BOOLEAN /\ MaxTries \in Nat /\ MaxTries >= 1

VARIABLES
  study,      \* status of the parent
  creating,   \* create_effectiveness_study has committed the parent alone
  folding,    \* _create_fold_children: not running, the status of the parent it
              \* read, in its loop
  seen,       \* annual children whose follow-up found no final child
  tries,      \* attempts left for the follow-up of an ended child
  outcome,    \* what an ended child has to show
  doomed,     \* children whose cancellation was asked for
  refused,    \* a child was refused by the gate
  unheard     \* the end of a child that nobody follows up

studyVars == <<study, creating, folding, seen, tries, outcome, doomed, refused, unheard>>
vars == <<gateVars, studyVars>>

StudyOpen == study \in {"queued", "running", "cancel_requested"}

\* Everything of the gate but the work.
gateRest == <<gate, lockVars, reader, updater, writing, dataVars, deaths>>

SetWork(ws, status) == work' = [w \in Work |-> IF w \in ws THEN status ELSE work[w]]
Exists(c) == work[c] # "none"
Ended(c)  == work[c] = "ended"

-----------------------------------------------------------------------------
\* create_effectiveness_study: the parent passes the gate and is committed.
CreateStudy ==
  /\ study = "none" /\ RowFree /\ Open
  /\ SetWork({Study}, "active")
  /\ study' = "queued" /\ creating' = TRUE
  /\ UNCHANGED <<gateRest, folding, seen, tries, outcome, doomed, refused, unheard>>

\* Its discovery child passes the gate by itself.
CreateDiscovery ==
  /\ creating /\ creating' = FALSE /\ RowFree
  /\ IF Open THEN SetWork({Discovery}, "active") /\ UNCHANGED refused
             ELSE refused' = TRUE /\ UNCHANGED work
  /\ UNCHANGED <<gateRest, study, folding, seen, tries, outcome, doomed, unheard>>

Owed(c) == tries[c] > 0

\* A child that was stopped before its cancellation ends completed or failed.
Outcomes(c) == {"evidence", "empty"} \cup (IF c \in doomed THEN {"cancelled"} ELSE {})

\* A discovery whose round was finalised and whose next round nobody submits.
LeftWaiting(c) == c = Discovery /\ unheard

\* The last trial of a child ends it, and its job owes the parent a follow-up.
EndChild(c) ==
  /\ Active(c) /\ ~LeftWaiting(c)
  /\ SetWork({c}, "ended")
  /\ \E o \in Outcomes(c) : outcome' = [outcome EXCEPT ![c] = o]
  /\ \E n \in 1 .. MaxTries : tries' = [tries EXCEPT ![c] = n]
  /\ UNCHANGED <<gateRest, study, creating, folding, seen, doomed, refused, unheard>>

\* Only an annual child has siblings whose follow-up looks at it, too.
NobodyLooks(c, o) ==
  \/ c \notin Annual \/ o = "cancelled"
  \/ \A b \in Annual \ {c} : Ended(b) /\ ~Owed(b)

\* The sweep of the stop policies, a report of token usage, the recovery of orphaned
\* trials and a failure of the controller finalise a child as well, and none of them
\* calls advance_effectiveness_study.
EndUnheard(c) ==
  /\ Active(c)
  /\ SetWork({c}, "ended")
  /\ \E o \in Outcomes(c) :
       /\ outcome' = [outcome EXCEPT ![c] = o]
       /\ unheard' = (unheard \/ NobodyLooks(c, o))
  /\ UNCHANGED <<gateRest, study, creating, folding, seen, tries, doomed, refused>>

\* The recovery finalises a round of the discovery that is not its last.
WaitUnheard ==
  /\ Active(Discovery) /\ Discovery \notin doomed
  /\ unheard' = TRUE
  /\ UNCHANGED <<gateVars, study, creating, folding, seen, tries, outcome, doomed, refused>>

Paid(c) == tries' = [tries EXCEPT ![c] = 0]

\* The follow-up raised: the handler of a failed attempt queues the job again
\* until its attempts are spent.
Retried(c) == tries' = [tries EXCEPT ![c] = @ - 1]

\* finalize_validation_report.
Finalize ==
  /\ study' = "done"
  /\ SetWork({Study}, "ended")

\* The follow-up of c is past its first reads.
Busy(c) == (c = Discovery /\ folding # "no") \/ c \in seen

\* advance_effectiveness_study leaves a study that has ended or is being
\* cancelled alone.
Ignore(c) ==
  /\ Owed(c) /\ ~Busy(c) /\ study \in {"done", "cancel_requested"}
  /\ Paid(c)
  /\ UNCHANGED <<gateRest, work, study, creating, folding, seen, outcome, doomed, refused, unheard>>

Advances(c) == Owed(c) /\ ~Busy(c) /\ study \in {"queued", "running"}

\* Fault: the final holdout has no report.
ConcludeUnlessFinal(c) ==
  /\ Advances(c) /\ c # Final
  /\ \/ outcome[c] = "cancelled"
     \/ c = Discovery /\ outcome[c] = "empty" /\ ~\E a \in Annual : Exists(a)
  /\ Finalize /\ Paid(c)
  /\ UNCHANGED <<gateRest, creating, folding, seen, outcome, doomed, refused, unheard>>

\* A cancelled child, a discovery without champion and the final holdout end
\* the study.
Conclude(c) ==
  /\ Advances(c)
  /\ \/ outcome[c] = "cancelled"
     \/ c = Final
     \/ c = Discovery /\ outcome[c] = "empty" /\ ~\E a \in Annual : Exists(a)
  /\ Finalize /\ Paid(c)
  /\ UNCHANGED <<gateRest, creating, folding, seen, outcome, doomed, refused, unheard>>

\* _create_fold_children: nothing is done if one fold exists, else a champion is
\* looked for.
LookForFolds ==
  /\ Advances(Discovery) /\ outcome[Discovery] # "cancelled"
  /\ IF \E a \in Annual : Exists(a)
     THEN Paid(Discovery) /\ UNCHANGED folding
     ELSE outcome[Discovery] = "evidence" /\ folding' = study /\ UNCHANGED tries
  /\ UNCHANGED <<gateRest, work, study, creating, seen, outcome, doomed, refused, unheard>>

\* A parent read queued is written running over whatever became of it since; one
\* read running is not written.
StartFolds ==
  /\ folding \in {"queued", "running"} /\ folding' = "looping"
  /\ IF folding = "queued"
     THEN study' = "running" /\ SetWork({Study}, "active")
     ELSE UNCHANGED <<study, work>>
  /\ UNCHANGED <<gateRest, creating, seen, tries, outcome, doomed, refused, unheard>>

\* Each fold passes the gate and is committed before the next.
CreateFold ==
  /\ folding = "looping" /\ RowFree
  /\ \/ /\ Open
        /\ \E a \in Annual : ~Exists(a) /\ SetWork({a}, "active")
        /\ UNCHANGED <<folding, tries, refused>>
     \/ /\ ~Open /\ \E a \in Annual : ~Exists(a)
        /\ folding' = "no" /\ Retried(Discovery) /\ refused' = TRUE /\ UNCHANGED work
     \/ /\ \A a \in Annual : Exists(a)
        /\ folding' = "no" /\ Paid(Discovery) /\ UNCHANGED <<work, refused>>
  /\ UNCHANGED <<gateRest, study, creating, seen, outcome, doomed, unheard>>

\* Fault: the first annual child that ends opens the holdout.
LookForFinalEarly(a) ==
  /\ Advances(a) /\ outcome[a] # "cancelled"
  /\ IF ~Exists(Final)
     THEN seen' = seen \cup {a} /\ UNCHANGED tries
     ELSE Paid(a) /\ UNCHANGED seen
  /\ UNCHANGED <<gateRest, work, study, creating, folding, outcome, doomed, refused, unheard>>

\* _create_final_child: the follow-up of an annual child looks for the final
\* one and at its siblings, without a lock.
LookForFinal(a) ==
  /\ Advances(a) /\ outcome[a] # "cancelled"
  /\ IF ~Exists(Final) /\ \A b \in Annual : Ended(b) /\ outcome[b] # "cancelled"
     THEN seen' = seen \cup {a} /\ UNCHANGED tries
     ELSE Paid(a) /\ UNCHANGED seen
  /\ UNCHANGED <<gateRest, work, study, creating, folding, outcome, doomed, refused, unheard>>

\* The idempotency key is unique: whoever comes second finds the child, or
\* raises if the first had not committed when it looked.
CreateFinal(a) ==
  /\ a \in seen /\ seen' = seen \ {a} /\ RowFree
  /\ \/ ~Exists(Final) /\ Open /\ SetWork({Final}, "active") /\ Paid(a) /\ UNCHANGED refused
     \/ ~Exists(Final) /\ ~Open /\ Retried(a) /\ refused' = TRUE /\ UNCHANGED work
     \/ Exists(Final) /\ (Paid(a) \/ Retried(a)) /\ UNCHANGED <<work, refused>>
  /\ UNCHANGED <<gateRest, study, creating, folding, outcome, doomed, unheard>>

\* cancel_experiment of a child: what runs ends it later; if nothing runs it ends
\* here, and here nobody tells the parent.
CancelChild(c) ==
  /\ Active(c) /\ c \notin doomed
  /\ doomed' = doomed \cup {c}
  /\ \/ ~LeftWaiting(c) /\ UNCHANGED <<work, outcome, unheard>>
     \/ /\ SetWork({c}, "ended") /\ outcome' = [outcome EXCEPT ![c] = "cancelled"]
        /\ unheard' = TRUE
  /\ UNCHANGED <<gateRest, study, creating, folding, seen, tries, refused>>

\* cancel_experiment of the study cancels its children; the parent has no
\* trials, so _finalize_if_ready leaves it as it is.
CancelStudy ==
  /\ study \in {"queued", "running"}
  /\ study' = "cancel_requested"
  /\ doomed' = doomed \cup {c \in Children : Active(c)}
  /\ UNCHANGED <<gateVars, creating, folding, seen, tries, outcome, refused, unheard>>

\* The report of a study can be asked for again; the handler does not ask for
\* its status, an operator who waits for the report does.
RetryReport ==
  /\ study = "done" \/ (EarlyReports /\ StudyOpen)
  /\ Finalize
  /\ UNCHANGED <<gateRest, creating, folding, seen, tries, outcome, doomed, refused, unheard>>

-----------------------------------------------------------------------------
Init ==
  /\ GateInit
  /\ study = "none" /\ creating = FALSE /\ folding = "no" /\ seen = {}
  /\ tries = [c \in Children |-> 0]
  /\ outcome = [c \in Children |-> "none"]
  /\ doomed = {} /\ refused = FALSE /\ unheard = FALSE

FollowUp(c) ==
  \/ Ignore(c) \/ Conclude(c)
  \/ c = Discovery /\ (LookForFolds \/ StartFolds \/ CreateFold)
  \/ c \in Annual /\ (LookForFinal(c) \/ CreateFinal(c))

StudyStep ==
  \/ CreateStudy \/ CreateDiscovery \/ CancelStudy \/ RetryReport \/ WaitUnheard
  \/ \E c \in Children : EndChild(c) \/ EndUnheard(c) \/ FollowUp(c) \/ CancelChild(c)

Next == (GateNext /\ UNCHANGED studyVars) \/ StudyStep

Spec == Init /\ [][Next]_vars

\* A request and a follow-up that have begun go on, and a child ends.
Fairness ==
  /\ GateFairness
  /\ WF_vars(CreateDiscovery)
  /\ \A c \in Children : WF_vars(EndChild(c)) /\ WF_vars(FollowUp(c))

FairSpec == Spec /\ Fairness

-----------------------------------------------------------------------------
(* Properties.                                                              *)

\* Every variable has the shape the code gives it, and the parent is counted as
\* active work exactly while it is open.
StudyTypeOK ==
  /\ GateTypeOK
  /\ study \in {"none", "queued", "running", "cancel_requested", "done"}
  /\ Active(Study) <=> StudyOpen
  /\ creating \in BOOLEAN /\ refused \in BOOLEAN /\ unheard \in BOOLEAN
  /\ folding \in {"no", "queued", "running", "looping"}
  /\ seen \subseteq Annual
  /\ tries \in [Children -> 0 .. MaxTries]
  /\ outcome \in [Children -> {"none", "evidence", "empty", "cancelled"}]
  /\ doomed \subseteq Children

\* The sealed holdout is opened only on the evidence of every annual fold, and
\* the folds only on that of the discovery.
StagesInOrder ==
  /\ Exists(Final) => \A a \in Annual : Ended(a) /\ outcome[a] # "cancelled"
  /\ \A a \in Annual : Exists(a) => Ended(Discovery) /\ outcome[Discovery] = "evidence"

\* research-experiments.md: the update waits for the entire experiment, so a
\* study sees one version of the market data from its first child to its last.
StudySeesOneVersion == [][version' # version => ~StudyOpen]_vars

\* research-experiments.md: a window that begins to drain while a study nobody
\* cancels is under way lets it finish, and then goes on. The next child is refused
\* like a new study (adaptive_research_service.py:389), so this does not hold.
StudyLetsTheDrainEnd ==
  \A u \in Updaters :
    updater[u] = "draining" ~>
      updater[u] = "over" \/ doomed # {} \/ study = "cancel_requested"

\* A study nobody cancels, that the gate never refused a child and each of whose
\* stages ended with a follow-up ends with its report, also if a child is cancelled
\* while it runs or a fold ends without a follow-up before its siblings do.
StudyEnds ==
  study = "queued" ~> study \in {"done", "cancel_requested"} \/ refused \/ unheard
=============================================================================

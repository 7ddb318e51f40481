---------------------------- MODULE PaperEntries ----------------------------
(***************************************************************************)
(* The purchases of support/resistance strategies. A paper run does not    *)
(* send them; it keeps each with its signal, as an intent for the next     *)
(* session. From 9:30 on every poll of the scheduler goes through the      *)
(* intents (process_pending_support_resistance_entries): it sends a limit  *)
(* order, skips the intent, waits, or, after the cutoff, lets it expire;   *)
(* orders it has sent it follows and cancels. What it decides is committed *)
(* at the end of the poll, or along with a ledger row it commits earlier.  *)
(* An exception ends the poll, the intents after the failing one included. *)
(*                                                                         *)
(* One strategy and one session. Whether a quote is fresh and inside the   *)
(* channel, whether shares are still being sold, how much the sleeve may   *)
(* buy: all are free choices of the poll. Execution events and channel     *)
(* violations are left out.                                                *)
(***************************************************************************)
EXTENDS Integers, Sequences, FiniteSets, Functions

CONSTANTS
  Listed,      \* the intents, in the order of their signals
  RunOf,       \* the paper run that left an intent
  Name,        \* Name[i]: client order id; two runs of one day give the same
  Lot,         \* Lot[n]: bound on the shares of the order of a name
  MaxFaults    \* bound: failed calls, lost answers, dead processes

Intents == Range(Listed)
Runs    == {RunOf[i] : i \in Intents}
Names   == {Name[i] : i \in Intents}

ASSUME EntriesAssumption ==
  /\ Listed \in Seq(Intents) /\ IsInjective(Listed)
  /\ DOMAIN Name = Intents /\ DOMAIN RunOf = Intents
  /\ Lot \in [Names -> Nat \ {0}] /\ MaxFaults \in Nat

VARIABLES
  late,      \* the cutoff has passed
  order,     \* the broker's order of a name
  signal,    \* the intent kept with a signal
  row,       \* the Transaction row of the intent's run and order
  summary,   \* how many entries a run's summary calls pending
  poll,      \* the poll under way and what its session has not committed
  faults     \* faults so far

vars == <<late, order, signal, row, summary, poll, faults>>

NoOrder == [known |-> FALSE, filled |-> 0, open |-> FALSE]
NoRow   == [known |-> FALSE, filled |-> 0, open |-> FALSE]

Mark(status, terminal) == [status |-> status, terminal |-> terminal]

\* f with the entries of g; with the entry e for i.
Updated(f, g) ==
  [x \in DOMAIN f \union DOMAIN g |-> IF x \in DOMAIN g THEN g[x] ELSE f[x]]
Noted(f, i, e) == Updated(f, [x \in {i} |-> e])

\* Fault: an intent marked terminal is not looked at again.
ActionableUntilTerminal(i) ==
  signal[i].status \in {"pending", "submitted"} /\ ~signal[i].terminal

\* "evaluating" is a pending intent that has been looked at. A submitted one
\* stays actionable for ever.
Actionable(i) == signal[i].status \in {"pending", "submitted"}

NoPoll == [pc |-> "idle", todo |-> <<>>, late |-> FALSE, marks |-> <<>>, rows |-> <<>>,
           touched |-> {}]

At(pc) == poll.pc = pc
Current == Head(poll.todo)
Status  == signal[Current].status

\* The next intent's turn; the summary of this one's run is to be refreshed.
Turned == [poll EXCEPT !.pc = "next", !.todo = Tail(@), !.touched = @ \union {RunOf[Current]}]

\* The same, with a mark in the session.
Marked(mark) == poll' = [Turned EXCEPT !.marks = Noted(poll.marks, Current, mark)]

\* The session is committed, with further rows.
Commits(rows) ==
  /\ row' = Updated(row, Updated(poll.rows, rows))
  /\ signal' = Updated(signal, poll.marks)

-----------------------------------------------------------------------------
\* The intents of S in the order of their signals.
InOrder(S) ==
  {s \in [1 .. Cardinality(S) -> S] :
     \A p, q \in DOMAIN s : p < q =>
       \E k, l \in DOMAIN Listed : k < l /\ Listed[k] = s[p] /\ Listed[l] = s[q]}

\* A poll takes the clock once, and the intents that are actionable now.
Begin ==
  /\ At("idle") /\ \E i \in Intents : Actionable(i)
  /\ \E todo \in InOrder({i \in Intents : Actionable(i)}) :
       poll' = [NoPoll EXCEPT !.pc = "next", !.late = late, !.todo = todo]
  /\ UNCHANGED <<late, order, signal, row, summary, faults>>

\* _refresh_pending_run_summary: a run's entries that are not decided.
Pending(r) == {i \in Intents : RunOf[i] = r /\ Actionable(i) /\ ~signal[i].terminal}

\* Everything decided since the last commit is committed, with the summaries of
\* the runs this poll came by.
End ==
  /\ At("next") /\ poll.todo = <<>>
  /\ Commits(<<>>) /\ poll' = NoPoll
  /\ summary' = Updated(summary, [r \in poll.touched |-> Cardinality(Pending(r)')])
  /\ UNCHANGED <<late, order, faults>>

Turn == At("next") /\ poll.todo # <<>>

\* After the cutoff an intent that was not submitted has had its chance. The
\* broker is not asked.
Expire ==
  /\ Turn /\ Status = "pending" /\ poll.late
  /\ Marked(Mark("expired", FALSE))
  /\ UNCHANGED <<late, order, signal, row, summary, faults>>

\* The market is closed, there is no fresh quote, or a sale is still open.
Wait ==
  /\ Turn /\ ~poll.late
  /\ poll' = [poll EXCEPT !.todo = Tail(@)]
  /\ UNCHANGED <<late, order, signal, row, summary, faults>>

\* The quote is outside the channel: the broker is not asked for the order. Or
\* the position is held, there is no slot, no cash, too little strength.
Skip ==
  /\ Turn /\ Status = "pending" /\ ~poll.late
  /\ Marked(Mark("skipped", FALSE))
  /\ UNCHANGED <<late, order, signal, row, summary, faults>>

Answer(n) == [known |-> TRUE, filled |-> order[n].filled, open |-> order[n].open]

\* Fault: the order found at the broker gets no row.
AdoptUnbooked ==
  /\ Turn /\ Status = "pending" /\ ~poll.late /\ order[Name[Current]].known
  /\ Marked(Mark("submitted", ~order[Name[Current]].open))
  /\ UNCHANGED <<late, order, signal, row, summary, faults>>

\* The broker has an order of this name: it gets a row of this intent's run.
Adopt ==
  /\ Turn /\ Status = "pending" /\ ~poll.late /\ order[Name[Current]].known
  /\ LET answer == Answer(Name[Current]) IN
     poll' = [Turned EXCEPT
                !.rows = Noted(poll.rows, Current, answer),
                !.marks = Noted(poll.marks, Current, Mark("submitted", ~answer.open))]
  /\ UNCHANGED <<late, order, signal, row, summary, faults>>

\* The broker takes the order, and may fill some of it at once.
Accepted(filled) ==
  order' = [order EXCEPT ![Name[Current]] =
              [known |-> TRUE, filled |-> filled, open |-> filled < Lot[Name[Current]]]]

Submit ==
  /\ Turn /\ Status = "pending" /\ ~poll.late /\ ~order[Name[Current]].known
  /\ \E filled \in 0 .. Lot[Name[Current]] :
       /\ Accepted(filled)
       /\ poll' = [poll EXCEPT !.pc = "answered",
                     !.rows = Noted(poll.rows, Current, [known |-> TRUE, filled |-> filled,
                                                         open |-> filled < Lot[Name[Current]]])]
  /\ UNCHANGED <<late, signal, row, summary, faults>>

\* _submit_paper_order commits its row, and with it all earlier marks; the mark
\* of this intent comes after.
Record ==
  /\ At("answered")
  /\ Commits(<<>>)
  /\ poll' = [Turned EXCEPT !.rows = <<>>,
                            !.marks = Noted(<<>>, Current, Mark("submitted", ~poll.rows[Current].open))]
  /\ UNCHANGED <<late, order, summary, faults>>

\* AlpacaAPIError.
Reject ==
  /\ Turn /\ Status = "pending" /\ ~poll.late /\ ~order[Name[Current]].known
  /\ Marked(Mark("failed", FALSE))
  /\ UNCHANGED <<late, order, signal, row, summary, faults>>

\* _reconcile_submitted_channel_entry: the orders of the strategy that are not
\* final are asked for and committed, if there are any.
Sync ==
  /\ Turn /\ Status = "submitted"
  /\ LET asked == {i \in Intents : row[i].known /\ row[i].open} IN
     /\ IF asked = {} THEN UNCHANGED <<row, signal>>
        ELSE Commits([i \in asked |-> Answer(Name[i])])
     /\ poll' = IF asked = {} THEN [poll EXCEPT !.pc = "synced"]
                ELSE [poll EXCEPT !.pc = "synced", !.marks = <<>>, !.rows = <<>>]
  /\ UNCHANGED <<late, order, summary, faults>>

\* No row, a final one, or an order to be left alone.
Leave ==
  /\ At("synced")
  /\ \/ ~row[Current].known /\ Marked(Mark("failed", FALSE))
     \/ row[Current].known /\ ~row[Current].open /\ Marked(Mark("submitted", TRUE))
     \/ /\ row[Current].known /\ row[Current].open /\ ~poll.late
        /\ poll' = Turned
  /\ UNCHANGED <<late, order, signal, row, summary, faults>>

\* The cutoff has passed, or the quote has left the channel. The broker accepts
\* the cancellation of an order that is open.
Cancel ==
  /\ At("synced") /\ row[Current].known /\ row[Current].open
  /\ order[Name[Current]].open
  /\ Marked(Mark("submitted", TRUE))
  /\ UNCHANGED <<late, order, signal, row, summary, faults>>

Aborted == poll' = NoPoll /\ UNCHANGED <<late, signal, row, summary>>

\* It refuses one that has ended meanwhile; nothing catches that.
CancelRefused ==
  /\ At("synced") /\ row[Current].known /\ row[Current].open
  /\ ~order[Name[Current]].open
  /\ Aborted /\ UNCHANGED <<order, faults>>

\* A call fails, an answer is lost, the process dies.
Abort ==
  /\ ~At("idle") /\ faults < MaxFaults /\ faults' = faults + 1
  /\ Aborted /\ UNCHANGED order

LoseAnswer ==
  /\ faults < MaxFaults /\ faults' = faults + 1
  /\ Turn /\ Status = "pending" /\ ~poll.late /\ ~order[Name[Current]].known
  /\ Accepted(0) /\ Aborted

-----------------------------------------------------------------------------
\* The broker fills an order, or closes it: cancelled or at the end of the day.
Fill(n) ==
  /\ order[n].open
  /\ \E filled \in order[n].filled + 1 .. Lot[n] :
       order' = [order EXCEPT ![n].filled = filled, ![n].open = filled < Lot[n]]
  /\ UNCHANGED <<late, signal, row, summary, poll, faults>>

Close(n) ==
  /\ order[n].open /\ order' = [order EXCEPT ![n].open = FALSE]
  /\ UNCHANGED <<late, signal, row, summary, poll, faults>>

CutoffPasses ==
  /\ ~late /\ late' = TRUE
  /\ UNCHANGED <<order, signal, row, summary, poll, faults>>

-----------------------------------------------------------------------------
Init ==
  /\ late = FALSE /\ order = [n \in Names |-> NoOrder]
  /\ signal = [i \in Intents |-> Mark("pending", FALSE)]
  /\ row = [i \in Intents |-> NoRow] /\ poll = NoPoll /\ faults = 0
  /\ summary = [r \in Runs |-> Cardinality(Pending(r))]

PollStep ==
  \/ Begin \/ End \/ Expire \/ Wait \/ Skip \/ Adopt \/ Submit \/ Record \/ Reject
  \/ Sync \/ Leave \/ Cancel \/ CancelRefused

Next ==
  \/ PollStep \/ Abort \/ LoseAnswer \/ CutoffPasses
  \/ \E n \in Names : Fill(n) \/ Close(n)

\* The scheduler polls every minute, time passes, and no order outlives its day.
Spec ==
  /\ Init /\ [][Next]_vars
  /\ WF_vars(PollStep) /\ WF_vars(CutoffPasses) /\ \A n \in Names : WF_vars(Close(n))

-----------------------------------------------------------------------------
(* Properties.                                                              *)

\* An intent is called submitted only if its order is in the ledger, where every
\* run and report looks for it, whichever commits of a poll are lost.
\* (process_pending_support_resistance_entries, _submit_paper_order)
SubmittedIsBooked == \A i \in Intents : signal[i].status = "submitted" => row[i].known

Decided(i) == signal[i].status \in {"skipped", "expired", "failed"} \/ signal[i].terminal

\* A run that reports fewer pending entries than it left undecided would take its
\* final equity and its snapshot too early.
PendingIsReported ==
  \A r \in Runs : summary[r] >= Cardinality({i \in Intents : RunOf[i] = r /\ ~Decided(i)})

\* What runs, intents and summaries say of orders is true after every commit.
\* (process_pending_support_resistance_entries, _refresh_pending_run_summary)
ReportsAreTrue == SubmittedIsBooked /\ PendingIsReported

\* In the end every intent is decided, the row of a submitted one says what became
\* of its order, and the run of a submitted one reports nothing pending: a poll
\* that fails is made up for by the next. (process_pending_support_resistance_entries)
Settled(i) ==
  \/ signal[i].status \in {"skipped", "expired", "failed"}
  \/ /\ signal[i] = Mark("submitted", TRUE)
     /\ row[i] = Answer(Name[i]) /\ ~row[i].open
     /\ summary[RunOf[i]] = 0

EntriesEnd == <>[](\A i \in Intents : Settled(i))

\* Broken by the program: a run reports nothing pending in the end. Marks that went
\* with the commit of another run's row, before the poll failed, are not counted
\* again: nothing of their run is actionable any more.
SummariesFollow == <>[](\A r \in Runs : summary[r] = 0)

\* Broken by the program: an order still open is followed by an intent.
Followed ==
  \A n \in Names : order[n].open => \E i \in Intents : Name[i] = n /\ Actionable(i)

\* Broken by the program: two rows do not show one fill twice.
BookedOnce ==
  \A i, j \in Intents : (i # j /\ Name[i] = Name[j]) => ~(row[i].filled > 0 /\ row[j].filled > 0)
=============================================================================

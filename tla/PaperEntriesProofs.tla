------------------------- MODULE PaperEntriesProofs -------------------------
(***************************************************************************)
(* Proofs about PaperEntries, for any number of intents, runs and orders,  *)
(* any size of an order and any number of faults.                          *)
(***************************************************************************)
EXTENDS PaperEntries, FiniteSetTheorems, SequenceTheorems, TLAPS

-----------------------------------------------------------------------------
(* Types.                                                                   *)

MarkSet == [status : {"pending", "submitted", "skipped", "expired", "failed"},
            terminal : BOOLEAN]

\* What the broker may say of the order of a name, and what a row may say of it.
StateOf(n) == [known : BOOLEAN, filled : 0 .. Lot[n], open : BOOLEAN]

PollFields == {"pc", "todo", "late", "marks", "rows", "touched"}

\* A poll looks at each intent once, and has marks only of those it is done with.
PollTyped ==
  /\ DOMAIN poll = PollFields /\ poll.pc \in {"idle", "next", "answered", "synced"}
  /\ poll.todo \in Seq(Intents) /\ IsInjective(poll.todo)
  /\ poll.pc \in {"answered", "synced"} => poll.todo # <<>>
  /\ poll.late \in BOOLEAN /\ poll.touched \subseteq Runs
  /\ DOMAIN poll.marks \subseteq Intents \ Range(poll.todo)
  /\ \A i \in DOMAIN poll.marks : poll.marks[i] \in MarkSet /\ poll.marks[i].status # "pending"
  /\ DOMAIN poll.rows \subseteq Intents
  /\ \A i \in DOMAIN poll.rows : poll.rows[i] \in StateOf(Name[i]) /\ poll.rows[i].known

Typed ==
  /\ late \in BOOLEAN /\ faults \in 0 .. MaxFaults
  /\ DOMAIN order = Names /\ \A n \in Names : order[n] \in StateOf(n)
  /\ DOMAIN row = Intents /\ \A i \in Intents : row[i] \in StateOf(Name[i])
  /\ signal \in [Intents -> MarkSet]
  /\ summary \in [Runs -> Nat]
  /\ PollTyped

-----------------------------------------------------------------------------
(* The inductive invariant.                                                 *)

\* The intent a poll has sent and not recorded is pending; its row waits for the commit.
Sent == At("answered") => Status = "pending" /\ Current \in DOMAIN poll.rows

\* An intent that is pending is undecided, and a poll puts off no decision that has
\* been committed.
Undecided ==
  /\ \A i \in Intents : signal[i].status = "pending" => ~signal[i].terminal
  /\ \A i \in DOMAIN poll.marks :
       Decided(i) => \/ poll.marks[i].status \in {"skipped", "expired", "failed"}
                     \/ poll.marks[i].terminal

\* What the session calls submitted is in the ledger, or in the session as well.
MarksAreBooked ==
  \A i \in DOMAIN poll.marks :
    poll.marks[i].status = "submitted" => row[i].known \/ i \in DOMAIN poll.rows

EntriesInv == Typed /\ Sent /\ Undecided /\ MarksAreBooked /\ ReportsAreTrue

-----------------------------------------------------------------------------
(* What a poll does with its intents and marks.                             *)

LEMMA FiniteIntents == IsFiniteSet(Intents)
<1>1. IsFiniteSet(1 .. Len(Listed)) /\ DOMAIN Listed = 1 .. Len(Listed) /\ Len(Listed) \in Nat
  BY FS_Interval, EntriesAssumption
<1>2. Listed \in Surjection(1 .. Len(Listed), Intents)
  BY <1>1, EntriesAssumption DEF Surjection, Intents, Range
<1>. QED
  BY <1>1, <1>2, FS_Surjection

LEMMA OfIntents ==
  ASSUME NEW i \in Intents
  PROVE  RunOf[i] \in Runs /\ Name[i] \in Names /\ Lot[Name[i]] \in Nat \ {0}
BY EntriesAssumption DEF Runs, Names

LEMMA TheCurrent ==
  ASSUME PollTyped, poll.todo # <<>>
  PROVE  /\ Current \in Intents /\ Current \notin DOMAIN poll.marks
         /\ Tail(poll.todo) \in Seq(Intents) /\ IsInjective(Tail(poll.todo))
         /\ Current \notin Range(Tail(poll.todo)) /\ Range(Tail(poll.todo)) \subseteq Range(poll.todo)
<1> DEFINE s == poll.todo
<1>1. s \in Seq(Intents) /\ Len(s) \in Nat /\ Len(s) > 0 /\ DOMAIN s = 1 .. Len(s)
  BY DEF PollTyped
<1>2. /\ Tail(s) \in Seq(Intents) /\ Len(Tail(s)) = Len(s) - 1
      /\ \A k \in 1 .. Len(s) - 1 : Tail(s)[k] = s[k + 1]
      /\ DOMAIN Tail(s) = 1 .. Len(s) - 1 /\ Head(s) = s[1] /\ s[1] \in Intents
  BY <1>1
<1>3. \A k, l \in 1 .. Len(s) : s[k] = s[l] => k = l
  BY <1>1 DEF PollTyped, IsInjective
<1> HIDE DEF s
<1>4. IsInjective(Tail(s))
  <2>1. SUFFICES ASSUME NEW k \in 1 .. Len(s) - 1, NEW l \in 1 .. Len(s) - 1, Tail(s)[k] = Tail(s)[l]
                 PROVE  k = l
    BY <1>2 DEF IsInjective
  <2>2. s[k + 1] = s[l + 1] /\ k + 1 \in 1 .. Len(s) /\ l + 1 \in 1 .. Len(s)
    BY <1>1, <1>2, <2>1
  <2>3. k + 1 = l + 1
    BY <1>3, <2>2
  <2>. QED
    BY <1>1, <2>3
<1>5. Head(s) \notin Range(Tail(s)) /\ Range(Tail(s)) \subseteq Range(s)
  BY <1>1, <1>2, <1>3 DEF Range
<1>6. Head(s) \in Range(s)
  BY <1>1, <1>2 DEF Range
<1>. QED
  BY <1>2, <1>4, <1>5, <1>6 DEF PollTyped, Current, s

\* The parts of a poll after a step.
LEMMA PollParts ==
  ASSUME PollTyped
  PROVE  /\ \A pc, todo :
              LET p == [poll EXCEPT !.pc = pc, !.todo = todo] IN
              /\ DOMAIN p = PollFields /\ p.pc = pc /\ p.todo = todo /\ p.late = poll.late
              /\ p.marks = poll.marks /\ p.rows = poll.rows /\ p.touched = poll.touched
         /\ DOMAIN Turned = PollFields /\ Turned.pc = "next" /\ Turned.todo = Tail(poll.todo)
         /\ Turned.late = poll.late /\ Turned.marks = poll.marks /\ Turned.rows = poll.rows
         /\ Turned.touched = poll.touched \union {RunOf[Current]}
BY DEF PollTyped, PollFields, Turned

LEMMA NoPollParts ==
  /\ DOMAIN NoPoll = PollFields /\ NoPoll.pc = "idle" /\ NoPoll.todo = <<>> /\ NoPoll.late = FALSE
  /\ NoPoll.marks = <<>> /\ NoPoll.rows = <<>> /\ NoPoll.touched = {}
BY DEF NoPoll, PollFields

LEMMA Nobody ==
  ASSUME PollTyped, poll' = NoPoll
  PROVE  PollTyped' /\ Sent' /\ poll'.marks = <<>> /\ poll'.rows = <<>> /\ DOMAIN poll'.marks = {}
<1>1. DOMAIN <<>> = {} /\ Range(<<>>) = {} /\ <<>> \in Seq(Intents) /\ IsInjective(<<>>)
  BY DEF Range, IsInjective
<1>. QED
  BY <1>1, NoPollParts DEF PollTyped, Sent, At

-----------------------------------------------------------------------------
(* The decisions that stand, and the counts.                                *)

DecisionsKept == \A i \in Intents : Decided(i) => Decided(i)'

\* A count committed before is still high enough.
LEMMA CountsHold ==
  ASSUME Typed, PendingIsReported, DecisionsKept
  PROVE  \A r \in Runs : summary[r] >= Cardinality({i \in Intents : RunOf[i] = r /\ ~Decided(i)'})
<1>1. SUFFICES ASSUME NEW r \in Runs
               PROVE  summary[r] >= Cardinality({i \in Intents : RunOf[i] = r /\ ~Decided(i)'})
  OBVIOUS
<1> DEFINE before == {i \in Intents : RunOf[i] = r /\ ~Decided(i)}
           after  == {i \in Intents : RunOf[i] = r /\ ~Decided(i)'}
<1>2. after \subseteq before /\ before \subseteq Intents
  BY DEF DecisionsKept
<1>3. IsFiniteSet(before)
  BY <1>2, FiniteIntents, FS_Subset
<1>4. /\ Cardinality(after) <= Cardinality(before)
      /\ Cardinality(after) \in Nat /\ Cardinality(before) \in Nat
  BY <1>2, <1>3, FS_Subset, FS_CardinalityType
<1>5. summary[r] >= Cardinality(before) /\ summary[r] \in Nat
  BY DEF PendingIsReported, Typed
<1>. QED
  BY <1>4, <1>5

LEMMA CountsStay ==
  ASSUME Typed, PendingIsReported, DecisionsKept, UNCHANGED summary
  PROVE  PendingIsReported'
BY CountsHold DEF PendingIsReported, Decided

LEMMA InvParts ==
  /\ EntriesInv' <=> Typed' /\ Sent' /\ Undecided' /\ MarksAreBooked' /\ ReportsAreTrue'
  /\ ReportsAreTrue' <=> SubmittedIsBooked' /\ PendingIsReported'
BY DEF EntriesInv, ReportsAreTrue

\* A poll that is over has nothing to keep.
LEMMA PollEnds ==
  ASSUME EntriesInv, poll' = NoPoll, UNCHANGED <<late, signal, row, summary>>,
         DOMAIN order' = Names, \A n \in Names : order'[n] \in StateOf(n), faults' \in 0 .. MaxFaults
  PROVE  EntriesInv'
<1>1. PollTyped' /\ Sent' /\ DOMAIN poll'.marks = {}
  BY Nobody DEF EntriesInv, Typed
<1>2. Typed'
  BY <1>1 DEF EntriesInv, Typed
<1>3. Undecided' /\ MarksAreBooked'
  BY <1>1 DEF EntriesInv, Undecided, MarksAreBooked
<1>4. ReportsAreTrue'
  BY DEF EntriesInv, ReportsAreTrue, SubmittedIsBooked, PendingIsReported, Decided
<1>. QED
  BY <1>2, <1>1, <1>3, <1>4, InvParts

\* Only the order of a name changes, or the clock.
LEMMA MarketMoves ==
  ASSUME EntriesInv, UNCHANGED <<signal, row, summary, poll, faults>>, late' \in BOOLEAN,
         DOMAIN order' = Names, \A n \in Names : order'[n] \in StateOf(n)
  PROVE  EntriesInv'
<1>1. Typed'
  BY DEF EntriesInv, Typed, PollTyped
<1>2. Sent' /\ Undecided' /\ MarksAreBooked'
  BY DEF EntriesInv, Sent, At, Status, Current, Undecided, MarksAreBooked, Decided
<1>3. ReportsAreTrue'
  BY DEF EntriesInv, ReportsAreTrue, SubmittedIsBooked, PendingIsReported, Decided
<1>. QED
  BY <1>1, <1>2, <1>3, InvParts

\* The session gets a mark of the current intent.
LEMMA Marking ==
  ASSUME EntriesInv, poll.todo # <<>>, UNCHANGED <<late, order, signal, row, summary, faults>>,
         NEW mark \in MarkSet, mark.status # "pending", Marked(mark),
         mark.status = "submitted" => row[Current].known,
         Decided(Current) => mark.status \in {"skipped", "expired", "failed"} \/ mark.terminal
  PROVE  EntriesInv'
<1> USE DEF EntriesInv
<1>1. PollTyped
  BY DEF Typed
<1>2. /\ DOMAIN poll' = PollFields /\ poll'.pc = "next" /\ poll'.todo = Tail(poll.todo)
      /\ poll'.late = poll.late /\ poll'.rows = poll.rows
      /\ poll'.touched = poll.touched \union {RunOf[Current]}
      /\ poll'.marks = Noted(poll.marks, Current, mark)
  BY <1>1, PollParts DEF Marked, PollFields
<1>3. /\ DOMAIN poll'.marks = DOMAIN poll.marks \union {Current} /\ poll'.marks[Current] = mark
      /\ \A i \in DOMAIN poll.marks \ {Current} : poll'.marks[i] = poll.marks[i]
  BY <1>2 DEF Noted, Updated
<1>4. PollTyped'
  <2>1. DOMAIN poll'.marks \subseteq Intents \ Range(poll'.todo)
    BY <1>1, <1>2, <1>3, TheCurrent DEF PollTyped
  <2>2. \A i \in DOMAIN poll'.marks : poll'.marks[i] \in MarkSet /\ poll'.marks[i].status # "pending"
    BY <1>1, <1>3 DEF PollTyped
  <2>3. poll'.touched \subseteq Runs
    BY <1>1, <1>2, TheCurrent, OfIntents DEF PollTyped
  <2>. QED
    BY <1>1, <1>2, <2>1, <2>2, <2>3, TheCurrent DEF PollTyped
<1>5. Typed'
  BY <1>4 DEF Typed
<1>6. Sent'
  BY <1>2 DEF Sent, At
<1>7. Undecided'
  BY <1>3 DEF Undecided, Decided
<1>8. MarksAreBooked'
  BY <1>2, <1>3 DEF MarksAreBooked
<1>9. ReportsAreTrue'
  BY DEF ReportsAreTrue, SubmittedIsBooked, PendingIsReported, Decided
<1>. QED
  BY <1>5, <1>6, <1>7, <1>8, <1>9, InvParts

LEMMA Passing ==
  ASSUME EntriesInv, poll.todo # <<>>, UNCHANGED <<late, order, signal, row, summary, faults>>,
         \/ poll' = Turned
         \/ poll' = [poll EXCEPT !.todo = Tail(@)] /\ At("next")
  PROVE  EntriesInv'
<1> USE DEF EntriesInv
<1>1. PollTyped
  BY DEF Typed
<1>2. /\ DOMAIN poll' = PollFields /\ poll'.pc = "next" /\ poll'.todo = Tail(poll.todo)
      /\ poll'.late = poll.late /\ poll'.rows = poll.rows /\ poll'.marks = poll.marks
      /\ poll'.touched = poll.touched \/ poll'.touched = poll.touched \union {RunOf[Current]}
  BY <1>1, PollParts DEF PollTyped, PollFields, At
<1>3. PollTyped'
  <2>1. DOMAIN poll'.marks \subseteq Intents \ Range(poll'.todo)
    BY <1>1, <1>2, TheCurrent DEF PollTyped
  <2>2. poll'.touched \subseteq Runs
    BY <1>1, <1>2, TheCurrent, OfIntents DEF PollTyped
  <2>. QED
    BY <1>1, <1>2, <2>1, <2>2, TheCurrent DEF PollTyped
<1>4. Typed'
  BY <1>3 DEF Typed
<1>5. Sent' /\ Undecided' /\ MarksAreBooked'
  BY <1>2 DEF Sent, At, Undecided, MarksAreBooked, Decided
<1>6. ReportsAreTrue'
  BY DEF ReportsAreTrue, SubmittedIsBooked, PendingIsReported, Decided
<1>. QED
  BY <1>4, <1>5, <1>6, InvParts

\* An order the broker knows gets a row and a mark.
LEMMA Adopting ==
  ASSUME EntriesInv, Adopt
  PROVE  EntriesInv'
<1> USE DEF EntriesInv
<1>1. /\ PollTyped /\ poll.todo # <<>> /\ Status = "pending" /\ order[Name[Current]].known
      /\ UNCHANGED <<late, order, signal, row, summary, faults>>
  BY DEF Typed, Adopt, Turn
<1> DEFINE answer == Answer(Name[Current])
           mark   == Mark("submitted", ~answer.open)
<1>2. /\ DOMAIN poll' = PollFields /\ poll'.pc = "next" /\ poll'.todo = Tail(poll.todo)
      /\ poll'.late = poll.late /\ poll'.rows = Noted(poll.rows, Current, answer)
      /\ poll'.touched = poll.touched \union {RunOf[Current]}
      /\ poll'.marks = Noted(poll.marks, Current, mark)
  BY <1>1, PollParts DEF Adopt, PollFields
<1>3. /\ DOMAIN poll'.marks = DOMAIN poll.marks \union {Current} /\ poll'.marks[Current] = mark
      /\ \A i \in DOMAIN poll.marks \ {Current} : poll'.marks[i] = poll.marks[i]
  BY <1>2 DEF Noted, Updated
<1>4. /\ DOMAIN poll'.rows = DOMAIN poll.rows \union {Current} /\ poll'.rows[Current] = answer
      /\ \A i \in DOMAIN poll.rows \ {Current} : poll'.rows[i] = poll.rows[i]
  BY <1>2 DEF Noted, Updated
<1>5. /\ answer \in StateOf(Name[Current]) /\ answer.known
      /\ mark \in MarkSet /\ mark.status = "submitted"
  BY <1>1, TheCurrent, OfIntents DEF Typed, Answer, StateOf, Mark, MarkSet
<1>6. PollTyped'
  <2>1. DOMAIN poll'.marks \subseteq Intents \ Range(poll'.todo)
    BY <1>1, <1>2, <1>3, TheCurrent DEF PollTyped
  <2>2. \A i \in DOMAIN poll'.marks : poll'.marks[i] \in MarkSet /\ poll'.marks[i].status # "pending"
    BY <1>1, <1>3, <1>5 DEF PollTyped
  <2>3. poll'.touched \subseteq Runs /\ DOMAIN poll'.rows \subseteq Intents
    BY <1>1, <1>2, <1>4, TheCurrent, OfIntents DEF PollTyped
  <2>4. \A i \in DOMAIN poll'.rows : poll'.rows[i] \in StateOf(Name[i]) /\ poll'.rows[i].known
    BY <1>1, <1>4, <1>5 DEF PollTyped
  <2>. QED
    BY <1>1, <1>2, <2>1, <2>2, <2>3, <2>4, TheCurrent DEF PollTyped
<1>7. Typed'
  BY <1>1, <1>6 DEF Typed
<1>8. Sent'
  BY <1>2 DEF Sent, At
<1>9. ~Decided(Current)
  BY <1>1, TheCurrent DEF Undecided, Decided, Status
<1>10. Undecided'
  BY <1>1, <1>3, <1>9 DEF Undecided, Decided
<1>11. MarksAreBooked'
  BY <1>1, <1>3, <1>4 DEF MarksAreBooked
<1>12. ReportsAreTrue'
  BY <1>1 DEF ReportsAreTrue, SubmittedIsBooked, PendingIsReported, Decided
<1>. QED
  BY <1>7, <1>8, <1>10, <1>11, <1>12, InvParts

\* The broker takes the order of the current intent.
LEMMA Accepting ==
  ASSUME Typed, poll.todo # <<>>, NEW filled \in 0 .. Lot[Name[Current]], Accepted(filled)
  PROVE  DOMAIN order' = Names /\ \A n \in Names : order'[n] \in StateOf(n)
<1>1. Name[Current] \in Names /\ Lot[Name[Current]] \in Nat \ {0}
  BY TheCurrent, OfIntents DEF Typed
<1>2. [known |-> TRUE, filled |-> filled, open |-> filled < Lot[Name[Current]]] \in StateOf(Name[Current])
  BY <1>1 DEF StateOf
<1>. QED
  BY <1>1, <1>2 DEF Typed, Accepted

LEMMA Submitting ==
  ASSUME EntriesInv, Submit
  PROVE  EntriesInv'
<1> USE DEF EntriesInv
<1>1. /\ PollTyped /\ poll.todo # <<>> /\ Status = "pending"
      /\ UNCHANGED <<late, signal, row, summary, faults>>
  BY DEF Typed, Submit, Turn
<1>2. PICK filled \in 0 .. Lot[Name[Current]] :
        /\ Accepted(filled)
        /\ poll' = [poll EXCEPT !.pc = "answered",
                     !.rows = Noted(poll.rows, Current, [known |-> TRUE, filled |-> filled,
                                                         open |-> filled < Lot[Name[Current]]])]
  BY DEF Submit
<1> DEFINE answer == [known |-> TRUE, filled |-> filled, open |-> filled < Lot[Name[Current]]]
<1>3. /\ DOMAIN poll' = PollFields /\ poll'.pc = "answered" /\ poll'.todo = poll.todo
      /\ poll'.late = poll.late /\ poll'.rows = Noted(poll.rows, Current, answer)
      /\ poll'.touched = poll.touched /\ poll'.marks = poll.marks
  BY <1>1, <1>2 DEF PollTyped, PollFields
<1>4. /\ DOMAIN poll'.rows = DOMAIN poll.rows \union {Current} /\ poll'.rows[Current] = answer
      /\ \A i \in DOMAIN poll.rows \ {Current} : poll'.rows[i] = poll.rows[i]
  BY <1>3 DEF Noted, Updated
<1>5. answer \in StateOf(Name[Current]) /\ answer.known
  BY <1>1, TheCurrent, OfIntents DEF StateOf
<1>6. PollTyped'
  <2>1. DOMAIN poll'.rows \subseteq Intents
    BY <1>1, <1>4, TheCurrent DEF PollTyped
  <2>2. \A i \in DOMAIN poll'.rows : poll'.rows[i] \in StateOf(Name[i]) /\ poll'.rows[i].known
    BY <1>1, <1>4, <1>5 DEF PollTyped
  <2>. QED
    BY <1>1, <1>3, <2>1, <2>2 DEF PollTyped
<1>7. Typed'
  BY <1>1, <1>2, <1>6, Accepting DEF Typed
<1>8. Sent'
  BY <1>1, <1>3, <1>4 DEF Sent, At, Status, Current
<1>9. Undecided'
  BY <1>1, <1>3 DEF Undecided, Decided
<1>10. MarksAreBooked'
  BY <1>1, <1>3, <1>4 DEF MarksAreBooked
<1>11. ReportsAreTrue'
  BY <1>1 DEF ReportsAreTrue, SubmittedIsBooked, PendingIsReported, Decided
<1>. QED
  BY <1>7, <1>8, <1>9, <1>10, <1>11, InvParts

-----------------------------------------------------------------------------
(* Commits.                                                                 *)

LEMMA Committing ==
  ASSUME EntriesInv, NEW rows, DOMAIN rows \subseteq Intents, Commits(rows),
         \A i \in DOMAIN rows : rows[i] \in StateOf(Name[i]) /\ rows[i].known
  PROVE  /\ DOMAIN row' = Intents /\ \A i \in Intents : row'[i] \in StateOf(Name[i])
         /\ signal' \in [Intents -> MarkSet]
         /\ \A i \in Intents : signal'[i] = IF i \in DOMAIN poll.marks THEN poll.marks[i] ELSE signal[i]
         /\ \A i \in Intents : row[i].known \/ i \in DOMAIN poll.rows => row'[i].known
         /\ SubmittedIsBooked' /\ DecisionsKept
         /\ \A i \in Intents : signal'[i].status = "pending" => ~signal'[i].terminal
<1> USE DEF EntriesInv
<1>1. PollTyped /\ DOMAIN row = Intents /\ DOMAIN signal = Intents
  BY DEF Typed
<1>2. /\ DOMAIN row' = Intents
      /\ \A i \in Intents : row'[i] = IF i \in DOMAIN rows THEN rows[i]
                                     ELSE IF i \in DOMAIN poll.rows THEN poll.rows[i] ELSE row[i]
  BY <1>1 DEF Commits, Updated, PollTyped
<1>3. /\ signal' = [i \in Intents |-> IF i \in DOMAIN poll.marks THEN poll.marks[i] ELSE signal[i]]
  BY <1>1 DEF Commits, Updated, PollTyped
<1>4. signal' \in [Intents -> MarkSet]
  BY <1>1, <1>3 DEF Typed, PollTyped
<1>5. \A i \in Intents : row'[i] \in StateOf(Name[i])
  BY <1>1, <1>2 DEF Typed, PollTyped
<1>6. \A i \in Intents : row[i].known \/ i \in DOMAIN poll.rows => row'[i].known
  BY <1>1, <1>2 DEF PollTyped
<1>7. SubmittedIsBooked'
  BY <1>3, <1>6 DEF MarksAreBooked, ReportsAreTrue, SubmittedIsBooked
<1>8. DecisionsKept
  BY <1>3 DEF DecisionsKept, Decided, Undecided
<1>9. \A i \in Intents : signal'[i].status = "pending" => ~signal'[i].terminal
  BY <1>1, <1>3 DEF Undecided, PollTyped
<1>. QED
  BY <1>2, <1>3, <1>4, <1>5, <1>6, <1>7, <1>8, <1>9

LEMMA Recording ==
  ASSUME EntriesInv, Record
  PROVE  EntriesInv'
<1> USE DEF EntriesInv
<1>1. /\ PollTyped /\ poll.pc = "answered" /\ poll.todo # <<>> /\ Commits(<<>>)
      /\ UNCHANGED <<late, order, summary, faults>>
  BY DEF Typed, PollTyped, Record, At
<1>2. Current \in DOMAIN poll.rows /\ signal[Current].status = "pending" /\ Current \notin DOMAIN poll.marks
  BY <1>1, TheCurrent DEF Sent, At, Status
<1> DEFINE mark == Mark("submitted", ~poll.rows[Current].open)
<1>3. /\ DOMAIN poll' = PollFields /\ poll'.pc = "next" /\ poll'.todo = Tail(poll.todo)
      /\ poll'.late = poll.late /\ poll'.rows = <<>>
      /\ poll'.touched = poll.touched \union {RunOf[Current]}
      /\ poll'.marks = Noted(<<>>, Current, mark)
  BY <1>1, PollParts DEF Record, PollFields
<1>4. DOMAIN poll'.marks = {Current} /\ poll'.marks[Current] = mark
  BY <1>3 DEF Noted, Updated
<1>5. mark \in MarkSet /\ mark.status = "submitted"
  BY <1>1, <1>2 DEF PollTyped, Mark, MarkSet, StateOf
<1>6. DOMAIN <<>> = {} /\ \A i \in DOMAIN <<>> : <<>>[i] \in StateOf(Name[i]) /\ <<>>[i].known
  OBVIOUS
<1>7. /\ DOMAIN row' = Intents /\ \A i \in Intents : row'[i] \in StateOf(Name[i])
      /\ signal' \in [Intents -> MarkSet]
      /\ \A i \in Intents : signal'[i] = IF i \in DOMAIN poll.marks THEN poll.marks[i] ELSE signal[i]
      /\ \A i \in Intents : row[i].known \/ i \in DOMAIN poll.rows => row'[i].known
      /\ SubmittedIsBooked' /\ DecisionsKept
      /\ \A i \in Intents : signal'[i].status = "pending" => ~signal'[i].terminal
  BY <1>1, <1>6, Committing
<1>8. PollTyped'
  <2>1. DOMAIN poll'.marks \subseteq Intents \ Range(poll'.todo)
    BY <1>1, <1>3, <1>4, TheCurrent
  <2>2. \A i \in DOMAIN poll'.marks : poll'.marks[i] \in MarkSet /\ poll'.marks[i].status # "pending"
    BY <1>4, <1>5
  <2>3. poll'.touched \subseteq Runs
    BY <1>1, <1>3, TheCurrent, OfIntents DEF PollTyped
  <2>. QED
    BY <1>1, <1>3, <1>6, <2>1, <2>2, <2>3, TheCurrent DEF PollTyped
<1>9. Typed'
  BY <1>1, <1>7, <1>8 DEF Typed
<1>10. Sent'
  BY <1>3 DEF Sent, At
<1>11. Undecided'
  BY <1>1, <1>2, <1>4, <1>7, TheCurrent DEF Undecided, Decided
<1>12. MarksAreBooked'
  BY <1>1, <1>2, <1>4, <1>7, TheCurrent DEF MarksAreBooked
<1>13. PendingIsReported'
  BY <1>1, <1>7, CountsStay DEF ReportsAreTrue
<1>. QED
  BY <1>7, <1>9, <1>10, <1>11, <1>12, <1>13, InvParts

LEMMA Syncing ==
  ASSUME EntriesInv, Sync
  PROVE  EntriesInv'
<1> USE DEF EntriesInv
<1> DEFINE asked   == {i \in Intents : row[i].known /\ row[i].open}
           answers == [i \in asked |-> Answer(Name[i])]
<1>1. /\ PollTyped /\ poll.todo # <<>> /\ UNCHANGED <<late, order, summary, faults>>
  BY DEF Typed, Sync, Turn
<1>2. CASE asked = {}
  <2>1. UNCHANGED <<row, signal>> /\ poll' = [poll EXCEPT !.pc = "synced"]
    BY <1>2 DEF Sync
  <2>2. /\ DOMAIN poll' = PollFields /\ poll'.pc = "synced" /\ poll'.todo = poll.todo
        /\ poll'.late = poll.late /\ poll'.rows = poll.rows /\ poll'.marks = poll.marks
        /\ poll'.touched = poll.touched
    BY <1>1, <2>1 DEF PollTyped, PollFields
  <2>3. Typed'
    BY <1>1, <2>1, <2>2 DEF Typed, PollTyped
  <2>4. Sent' /\ Undecided' /\ MarksAreBooked'
    BY <2>1, <2>2 DEF Sent, At, Undecided, MarksAreBooked, Decided
  <2>5. ReportsAreTrue'
    BY <1>1, <2>1 DEF ReportsAreTrue, SubmittedIsBooked, PendingIsReported, Decided
  <2>. QED
    BY <2>3, <2>4, <2>5, InvParts
<1>3. CASE asked # {}
  <2>1. /\ Commits(answers)
        /\ poll' = [poll EXCEPT !.pc = "synced", !.marks = <<>>, !.rows = <<>>]
    BY <1>3 DEF Sync
  <2>2. /\ DOMAIN poll' = PollFields /\ poll'.pc = "synced" /\ poll'.todo = poll.todo
        /\ poll'.late = poll.late /\ poll'.rows = <<>> /\ poll'.marks = <<>>
        /\ poll'.touched = poll.touched
    BY <1>1, <2>1 DEF PollTyped, PollFields
  <2>3. DOMAIN answers = asked /\ \A i \in asked : answers[i] \in StateOf(Name[i]) /\ answers[i].known
    BY OfIntents DEF Typed, Answer, StateOf
  <2>4. /\ DOMAIN row' = Intents /\ \A i \in Intents : row'[i] \in StateOf(Name[i])
        /\ signal' \in [Intents -> MarkSet]
        /\ SubmittedIsBooked' /\ DecisionsKept
        /\ \A i \in Intents : signal'[i].status = "pending" => ~signal'[i].terminal
    BY <2>1, <2>3, Committing
  <2>5. Typed'
    BY <1>1, <2>2, <2>4 DEF Typed, PollTyped
  <2>6. Sent' /\ Undecided' /\ MarksAreBooked'
    BY <2>2, <2>4 DEF Sent, At, Undecided, MarksAreBooked
  <2>7. PendingIsReported'
    BY <1>1, <2>4, CountsStay DEF ReportsAreTrue
  <2>. QED
    BY <2>4, <2>5, <2>6, <2>7, InvParts
<1>. QED
  BY <1>2, <1>3

LEMMA Ending ==
  ASSUME EntriesInv, End
  PROVE  EntriesInv'
<1> USE DEF EntriesInv
<1>1. /\ PollTyped /\ Commits(<<>>) /\ poll' = NoPoll
      /\ UNCHANGED <<late, order, faults>>
      /\ summary' = Updated(summary, [r \in poll.touched |-> Cardinality(Pending(r)')])
  BY DEF Typed, End
<1>2. DOMAIN <<>> = {} /\ \A i \in DOMAIN <<>> : <<>>[i] \in StateOf(Name[i]) /\ <<>>[i].known
  OBVIOUS
<1>3. /\ DOMAIN row' = Intents /\ \A i \in Intents : row'[i] \in StateOf(Name[i])
      /\ signal' \in [Intents -> MarkSet]
      /\ SubmittedIsBooked' /\ DecisionsKept
      /\ \A i \in Intents : signal'[i].status = "pending" => ~signal'[i].terminal
  BY <1>1, <1>2, Committing
<1>4. PollTyped' /\ Sent' /\ DOMAIN poll'.marks = {}
  BY <1>1, Nobody
<1>5. \A r \in Runs : summary'[r] = IF r \in poll.touched THEN Cardinality(Pending(r)') ELSE summary[r]
  BY <1>1 DEF Updated, Typed, PollTyped
<1>6. \A r \in Runs : Pending(r)' = {i \in Intents : RunOf[i] = r /\ ~Decided(i)'}
  BY <1>3 DEF Pending, Actionable, Decided, MarkSet
<1>7. \A r \in Runs : IsFiniteSet(Pending(r)') /\ Cardinality(Pending(r)') \in Nat
  <2>1. \A r \in Runs : Pending(r)' \in SUBSET Intents
    BY DEF Pending
  <2>. QED
    BY <2>1, FiniteIntents, FS_Subset, FS_CardinalityType
<1>8. summary' \in [Runs -> Nat]
  BY <1>1, <1>5, <1>7 DEF Updated, Typed, PollTyped
<1>9. Typed'
  BY <1>1, <1>3, <1>4, <1>8 DEF Typed
<1>10. Undecided' /\ MarksAreBooked'
  BY <1>3, <1>4 DEF Undecided, MarksAreBooked
<1>11. PendingIsReported'
  <2>1. \A r \in Runs : summary[r] >= Cardinality({i \in Intents : RunOf[i] = r /\ ~Decided(i)'})
    BY <1>3, CountsHold DEF ReportsAreTrue
  <2>2. \A r \in Runs : summary'[r] >= Cardinality({i \in Intents : RunOf[i] = r /\ ~Decided(i)'})
    <3>1. SUFFICES ASSUME NEW r \in Runs
                   PROVE  summary'[r] >= Cardinality({i \in Intents : RunOf[i] = r /\ ~Decided(i)'})
      OBVIOUS
    <3>2. CASE r \in poll.touched
      <4>1. Cardinality(Pending(r)') \in Nat /\ summary'[r] = Cardinality(Pending(r)')
        BY <3>2, <1>5, <1>7
      <4>2. Pending(r)' = {i \in Intents : RunOf[i] = r /\ ~Decided(i)'}
        BY <1>6
      <4>. QED
        BY <4>1, <4>2
    <3>3. CASE r \notin poll.touched
      BY <3>3, <1>5, <2>1
    <3>. QED
      BY <3>2, <3>3
  <2>. QED
    BY <2>2 DEF PendingIsReported, Decided
<1>. QED
  BY <1>3, <1>4, <1>9, <1>10, <1>11, InvParts

-----------------------------------------------------------------------------
(* Every step.                                                              *)

LEMMA Beginning ==
  ASSUME EntriesInv, Begin
  PROVE  EntriesInv'
<1> USE DEF EntriesInv
<1> DEFINE S == {i \in Intents : Actionable(i)}
<1>1. PICK todo \in InOrder(S) :
        poll' = [NoPoll EXCEPT !.pc = "next", !.late = late, !.todo = todo]
  BY DEF Begin
<1>2. UNCHANGED <<late, order, signal, row, summary, faults>>
  BY DEF Begin
<1>3. todo \in Seq(Intents) /\ IsInjective(todo)
  <2>1. S \subseteq Intents /\ Cardinality(S) \in Nat
    BY FiniteIntents, FS_Subset, FS_CardinalityType
  <2>2. todo \in [1 .. Cardinality(S) -> Intents]
    BY <2>1 DEF InOrder
  <2>3. \A k, l \in DOMAIN Listed : Listed[k] = Listed[l] => k = l
    BY EntriesAssumption DEF IsInjective
  <2>4. \A p, q \in DOMAIN todo : p < q => todo[p] # todo[q]
    <3>1. DOMAIN Listed \subseteq Nat
      BY EntriesAssumption
    <3>2. SUFFICES ASSUME NEW p \in DOMAIN todo, NEW q \in DOMAIN todo, p < q
                   PROVE  todo[p] # todo[q]
      OBVIOUS
    <3>3. PICK k \in DOMAIN Listed, l \in DOMAIN Listed : k < l /\ Listed[k] = todo[p] /\ Listed[l] = todo[q]
      BY <3>2 DEF InOrder
    <3>. QED
      BY <3>1, <3>3, <2>3
  <2>5. IsInjective(todo)
    BY <2>1, <2>2, <2>4 DEF IsInjective
  <2>. QED
    BY <2>1, <2>2, <2>5
<1>4. /\ DOMAIN poll' = PollFields /\ poll'.pc = "next" /\ poll'.todo = todo
      /\ poll'.late = late /\ poll'.rows = <<>> /\ poll'.marks = <<>> /\ poll'.touched = {}
  BY <1>1 DEF NoPoll, PollFields
<1>5. Typed'
  BY <1>2, <1>3, <1>4 DEF Typed, PollTyped
<1>6. Sent' /\ Undecided' /\ MarksAreBooked'
  BY <1>2, <1>4 DEF Sent, At, Undecided, MarksAreBooked
<1>7. ReportsAreTrue'
  BY <1>2 DEF ReportsAreTrue, SubmittedIsBooked, PendingIsReported, Decided
<1>. QED
  BY <1>5, <1>6, <1>7, InvParts

LEMMA Marks ==
  \A status \in {"pending", "submitted", "skipped", "expired", "failed"}, terminal \in BOOLEAN :
    /\ Mark(status, terminal) \in MarkSet
    /\ Mark(status, terminal).status = status /\ Mark(status, terminal).terminal = terminal
BY DEF Mark, MarkSet

LEMMA InitInv == Init => EntriesInv
<1>1. SUFFICES ASSUME Init PROVE EntriesInv
  OBVIOUS
<1>2. /\ DOMAIN poll = PollFields /\ poll.pc = "idle" /\ poll.todo = <<>> /\ poll.late = FALSE
      /\ poll.marks = <<>> /\ poll.rows = <<>> /\ poll.touched = {} /\ DOMAIN poll.marks = {}
  BY <1>1, NoPollParts DEF Init
<1>3. PollTyped /\ Sent
  <2>1. Range(<<>>) = {} /\ <<>> \in Seq(Intents) /\ IsInjective(<<>>)
    BY DEF Range, IsInjective
  <2>. QED
    BY <1>2, <2>1 DEF PollTyped, Sent, At
<1>4. \A i \in Intents : signal[i].status = "pending" /\ ~signal[i].terminal /\ signal[i] \in MarkSet
  BY <1>1, Marks DEF Init, MarkSet, Mark
<1>5. \A r \in Runs : /\ Pending(r) = {i \in Intents : RunOf[i] = r /\ ~Decided(i)}
                      /\ Cardinality(Pending(r)) \in Nat
  <2>1. \A r \in Runs : Pending(r) \in SUBSET Intents
    BY DEF Pending
  <2>2. \A r \in Runs : Pending(r) = {i \in Intents : RunOf[i] = r /\ ~Decided(i)}
    BY <1>4 DEF Pending, Actionable, Decided
  <2>. QED
    BY <2>1, <2>2, FiniteIntents, FS_Subset, FS_CardinalityType
<1>6. Typed
  <2>1. \A n \in Names : order[n] \in StateOf(n)
    BY <1>1, EntriesAssumption DEF Init, NoOrder, StateOf
  <2>2. \A i \in Intents : row[i] \in StateOf(Name[i])
    BY <1>1, OfIntents DEF Init, NoRow, StateOf
  <2>3. signal \in [Intents -> MarkSet] /\ summary \in [Runs -> Nat]
    BY <1>1, <1>4, <1>5 DEF Init
  <2>4. /\ DOMAIN order = Names /\ DOMAIN row = Intents /\ late \in BOOLEAN
        /\ faults \in 0 .. MaxFaults
    <3>1. MaxFaults \in Nat
      BY EntriesAssumption
    <3>2. /\ late = FALSE /\ order = [n \in Names |-> NoOrder] /\ row = [i \in Intents |-> NoRow]
          /\ faults = 0
      BY <1>1 DEF Init
    <3>3. DOMAIN order = Names /\ DOMAIN row = Intents
      BY <3>2
    <3>4. late \in BOOLEAN
      BY <3>2
    <3>5. faults \in 0 .. MaxFaults
      BY <3>1, <3>2
    <3>. QED
      BY <3>3, <3>4, <3>5
  <2>. QED
    BY <1>3, <2>1, <2>2, <2>3, <2>4 DEF Typed
<1>7. Undecided /\ MarksAreBooked /\ SubmittedIsBooked
  BY <1>2, <1>4 DEF Undecided, MarksAreBooked, SubmittedIsBooked
<1>8. PendingIsReported
  <2>1. \A r \in Runs : summary[r] = Cardinality(Pending(r))
    BY <1>1 DEF Init
  <2>2. \A r \in Runs : summary[r] >= Cardinality({i \in Intents : RunOf[i] = r /\ ~Decided(i)})
    BY <2>1, <1>5
  <2>. QED
    BY <2>2 DEF PendingIsReported
<1>. QED
  BY <1>3, <1>6, <1>7, <1>8 DEF EntriesInv, ReportsAreTrue

LEMMA NextInv == EntriesInv /\ [Next]_vars => EntriesInv'
<1>1. SUFFICES ASSUME EntriesInv, [Next]_vars PROVE EntriesInv'
  OBVIOUS
<1>2. Typed /\ PollTyped /\ (poll.pc \in {"answered", "synced"} => poll.todo # <<>>)
  BY <1>1 DEF EntriesInv, Typed, PollTyped
<1>3. poll.todo # <<>> => Current \in Intents
  BY <1>2, TheCurrent
<1>4. /\ DOMAIN order = Names /\ \A n \in Names : order[n] \in StateOf(n)
      /\ late \in BOOLEAN /\ faults \in 0 .. MaxFaults /\ MaxFaults \in Nat
  BY <1>2, EntriesAssumption DEF Typed
<1>5. CASE Begin
  BY <1>1, <1>5, Beginning
<1>6. CASE End
  BY <1>1, <1>6, Ending
<1>7. CASE Expire \/ Skip \/ Reject
  <2>1. PICK mark \in {Mark("expired", FALSE), Mark("skipped", FALSE), Mark("failed", FALSE)} :
          /\ Marked(mark) /\ poll.todo # <<>>
          /\ UNCHANGED <<late, order, signal, row, summary, faults>>
    BY <1>7 DEF Expire, Skip, Reject, Turn
  <2>2. mark \in MarkSet /\ mark.status \in {"skipped", "expired", "failed"}
    BY Marks
  <2>. QED
    BY <1>1, <2>1, <2>2, Marking
<1>8. CASE Wait
  BY <1>1, <1>8, Passing DEF Wait, Turn
<1>9. CASE Adopt
  BY <1>1, <1>9, Adopting
<1>10. CASE Submit
  BY <1>1, <1>10, Submitting
<1>11. CASE Record
  BY <1>1, <1>11, Recording
<1>12. CASE Sync
  BY <1>1, <1>12, Syncing
<1>13. CASE Leave
  <2>1. poll.todo # <<>> /\ UNCHANGED <<late, order, signal, row, summary, faults>>
    BY <1>2, <1>13 DEF Leave, At
  <2>2. CASE Marked(Mark("failed", FALSE))
    BY <1>1, <2>1, <2>2, Marks, Marking
  <2>3. CASE row[Current].known /\ Marked(Mark("submitted", TRUE))
    BY <1>1, <2>1, <2>3, Marks, Marking
  <2>4. CASE poll' = Turned
    BY <1>1, <2>1, <2>4, Passing
  <2>. QED
    BY <1>13, <2>2, <2>3, <2>4 DEF Leave
<1>14. CASE Cancel
  BY <1>1, <1>2, <1>14, Marks, Marking DEF Cancel, At
<1>15. CASE CancelRefused
  BY <1>1, <1>4, <1>15, PollEnds DEF CancelRefused, Aborted
<1>16. CASE Abort
  BY <1>1, <1>4, <1>16, PollEnds DEF Abort, Aborted
<1>17. CASE LoseAnswer
  <2>1. /\ poll.todo # <<>> /\ Accepted(0) /\ faults' = faults + 1 /\ faults < MaxFaults
        /\ poll' = NoPoll /\ UNCHANGED <<late, signal, row, summary>>
    BY <1>17 DEF LoseAnswer, Turn, Aborted
  <2>2. 0 \in 0 .. Lot[Name[Current]]
    BY <1>3, <2>1, OfIntents
  <2>3. DOMAIN order' = Names /\ \A n \in Names : order'[n] \in StateOf(n)
    BY <1>2, <2>1, <2>2, Accepting
  <2>. QED
    BY <1>1, <1>4, <2>1, <2>3, PollEnds
<1>18. CASE CutoffPasses
  BY <1>1, <1>4, <1>18, MarketMoves DEF CutoffPasses
<1>19. CASE \E n \in Names : Fill(n) \/ Close(n)
  <2>1. PICK n \in Names : Fill(n) \/ Close(n)
    BY <1>19
  <2>2. Lot[n] \in Nat
    BY EntriesAssumption
  <2>3. DOMAIN order' = Names /\ \A m \in Names : order'[m] \in StateOf(m)
    <3>1. CASE Fill(n)
      <4>1. PICK filled \in order[n].filled + 1 .. Lot[n] :
              order' = [order EXCEPT ![n].filled = filled, ![n].open = filled < Lot[n]]
        BY <3>1 DEF Fill
      <4>2. filled \in 0 .. Lot[n]
        BY <1>4, <2>2 DEF StateOf
      <4>3. order[n] \in StateOf(n) /\ (filled < Lot[n]) \in BOOLEAN
        BY <1>4
      <4>4. [order[n] EXCEPT !.filled = filled, !.open = filled < Lot[n]] \in StateOf(n)
        BY <4>2, <4>3 DEF StateOf
      <4>5. DOMAIN order' = Names /\ \A m \in Names \ {n} : order'[m] = order[m]
        BY <1>4, <4>1
      <4>6. order'[n] = [order[n] EXCEPT !.filled = filled, !.open = filled < Lot[n]]
        BY <1>4, <4>1
      <4>. QED
        BY <1>4, <4>4, <4>5, <4>6
    <3>2. CASE Close(n)
      BY <1>4, <3>2 DEF Close, StateOf
    <3>. QED
      BY <2>1, <3>1, <3>2
  <2>. QED
    BY <1>1, <1>4, <2>1, <2>3, MarketMoves DEF Fill, Close
<1>20. CASE UNCHANGED vars
  BY <1>1, <1>4, <1>20, MarketMoves DEF vars
<1>. QED
  BY <1>1, <1>5, <1>6, <1>7, <1>8, <1>9, <1>10, <1>11, <1>12, <1>13, <1>14, <1>15, <1>16, <1>17,
     <1>18, <1>19, <1>20 DEF Next, PollStep

-----------------------------------------------------------------------------
(* The theorems.                                                            *)

LEMMA InvAlways == Spec => []EntriesInv
BY InitInv, NextInv, PTL DEF Spec

\* Every reachable state is well formed: no order is overfilled, a poll looks at an
\* intent once, and what it keeps for its commit is about intents it is done with.
\* (process_pending_support_resistance_entries)
THEOREM EntryTypesKept == Spec => []Typed
<1>1. EntriesInv => Typed
  BY DEF EntriesInv
<1>. QED
  BY <1>1, InvAlways, PTL

\* Whatever a poll does, and wherever it ends: an intent that was decided stays
\* decided, and an order that was in the ledger stays in it.
\* (process_pending_support_resistance_entries)
DecisionsStand ==
  /\ DecisionsKept
  /\ \A i \in Intents : row[i].known => row'[i].known

LEMMA NextKeeps == EntriesInv /\ [Next]_vars => DecisionsStand
<1>1. SUFFICES ASSUME EntriesInv, [Next]_vars PROVE DecisionsStand
  OBVIOUS
<1>2. CASE UNCHANGED <<signal, row>>
  BY <1>2 DEF DecisionsStand, DecisionsKept, Decided
<1>3. ASSUME NEW rows, DOMAIN rows \subseteq Intents, Commits(rows),
             \A i \in DOMAIN rows : rows[i] \in StateOf(Name[i]) /\ rows[i].known
      PROVE  DecisionsStand
  BY <1>1, <1>3, Committing DEF DecisionsStand
<1>4. CASE Commits(<<>>)
  BY <1>3, <1>4
<1>5. CASE Sync
  <2> DEFINE asked   == {i \in Intents : row[i].known /\ row[i].open}
             answers == [i \in asked |-> Answer(Name[i])]
  <2>1. UNCHANGED <<signal, row>> \/ Commits(answers)
    BY <1>5 DEF Sync
  <2>2. DOMAIN answers = asked /\ \A i \in asked : answers[i] \in StateOf(Name[i]) /\ answers[i].known
    BY <1>1, OfIntents DEF EntriesInv, Typed, Answer, StateOf
  <2>. QED
    BY <1>2, <1>3, <2>1, <2>2
<1>6. CASE End \/ Record
  BY <1>4, <1>6 DEF End, Record
<1>7. CASE ~(Sync \/ End \/ Record)
  BY <1>1, <1>2, <1>7 DEF Next, PollStep, Begin, Expire, Wait, Skip, Adopt, Submit, Reject, Leave,
     Cancel, CancelRefused, Abort, LoseAnswer, Aborted, CutoffPasses, Fill, Close, vars
<1>. QED
  BY <1>5, <1>6, <1>7

\* DecisionsStand holds of every step, commits and failures included.
\* (process_pending_support_resistance_entries)
THEOREM DecisionsStandAlways == Spec => [][DecisionsStand]_vars
BY InvAlways, NextKeeps, PTL DEF Spec

\* What runs, intents and summaries say of orders is true after every commit: a
\* submitted intent has its row, and no run reports fewer pending entries than it
\* left undecided, whichever call fails, whichever answer is lost and wherever a
\* poll ends. (process_pending_support_resistance_entries)
THEOREM ReportsStayTrue == Spec => []ReportsAreTrue
<1>1. EntriesInv => ReportsAreTrue
  BY DEF EntriesInv
<1>. QED
  BY <1>1, InvAlways, PTL
=============================================================================

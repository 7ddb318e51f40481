-------------------------- MODULE PaperOrdersProofs --------------------------
(***************************************************************************)
(* Proofs about PaperOrders, for any number of sleeves, symbols, threads,  *)
(* days, runs, orders and faults.                                          *)
(***************************************************************************)
EXTENDS PaperOrders, SequenceTheorems, FiniteSetTheorems, TLAPS

Places == {"idle", "between", "sync", "synced", "positions", "orders", "check", "evaluate",
           "trade", "answered"}

Fields == {"pc", "day", "left", "run", "seen", "positions", "open", "todo", "book"}

AnswerSet == [filled : Nat, open : BOOLEAN, at : Nat]
RunSet    == [sleeve : Sleeves, day : Days, scheduled : BOOLEAN,
              status : {"running", "completed", "failed"}]
OrderSet  == [cid : Sleeves \X Days \X Symbols \X Sides,
              run : [sleeve : Sleeves, n : DOMAIN runs],
              sym : Symbols, side : Sides, qty : Nat, filled : Nat, open : BOOLEAN, at : Nat]

\* A thread between two runs or in one has a date of the past, or of today, and a
\* busy one has a row of runs.
Sound(r) ==
  /\ DOMAIN runner[r] = Fields /\ runner[r].pc \in Places
  /\ DOMAIN runner[r].seen \subseteq OrderIds
  /\ \A o \in DOMAIN runner[r].seen : runner[r].seen[o] \in AnswerSet
  /\ runner[r].todo \subseteq Symbols \X Sides /\ runner[r].left \in Seq(Sleeves)
  /\ runner[r].day \in 0 .. today /\ (~At(r, "idle") => runner[r].day \in 1 .. today)
  /\ IF Busy(r) THEN runner[r].run \in DOMAIN runs ELSE runner[r].run = 0

\* Some order is the last that anything happened to.
Stamped ==
  orders # <<>> => \E o \in OrderIds : \A p \in OrderIds : orders[p].at <= orders[o].at

OrdersTyped ==
  /\ orders \in Seq(OrderSet) /\ Stamped
  /\ \A o \in OrderIds : orders[o].filled <= orders[o].qty

LedgerTyped == Tracked \subseteq OrderIds /\ \A o \in Tracked : ledger[o] \in AnswerSet

Typed ==
  /\ today \in Days /\ faults \in 0 .. MaxFaults /\ calm \in BOOLEAN
  /\ OrdersTyped /\ LedgerTyped /\ runs \in Seq(RunSet)
  /\ DOMAIN runner = Runners /\ \A r \in Runners : Sound(r)

LEMMA TypedTypes == Typed => TypeOK
BY DEF Typed, TypeOK, OrdersTyped, LedgerTyped, OrderSet, RunSet, AnswerSet, Sound

-----------------------------------------------------------------------------
(* What the steps do to what the invariants are about.                      *)

Others(r) == DOMAIN runner' = Runners /\ \A q \in Runners \ {r} : runner'[q] = runner[q]

\* A thread becomes idle, or is left with a list of strategies.
Becomes(r, rec) == Others(r) /\ runner'[r] = rec

\* A thread goes on in its run.
Goes(r, pc) ==
  /\ Others(r) /\ DOMAIN runner'[r] = Fields /\ runner'[r].pc = pc
  /\ UNCHANGED <<runner[r].run, runner[r].left, runner[r].day>>

\* ... and has read nothing that the next step depends on.
Ponders(r) ==
  /\ runner[r].pc \in {"positions", "orders", "check", "evaluate", "trade"}
  /\ \E pc \in {"orders", "check", "evaluate", "trade"} : Goes(r, pc)
  /\ UNCHANGED <<today, orders, ledger, runs, runner[r].seen>>
  /\ runner'[r].todo \subseteq Symbols \X Sides

LEMMA Pondering ==
  ASSUME Typed, NEW r \in Runners,
         \/ ListPositions(r) \/ ListOrders(r) \/ Check(r) \/ Evaluate(r)
         \/ \E e \in Symbols \X Sides : Skip(r, e) \/ Reject(r, e)
  PROVE  Ponders(r)
<1> USE DEF Typed, Sound, At, Fields, Goes, Others
<1>1. CASE ListPositions(r)
  BY <1>1 DEF ListPositions, Ponders
<1>2. CASE ListOrders(r)
  BY <1>2 DEF ListOrders, Ponders
<1>3. CASE Check(r)
  BY <1>3 DEF Check, Ponders
<1>4. CASE Evaluate(r)
  <2>1. PICK todo \in SUBSET (Symbols \X Sides) :
          runner' = [runner EXCEPT
            ![r].pc = "trade", ![r].todo = todo, ![r].book = Rebuilt(MySleeve(r)),
            ![r].open = {<<orders[o].sym, orders[o].side>> : o \in @}]
    BY <1>4 DEF Evaluate
  <2>2. UNCHANGED <<today, orders, ledger, runs>> /\ runner[r].pc = "evaluate"
    BY <1>4 DEF Evaluate
  <2>3. /\ DOMAIN runner'[r] = Fields /\ runner'[r].pc = "trade" /\ runner'[r].todo = todo
        /\ UNCHANGED <<runner[r].run, runner[r].left, runner[r].day, runner[r].seen>>
    BY <2>1
  <2>4. DOMAIN runner' = Runners /\ \A q \in Runners \ {r} : runner'[q] = runner[q]
    BY <2>1
  <2>. QED
    BY <2>2, <2>3, <2>4 DEF Ponders
<1>5. ASSUME NEW e \in Symbols \X Sides, Skip(r, e) \/ Reject(r, e) PROVE Ponders(r)
  BY <1>5 DEF Skip, Reject, Asks, Turn, Done, Ponders
<1>. QED
  BY <1>1, <1>2, <1>3, <1>4, <1>5

LEMMA Passing ==
  ASSUME Typed, NEW r \in Runners
  PROVE  /\ \A rec : runner' = [runner EXCEPT ![r] = rec] => Becomes(r, rec)
         /\ DOMAIN Idle = Fields /\ Idle.pc = "idle" /\ Idle.seen = <<>> /\ Idle.todo = {}
         /\ Idle.left = <<>> /\ Idle.day = 0 /\ Idle.run = 0
         /\ \A d, left : /\ DOMAIN Pass(d, left) = Fields /\ Pass(d, left).pc = "between"
                         /\ Pass(d, left).seen = <<>> /\ Pass(d, left).todo = {}
                         /\ Pass(d, left).left = left /\ Pass(d, left).day = d
BY DEF Typed, Sound, Becomes, Others, Idle, Pass, Fields

LEMMA Sending ==
  ASSUME Typed, NEW r \in Runners, NEW e \in Symbols \X Sides, Submit(r, e)
  PROVE  /\ runner[r].pc = "trade" /\ Goes(r, "answered") /\ UNCHANGED runner[r].todo
         /\ \E filled \in {0, Quantity(r, e)} :
              /\ orders' = Accepted(r, e, filled)
              /\ runner'[r].seen = [o \in {Len(orders) + 1} |->
                   [filled |-> filled, open |-> filled < Quantity(r, e), at |-> Now + 1]]
BY DEF Submit, Asks, Turn, Typed, Sound, At, Fields, Goes, Others

LEMMA Recording ==
  ASSUME Typed, NEW r \in Runners, Record(r)
  PROVE  /\ runner[r].pc = "answered" /\ Goes(r, "trade") /\ runner'[r].seen = <<>>
         /\ runner'[r].todo \subseteq runner[r].todo
         /\ ledger' = Upserted(runner[r].seen)
<1> USE DEF Typed, Sound
<1>1. PICK o \in DOMAIN runner[r].seen :
         runner' = [Done(r, <<orders[o].sym, orders[o].side>>) EXCEPT
           ![r].seen = <<>>,
           ![r].open = @ \cup {<<orders[o].sym, orders[o].side>>},
           ![r].book = ApplyFill(@, orders[o].sym, orders[o].side, runner[r].seen[o].filled)]
  BY DEF Record
<1>2. PICK done : done = Done(r, <<orders[o].sym, orders[o].side>>)
  OBVIOUS
<1>3. /\ DOMAIN done = Runners /\ \A q \in Runners \ {r} : done[q] = runner[q]
      /\ DOMAIN done[r] = Fields /\ done[r].pc = "trade" /\ done[r].todo \subseteq runner[r].todo
      /\ done[r].run = runner[r].run /\ done[r].left = runner[r].left /\ done[r].day = runner[r].day
  BY <1>2 DEF Done, Fields
<1>4. /\ DOMAIN runner' = Runners /\ \A q \in Runners \ {r} : runner'[q] = done[q]
      /\ DOMAIN runner'[r] = Fields /\ runner'[r].pc = done[r].pc /\ runner'[r].seen = <<>>
      /\ runner'[r].todo = done[r].todo
      /\ runner'[r].run = done[r].run /\ runner'[r].left = done[r].left
      /\ runner'[r].day = done[r].day
  BY <1>1, <1>2, <1>3 DEF Fields
<1>5. runner[r].pc = "answered" /\ ledger' = Upserted(runner[r].seen)
  BY DEF Record, At
<1>. QED
  BY <1>3, <1>4, <1>5 DEF Goes, Others

LEMMA Syncing ==
  ASSUME Typed, NEW r \in Runners
  PROVE  /\ SyncRead(r) => /\ runner[r].pc = "sync" /\ Goes(r, "synced") /\ UNCHANGED runner[r].todo
                           /\ runner'[r].seen = [o \in NeedsSync(MySleeve(r)) |-> Answer(o)]
         /\ SyncCommit(r) => /\ runner[r].pc = "synced" /\ Goes(r, "positions")
                             /\ UNCHANGED runner[r].todo /\ runner'[r].seen = <<>>
BY DEF SyncRead, SyncCommit, Typed, Sound, At, Fields, Goes, Others

LEMMA Beginning ==
  ASSUME Typed, NEW r \in Runners, Begin(r)
  PROVE  /\ Others(r) /\ DOMAIN runner'[r] = Fields /\ runner'[r].pc = "sync"
         /\ UNCHANGED <<runner[r].day, runner[r].seen, runner[r].todo>>
         /\ runner'[r].left = Tail(runner[r].left) /\ runner'[r].run = Len(runs) + 1
BY DEF Begin, Typed, Sound, At, Fields, Others
-----------------------------------------------------------------------------
(* Types.                                                                   *)

LEMMA OrderTypes ==
  ASSUME Typed
  PROVE  /\ orders \in Seq(OrderSet) /\ Len(orders) \in Nat /\ DOMAIN orders = OrderIds
         /\ \A o \in OrderIds : orders[o] \in OrderSet
<1>1. orders \in Seq(OrderSet)
  BY DEF Typed, OrdersTyped
<1>. QED
  BY <1>1 DEF OrderIds

LEMMA NowIsLast ==
  ASSUME Typed
  PROVE  Now \in Nat /\ \A o \in OrderIds : orders[o].at \in Nat /\ orders[o].at <= Now
<1> DEFINE S == {orders[o].at : o \in OrderIds}
<1>1. CASE orders = <<>>
  BY <1>1 DEF Now, OrderIds
<1>2. CASE orders # <<>>
  <2>1. \A p \in OrderIds : orders[p].at \in Nat
    BY OrderTypes DEF OrderSet
  <2>2. PICK o \in OrderIds : \A p \in OrderIds : orders[p].at <= orders[o].at
    BY <1>2 DEF Typed, OrdersTyped, Stamped
  <2>3. orders[o].at \in S /\ \A y \in S : orders[o].at >= y
    BY <2>1, <2>2
  <2>4. Max(S) \in S /\ \A y \in S : Max(S) >= y
    BY <2>3 DEF Max
  <2>5. Max(S) \in Nat /\ \A p \in OrderIds : orders[p].at <= Max(S)
    BY <2>1, <2>4
  <2>. QED
    BY <1>2, <2>1, <2>5 DEF Now
<1>. QED
  BY <1>1, <1>2

LEMMA InitTyped == Init => Typed
<1> SUFFICES ASSUME Init PROVE Typed
  OBVIOUS
<1> USE PaperAssumption DEF Init, OrderIds, Tracked
<1>1. DOMAIN ledger = {} /\ orders = <<>> /\ runs = <<>> /\ OrderIds = {}
  OBVIOUS
<1>2. \A r \in Runners : /\ DOMAIN runner[r] = Fields /\ runner[r].pc = "idle"
                         /\ DOMAIN runner[r].seen = {} /\ runner[r].todo = {}
                          /\ runner[r].left = <<>> /\ runner[r].day = 0 /\ runner[r].run = 0
  BY DEF Idle, Fields
<1>3. DOMAIN runner = Runners
  OBVIOUS
<1>4. OrdersTyped
  <2>1. orders \in Seq(OrderSet)
    BY <1>1
  <2>. QED
    BY <1>1, <2>1 DEF OrdersTyped, Stamped
<1>5. LedgerTyped /\ runs \in Seq(RunSet)
  BY <1>1 DEF LedgerTyped
<1>6. \A r \in Runners : Sound(r)
  <2> SUFFICES ASSUME NEW r \in Runners PROVE Sound(r)
    OBVIOUS
  <2>1. <<>> \in Seq(Sleeves) /\ runner[r].left = <<>>
    BY <1>2
  <2>2. runner[r].todo \subseteq Symbols \X Sides /\ DOMAIN runner[r].seen \subseteq OrderIds
    BY <1>2
  <2>. QED
    <3>1. runner[r].day \in 0 .. today /\ At(r, "idle") /\ ~Busy(r) /\ runner[r].pc \in Places
      BY <1>2 DEF At, Busy, Places
    <3>. QED
      BY <1>2, <2>1, <2>2, <3>1 DEF Sound
<1>7. today \in Days /\ faults \in 0 .. MaxFaults /\ calm \in BOOLEAN
  BY DEF Days
<1>. QED
  BY <1>3, <1>4, <1>5, <1>6, <1>7 DEF Typed

\* What a step leaves of a thread that does not take it.
LEMMA OthersSound ==
  ASSUME Typed, NEW r \in Runners, Others(r), today <= today', today' \in Nat,
         OrderIds \subseteq OrderIds', DOMAIN runs \subseteq DOMAIN runs', Sound(r)'
  PROVE  DOMAIN runner' = Runners /\ \A q \in Runners : Sound(q)'
<1> SUFFICES ASSUME NEW q \in Runners, q # r PROVE Sound(q)'
  BY DEF Others
<1>1. runner'[q] = runner[q] /\ Sound(q) /\ today \in Nat
  BY DEF Others, Typed, Days
<1>. QED
  BY <1>1 DEF Sound, At, Busy

\* An order is accepted: it is the last, and the others stay.
LEMMA Accepting ==
  ASSUME Typed, NEW r \in Runners, NEW e \in Symbols \X Sides, Asks(r, e),
         NEW filled \in {0, Quantity(r, e)}, orders' = Accepted(r, e, filled)
  PROVE  /\ orders' \in Seq(OrderSet) /\ Stamped'
         /\ Len(orders') = Len(orders) + 1
         /\ \A o \in OrderIds : orders'[o] = orders[o]
         /\ LET new == orders'[Len(orders) + 1] IN
            /\ new.cid = MyClientOrderId(r, e) /\ new.sym = e[1] /\ new.side = e[2]
            /\ new.run.sleeve = MySleeve(r) /\ new.run.n = runner[r].run
            /\ new.qty = Quantity(r, e) /\ new.filled = filled
            /\ new.open = (filled < Quantity(r, e)) /\ new.at = Now + 1
            /\ filled \in 0 .. Quantity(r, e) /\ Quantity(r, e) \in Nat \ {0}
<1> DEFINE new == [cid |-> MyClientOrderId(r, e),
                   run |-> [sleeve |-> MySleeve(r), n |-> runner[r].run],
                   sym |-> e[1], side |-> e[2], qty |-> Quantity(r, e),
                   filled |-> filled, open |-> filled < Quantity(r, e), at |-> Now + 1]
<1>1. Busy(r) /\ runner[r].run \in DOMAIN runs /\ Run(r) \in RunSet
  BY DEF Asks, Turn, At, Busy, Typed, Sound, Run
<1>2. Quantity(r, e) \in Nat \ {0} /\ filled \in Nat /\ Now + 1 \in Nat
  BY NowIsLast DEF Asks
<1>3. MyClientOrderId(r, e) \in Sleeves \X Days \X Symbols \X Sides /\ MySleeve(r) \in Sleeves
  BY <1>1 DEF MyClientOrderId, ClientOrderId, MySleeve, RunSet
<1>4. new \in OrderSet
  BY <1>1, <1>2, <1>3 DEF OrderSet
<1>5. orders' = Append(orders, new)
  BY DEF Accepted
<1> HIDE DEF new
<1>6. /\ orders' \in Seq(OrderSet) /\ Len(orders') = Len(orders) + 1
      /\ \A o \in OrderIds : orders'[o] = orders[o]
      /\ orders'[Len(orders) + 1] = new
  BY <1>4, <1>5, OrderTypes DEF OrderIds
<1>7. \A o \in OrderIds : orders[o].at <= Now + 1
  BY <1>2, NowIsLast, OrderTypes DEF OrderSet
<1>8. Stamped'
  <2>1. OrderIds' = OrderIds \cup {Len(orders) + 1}
    BY <1>6, OrderTypes DEF OrderIds
  <2>2. \A p \in OrderIds' : orders'[p].at <= orders'[Len(orders) + 1].at
    BY <1>2, <1>6, <1>7, <2>1 DEF new
  <2>. QED
    BY <2>1, <2>2 DEF Stamped
<1>. QED
  BY <1>2, <1>6, <1>8 DEF new

LEMMA Working ==
  ASSUME Typed, NEW o \in OrderIds, Fill(o) \/ Expire(o)
  PROVE  /\ orders' \in Seq(OrderSet) /\ Stamped' /\ OrderIds' = OrderIds
         /\ \A p \in OrderIds \ {o} : orders'[p] = orders[p]
         /\ orders[o].open
         /\ \E n \in orders[o].filled .. orders[o].qty, open \in BOOLEAN :
              /\ n \in Nat
              /\ orders'[o] = [orders[o] EXCEPT !.filled = n, !.open = open, !.at = Now + 1]
<1>1. Now + 1 \in Nat /\ orders[o] \in OrderSet
  BY NowIsLast, OrderTypes
<1>2. PICK n \in Nat, open \in BOOLEAN :
         /\ n \in orders[o].filled .. orders[o].qty
         /\ orders' = [orders EXCEPT ![o].filled = n, ![o].open = open, ![o].at = Now + 1]
  <2> DEFINE Worked(n, open) ==
               orders' = [orders EXCEPT ![o].filled = n, ![o].open = open, ![o].at = Now + 1]
  <2>1. CASE Fill(o)
    <3>1. PICK n \in orders[o].filled + 1 .. orders[o].qty : Worked(n, n < orders[o].qty)
      BY <2>1 DEF Fill
    <3>2. n \in Nat /\ n \in orders[o].filled .. orders[o].qty /\ (n < orders[o].qty) \in BOOLEAN
      BY <1>1 DEF OrderSet
    <3>. QED
      BY <3>1, <3>2
  <2>2. CASE Expire(o)
    <3>1. orders' = [orders EXCEPT ![o].open = FALSE, ![o].at = Now + 1]
      BY <2>2 DEF Expire
    <3>2. orders[o] = [orders[o] EXCEPT !.filled = orders[o].filled]
      BY <1>1 DEF OrderSet
    <3>3. Worked(orders[o].filled, FALSE)
      BY <1>1, <3>1, <3>2, OrderTypes DEF OrderSet
    <3>4. orders[o].filled \in Nat /\ orders[o].filled \in orders[o].filled .. orders[o].qty
      BY <1>1 DEF OrderSet, Typed, OrdersTyped
    <3>. QED
      BY <3>3, <3>4
  <2>. QED
    BY <2>1, <2>2
<1> DEFINE new == [orders[o] EXCEPT !.filled = n, !.open = open, !.at = Now + 1]
<1>3. orders' = [orders EXCEPT ![o] = new]
  BY <1>2, OrderTypes
<1>4. /\ new \in OrderSet /\ new.filled = n /\ new.open = open /\ new.at = Now + 1
      /\ new.qty = orders[o].qty
  BY <1>1, <1>2 DEF OrderSet
<1> HIDE DEF new
<1>5. /\ orders' \in Seq(OrderSet) /\ Len(orders') = Len(orders) /\ orders'[o] = new
      /\ \A p \in OrderIds \ {o} : orders'[p] = orders[p]
  BY <1>3, <1>4, OrderTypes DEF OrderIds
<1>6. OrderIds' = OrderIds
  BY <1>5 DEF OrderIds
<1>7. Stamped'
  <2>1. \A p \in OrderIds : orders'[p].at <= orders'[o].at
    <3>1. \A p \in OrderIds : orders[p].at <= Now + 1 /\ Now \in Nat
      BY NowIsLast
    <3>2. orders'[o].at = Now + 1
      BY <1>4, <1>5
    <3>. QED
      BY <1>5, <3>1, <3>2
  <2>. QED
    BY <1>6, <2>1 DEF Stamped
<1>8. orders[o].open
  BY DEF Fill, Expire
<1>. QED
  BY <1>2, <1>5, <1>6, <1>7, <1>8 DEF new
\* Rows are only added, and of a row only the status changes.
RunsGo ==
  /\ runs' \in Seq(RunSet) /\ DOMAIN runs \subseteq DOMAIN runs'
  /\ \A i \in DOMAIN runs :
       UNCHANGED <<runs[i].sleeve, runs[i].day, runs[i].scheduled>>

\* The row of one run gets a final status.
Ends(r, status) ==
  /\ DOMAIN runs' = DOMAIN runs /\ RunsGo
  /\ runs'[runner[r].run].status = status
  /\ \A i \in DOMAIN runs \ {runner[r].run} : runs'[i] = runs[i]

LEMMA Ending ==
  ASSUME Typed, NEW r \in Runners, Busy(r)
  PROVE  /\ Complete(r) => Ends(r, "completed") /\ Becomes(r, Pass(runner[r].day, runner[r].left))
         /\ Failed(r) => /\ Ends(r, "failed")
                         /\ \E left \in {runner[r].left, <<>>} : Becomes(r, Pass(runner[r].day, left))
<1>1. runner[r].run \in DOMAIN runs /\ runs \in Seq(RunSet)
  BY DEF Typed, Sound
<1>2. ASSUME NEW status \in {"completed", "failed"},
             runs' = [runs EXCEPT ![runner[r].run].status = status]
      PROVE  Ends(r, status)
  <2>1. \A i \in DOMAIN runs : runs[i] \in RunSet
    BY <1>1
  <2>2. [runs[runner[r].run] EXCEPT !.status = status] \in RunSet
    BY <1>1, <2>1 DEF RunSet
  <2>3. runs' = [runs EXCEPT ![runner[r].run] = [runs[runner[r].run] EXCEPT !.status = status]]
    BY <1>1, <1>2
  <2>4. runs' \in Seq(RunSet) /\ DOMAIN runs' = DOMAIN runs
    BY <1>1, <2>2, <2>3
  <2>5. /\ runs'[runner[r].run] = [runs[runner[r].run] EXCEPT !.status = status]
        /\ \A i \in DOMAIN runs \ {runner[r].run} : runs'[i] = runs[i]
    BY <1>1, <2>3
  <2>6. runs'[runner[r].run].status = status
    BY <1>1, <2>1, <2>5 DEF RunSet
  <2>7. \A i \in DOMAIN runs : UNCHANGED <<runs[i].sleeve, runs[i].day, runs[i].scheduled>>
    BY <1>1, <2>1, <2>5 DEF RunSet
  <2>. QED
    BY <2>4, <2>5, <2>6, <2>7 DEF Ends, RunsGo
<1>3. Complete(r) => Ends(r, "completed") /\ Becomes(r, Pass(runner[r].day, runner[r].left))
  BY <1>2, Passing DEF Complete
<1>4. ASSUME Failed(r)
      PROVE  /\ Ends(r, "failed")
             /\ \E left \in {runner[r].left, <<>>} : Becomes(r, Pass(runner[r].day, left))
  <2>1. Ends(r, "failed")
    BY <1>2, <1>4 DEF Failed
  <2>2. PICK left \in {runner[r].left, <<>>} :
          runner' = [runner EXCEPT ![r] = Pass(runner[r].day, left)]
    BY <1>4 DEF Failed
  <2>. QED
    BY <2>1, <2>2, Passing
<1>. QED
  BY <1>3, <1>4
\* A run begins with the first of the strategies that are left.
LEMMA NewRun ==
  ASSUME Typed, NEW r \in Runners, Begin(r)
  PROVE  /\ RunsGo /\ runner[r].pc = "between" /\ DOMAIN runs' = DOMAIN runs \cup {Len(runs) + 1}
         /\ Len(runs) + 1 \notin DOMAIN runs
         /\ \A i \in DOMAIN runs : runs'[i] = runs[i]
         /\ runner[r].left # <<>> /\ runner'[r].left \in Seq(Sleeves)
         /\ runs'[Len(runs) + 1].sleeve = Head(runner[r].left)
         /\ runs'[Len(runs) + 1].day = runner[r].day
         /\ runs'[Len(runs) + 1].scheduled = (r \in Schedulers)
         /\ runs'[Len(runs) + 1].status = "running"
<1> DEFINE new == [sleeve |-> Head(runner[r].left), day |-> runner[r].day,
                   scheduled |-> r \in Schedulers, status |-> "running"]
<1>1. /\ runner[r].pc = "between" /\ runner[r].left # <<>> /\ runner[r].left \in Seq(Sleeves)
      /\ runner[r].day \in Days /\ runs \in Seq(RunSet) /\ runs' = Append(runs, new)
  BY PaperAssumption, SMTT(40) DEF Begin, Typed, Sound, At, Days
<1>2. Head(runner[r].left) \in Sleeves /\ Tail(runner[r].left) \in Seq(Sleeves)
  BY <1>1
<1>3. new \in RunSet
  BY <1>1, <1>2 DEF RunSet
<1> HIDE DEF new
<1>4. /\ runs' \in Seq(RunSet) /\ DOMAIN runs' = DOMAIN runs \cup {Len(runs) + 1}
      /\ \A i \in DOMAIN runs : runs'[i] = runs[i]
      /\ runs'[Len(runs) + 1] = new /\ Len(runs) + 1 \notin DOMAIN runs
  BY <1>1, <1>3
<1>5. RunsGo
  BY <1>4 DEF RunsGo
<1>6. new.sleeve = Head(runner[r].left) /\ new.day = runner[r].day /\ new.status = "running"
  BY DEF new
<1>7. new.scheduled = (r \in Schedulers)
  BY Zenon DEF new
<1>. QED
  BY <1>1, <1>2, <1>4, <1>5, <1>6, <1>7, Beginning

\* The rows of an answer are over the others.
LEMMA Upserting ==
  ASSUME Typed, NEW r \in Runners, ledger' = Upserted(runner[r].seen), UNCHANGED orders
  PROVE  /\ LedgerTyped' /\ Tracked' = Tracked \cup DOMAIN runner[r].seen
         /\ \A o \in Tracked' : ledger'[o] = IF o \in DOMAIN runner[r].seen THEN runner[r].seen[o]
                                             ELSE ledger[o]
<1>1. /\ Tracked' = Tracked \cup DOMAIN runner[r].seen
      /\ \A o \in Tracked' : ledger'[o] = IF o \in DOMAIN runner[r].seen THEN runner[r].seen[o]
                                          ELSE ledger[o]
  BY DEF Tracked, Upserted
<1>2. Sound(r) /\ LedgerTyped /\ OrderIds' = OrderIds
  BY DEF Typed, OrderIds
<1>3. Tracked' \subseteq OrderIds'
  BY <1>1, <1>2 DEF Sound, LedgerTyped
<1>4. \A o \in Tracked' : ledger'[o] \in AnswerSet
  BY <1>1, <1>2 DEF Sound, LedgerTyped
<1>. QED
  BY <1>1, <1>3, <1>4 DEF LedgerTyped

LEMMA TypedKept ==
  ASSUME Typed, NEW r \in Runners, Others(r), Sound(r)', RunsGo,
         UNCHANGED today, faults' \in 0 .. MaxFaults, calm' \in BOOLEAN,
         orders' \in Seq(OrderSet), Stamped', OrderIds \subseteq OrderIds',
         \A o \in OrderIds' : orders'[o].filled <= orders'[o].qty,
         LedgerTyped'
  PROVE  Typed'
<1>1. OrderSet \subseteq OrderSet'
  BY DEF RunsGo, OrderSet
<1>2. orders' \in Seq(OrderSet')
  BY <1>1, SeqMonotonic
<1>3. OrdersTyped'
  BY <1>2 DEF OrdersTyped
<1>4. DOMAIN runner' = Runners /\ \A q \in Runners : Sound(q)'
  <2>1. today <= today' /\ today' \in Nat /\ DOMAIN runs \subseteq DOMAIN runs'
    BY DEF RunsGo, Typed, Days
  <2>. QED
    BY <2>1, OthersSound
<1>. QED
  BY <1>3, <1>4 DEF Typed, RunsGo, RunSet

LEMMA SoundStep ==
  ASSUME Typed, NEW r \in Runners, Goes(r, runner'[r].pc), Busy(r),
         runner'[r].pc \in Places \ {"idle", "between"},
         runner'[r].todo \subseteq Symbols \X Sides, UNCHANGED today, RunsGo,
         DOMAIN runner'[r].seen \subseteq OrderIds',
         \A o \in DOMAIN runner'[r].seen : runner'[r].seen[o] \in AnswerSet
  PROVE  Sound(r)'
<1>1. Sound(r) /\ runner[r].pc # "idle" /\ runner[r].run \in DOMAIN runs
  BY DEF Typed, Sound, Busy
<1>. QED
  BY <1>1 DEF Goes, Sound, At, Busy, RunsGo, AnswerSet

LEMMA SoundPass ==
  ASSUME Typed, NEW r \in Runners, NEW d \in 1 .. today, NEW left \in Seq(Sleeves),
         runner'[r] = Pass(d, left), UNCHANGED today
  PROVE  Sound(r)'
<1>1. /\ DOMAIN runner'[r] = Fields /\ runner'[r].pc = "between" /\ DOMAIN runner'[r].seen = {}
      /\ runner'[r].todo = {} /\ runner'[r].left = left /\ runner'[r].day = d /\ runner'[r].run = 0
  BY Passing DEF Pass, Idle
<1>. QED
  BY <1>1 DEF Sound, At, Busy, Places, Typed, Days

LEMMA SoundIdle ==
  ASSUME Typed, NEW r \in Runners, runner'[r] = Idle, UNCHANGED today
  PROVE  Sound(r)'
<1>1. /\ DOMAIN runner'[r] = Fields /\ runner'[r].pc = "idle" /\ DOMAIN runner'[r].seen = {}
      /\ runner'[r].todo = {} /\ runner'[r].left = <<>> /\ runner'[r].day = 0 /\ runner'[r].run = 0
  BY Passing
<1>2. runner'[r].left \in Seq(Sleeves)
  BY <1>1
<1>. QED
  BY <1>1, <1>2 DEF Sound, At, Busy, Places, Typed, Days
LEMMA Untouched ==
  ASSUME Typed
  PROVE  /\ UNCHANGED orders => /\ orders' \in Seq(OrderSet) /\ Stamped' /\ OrderIds' = OrderIds
                                /\ \A o \in OrderIds' : orders'[o].filled <= orders'[o].qty
         /\ UNCHANGED runs => RunsGo
         /\ UNCHANGED ledger /\ OrderIds \subseteq OrderIds' => LedgerTyped'
<1>1. UNCHANGED orders => /\ orders' \in Seq(OrderSet) /\ Stamped' /\ OrderIds' = OrderIds
                          /\ \A o \in OrderIds' : orders'[o].filled <= orders'[o].qty
  BY DEF Typed, OrdersTyped, Stamped, OrderIds
<1>2. UNCHANGED runs => RunsGo
  BY DEF Typed, RunsGo
<1>3. UNCHANGED ledger /\ OrderIds \subseteq OrderIds' => LedgerTyped'
  BY DEF Typed, LedgerTyped, Tracked
<1>. QED
  BY <1>1, <1>2, <1>3

\* An accepted order keeps the books as they are.
LEMMA AcceptingKeeps ==
  ASSUME Typed, NEW r \in Runners, NEW e \in Symbols \X Sides, Asks(r, e),
         NEW filled \in {0, Quantity(r, e)}, orders' = Accepted(r, e, filled), UNCHANGED ledger
  PROVE  /\ orders' \in Seq(OrderSet) /\ Stamped' /\ OrderIds' = OrderIds \cup {Len(orders) + 1}
         /\ \A o \in OrderIds' : orders'[o].filled <= orders'[o].qty
         /\ LedgerTyped' /\ filled \in Nat /\ Len(orders) + 1 \notin OrderIds
<1>1. OrderIds' = OrderIds \cup {Len(orders) + 1} /\ Len(orders) + 1 \notin OrderIds
  BY Accepting, OrderTypes DEF OrderIds
<1>2. \A o \in OrderIds' : orders'[o].filled <= orders'[o].qty
  <2>1. \A o \in OrderIds : orders'[o].filled <= orders'[o].qty
    BY Accepting DEF Typed, OrdersTyped
  <2>2. /\ orders'[Len(orders) + 1].filled = filled /\ orders'[Len(orders) + 1].qty = Quantity(r, e)
        /\ filled \in 0 .. Quantity(r, e) /\ Quantity(r, e) \in Nat
    BY Accepting
  <2>. QED
    BY <1>1, <2>1, <2>2
<1>. QED
  BY <1>1, <1>2, Accepting, Untouched

LEMMA StepTyped ==
  ASSUME Typed, NEW r \in Runners, Step(r), calm' \in BOOLEAN
  PROVE  Typed'
<1> DEFINE Books == orders' \in Seq(OrderSet) /\ Stamped' /\ OrderIds \subseteq OrderIds'
                    /\ (\A o \in OrderIds' : orders'[o].filled <= orders'[o].qty) /\ LedgerTyped'
           Same == UNCHANGED <<orders, ledger>>
<1>1. faults \in 0 .. MaxFaults /\ MaxFaults \in Nat /\ Sound(r)
  BY PaperAssumption DEF Typed
<1>2. Same => Books
  BY Untouched
<1>3. CASE Poll(r) \/ Request(r)
  <2>1. PICK d \in 1 .. today, left \in Seq(Sleeves) : runner' = [runner EXCEPT ![r] = Pass(d, left)]
    <3>1. today \in 1 .. today /\ Allocated \in Seq(Sleeves)
          /\ \A left \in {<<s>> : s \in Sleeves} \cup {Allocated} : left \in Seq(Sleeves)
      <4>1. today \in 1 .. today
        BY PaperAssumption DEF Typed, Days
      <4>2. \A sl \in Sleeves : <<sl>> \in Seq(Sleeves)
        OBVIOUS
      <4>. QED
        BY <4>1, <4>2, PaperAssumption
    <3>2. CASE Poll(r)
      BY <3>1, <3>2, Zenon DEF Poll
    <3>3. CASE Request(r)
      BY <3>1, <3>3, Zenon DEF Request
    <3>. QED
      BY <1>3, <3>2, <3>3
  <2>2. Same /\ UNCHANGED <<today, runs, faults>>
    BY <1>3 DEF Poll, Request
  <2>3. Others(r) /\ runner'[r] = Pass(d, left)
    BY <2>1, Passing DEF Becomes
  <2>4. Sound(r)'
    BY <2>2, <2>3, SoundPass
  <2>5. RunsGo /\ Books
    BY <1>2, <2>2, Untouched
  <2>. QED
    BY <1>1, <2>2, <2>3, <2>4, <2>5, TypedKept
<1>4. CASE Rest(r) \/ Die(r)
  <2>1. runner' = [runner EXCEPT ![r] = Idle] /\ Same /\ UNCHANGED <<today, runs>>
    BY <1>4 DEF Rest, Die
  <2>2. faults' \in 0 .. MaxFaults
    BY <1>1, <1>4 DEF Rest, Die
  <2>. QED
    <3>1. Others(r) /\ runner'[r] = Idle
      BY <2>1, Passing DEF Becomes
    <3>2. Sound(r)'
      BY <2>1, <3>1, SoundIdle
    <3>3. RunsGo /\ Books
      BY <1>2, <2>1, Untouched
    <3>. QED
      BY <2>1, <2>2, <3>1, <3>2, <3>3, TypedKept
<1>5. CASE Begin(r)
  <2>1. Same /\ UNCHANGED <<today, faults>>
    BY <1>5 DEF Begin
  <2>2. Sound(r)'
    BY <1>1, <1>5, <2>1, Beginning, NewRun DEF Sound, At, Busy, Places, OrderIds
  <2>. QED
    BY <1>1, <1>2, <1>5, <2>1, <2>2, Beginning, NewRun, TypedKept
<1>6. CASE SyncRead(r)
  <2>1. Same /\ UNCHANGED <<today, faults, runs>>
    BY <1>6 DEF SyncRead
  <2>2. NeedsSync(MySleeve(r)) \subseteq OrderIds
    BY DEF Typed, LedgerTyped, NeedsSync
  <2>3. \A o \in OrderIds : Answer(o) \in AnswerSet
    BY OrderTypes DEF Answer, OrderSet, AnswerSet
  <2>4. DOMAIN runner'[r].seen \subseteq OrderIds'
        /\ \A o \in DOMAIN runner'[r].seen : runner'[r].seen[o] \in AnswerSet
    <3>1. runner'[r].seen = [o \in NeedsSync(MySleeve(r)) |-> Answer(o)]
      BY <1>6, Syncing
    <3>2. OrderIds' = OrderIds
      BY <2>1 DEF OrderIds
    <3>. QED
      BY <2>2, <2>3, <3>1, <3>2
  <2>5. Sound(r)'
    BY <1>1, <1>6, <2>1, <2>4, Syncing, Untouched, SoundStep DEF Goes, Busy, Places, Sound
  <2>. QED
    BY <1>1, <1>2, <1>6, <2>1, <2>5, Syncing, Untouched, TypedKept DEF Goes
<1>7. CASE SyncCommit(r) \/ Record(r)
  <2>1. ledger' = Upserted(runner[r].seen) /\ UNCHANGED <<today, faults, runs, orders>>
    BY <1>7, Recording DEF SyncCommit, Record
  <2>2. /\ Goes(r, runner'[r].pc) /\ runner'[r].pc \in {"positions", "trade"} /\ Busy(r)
        /\ runner'[r].todo \subseteq runner[r].todo /\ DOMAIN runner'[r].seen = {}
    <3>1. CASE SyncCommit(r)
      <4>1. /\ runner[r].pc = "synced" /\ Goes(r, "positions") /\ runner'[r].todo = runner[r].todo
            /\ runner'[r].seen = <<>>
        BY <3>1, Syncing
      <4>. QED
        BY <4>1 DEF Goes, Busy
    <3>2. CASE Record(r)
      <4>1. /\ runner[r].pc = "answered" /\ Goes(r, "trade") /\ runner'[r].seen = <<>>
            /\ runner'[r].todo \subseteq runner[r].todo
        BY <3>2, Recording
      <4>. QED
        BY <4>1 DEF Goes, Busy
    <3>. QED
      BY <1>7, <3>1, <3>2
  <2>3. Sound(r)'
    BY <1>1, <2>1, <2>2, Untouched, SoundStep DEF Places, Sound
  <2>. QED
    BY <1>1, <2>1, <2>2, <2>3, Untouched, Upserting, TypedKept DEF Goes
<1>8. CASE \/ ListPositions(r) \/ ListOrders(r) \/ Check(r) \/ Evaluate(r)
           \/ \E e \in Symbols \X Sides : Skip(r, e) \/ Reject(r, e)
  <2>1. Ponders(r)
    BY <1>8, Pondering
  <2>2. UNCHANGED faults
    BY <1>8 DEF ListPositions, ListOrders, Check, Evaluate, Skip, Reject
  <2>3. Sound(r)'
    BY <1>1, <2>1, Untouched, SoundStep DEF Ponders, Goes, Busy, Places, Sound
  <2>. QED
    BY <1>1, <1>2, <2>1, <2>2, <2>3, Untouched, TypedKept DEF Ponders, Goes
<1>9. CASE Complete(r) \/ Refuse(r) \/ Fail(r)
  <2>1. Same /\ UNCHANGED today /\ faults' \in 0 .. MaxFaults
    BY <1>1, <1>9 DEF Complete, Refuse, Fail
  <2>2. Busy(r)
    BY <1>9 DEF Complete, Refuse, Fail, At, Busy
  <2>3. RunsGo /\ \E left \in {runner[r].left, <<>>} : Becomes(r, Pass(runner[r].day, left))
    BY <1>9, <2>2, Ending DEF Ends, Refuse, Fail
  <2>4. runner[r].day \in 1 .. today /\ runner[r].left \in Seq(Sleeves) /\ <<>> \in Seq(Sleeves)
    BY <1>1, <2>2 DEF Sound, Busy, At
  <2>5. Sound(r)'
    BY <2>1, <2>3, <2>4, SoundPass DEF Becomes
  <2>. QED
    BY <1>2, <2>1, <2>3, <2>5, TypedKept DEF Becomes
<1>10. ASSUME NEW e \in Symbols \X Sides, Submit(r, e) PROVE Typed'
  <2>1. Asks(r, e) /\ UNCHANGED <<today, ledger, runs, faults>>
    BY <1>10 DEF Submit
  <2>2. PICK filled \in {0, Quantity(r, e)} :
          /\ orders' = Accepted(r, e, filled)
          /\ runner'[r].seen = [o \in {Len(orders) + 1} |->
               [filled |-> filled, open |-> filled < Quantity(r, e), at |-> Now + 1]]
    BY <1>10, Sending
  <2>3. Books /\ Len(orders) + 1 \in OrderIds' /\ filled \in Nat
    BY <2>1, <2>2, AcceptingKeeps
  <2>4. DOMAIN runner'[r].seen \subseteq OrderIds'
        /\ \A o \in DOMAIN runner'[r].seen : runner'[r].seen[o] \in AnswerSet
    BY <2>2, <2>3, NowIsLast DEF AnswerSet
  <2>5. Sound(r)'
    BY <1>1, <1>10, <2>1, <2>4, Sending, Untouched, SoundStep DEF Goes, Busy, Places, Sound
  <2>. QED
    BY <1>1, <1>10, <2>1, <2>3, <2>5, Sending, Untouched, TypedKept DEF Goes
<1>11. ASSUME NEW e \in Symbols \X Sides, LoseAnswer(r, e) PROVE Typed'
  <2>1. Asks(r, e) /\ UNCHANGED <<today, ledger>> /\ orders' = Accepted(r, e, 0) /\ Failed(r)
        /\ faults' \in 0 .. MaxFaults /\ Busy(r)
    BY <1>1, <1>11 DEF LoseAnswer, Asks, Turn, At, Busy
  <2>2. Books
    BY <2>1, AcceptingKeeps
  <2>3. RunsGo /\ \E left \in {runner[r].left, <<>>} : Becomes(r, Pass(runner[r].day, left))
    BY <2>1, Ending DEF Ends
  <2>4. runner[r].day \in 1 .. today /\ runner[r].left \in Seq(Sleeves) /\ <<>> \in Seq(Sleeves)
    BY <1>1, <2>1 DEF Sound, Busy, At
  <2>5. Sound(r)'
    BY <2>1, <2>3, <2>4, SoundPass DEF Becomes
  <2>. QED
    BY <2>1, <2>2, <2>3, <2>5, TypedKept DEF Becomes
<1>. QED
  BY <1>3, <1>4, <1>5, <1>6, <1>7, <1>8, <1>9, <1>10, <1>11 DEF Step

LEMMA NextTyped == Typed /\ [Next]_vars => Typed'
<1> SUFFICES ASSUME Typed, [Next]_vars PROVE Typed'
  OBVIOUS
<1>1. CASE UNCHANGED vars
  <2>1. \A r \in Runners : Sound(r)'
    BY <1>1 DEF vars, Typed, Sound, At, Busy, OrderIds
  <2>. QED
    BY <1>1, <2>1 DEF vars, Typed, OrdersTyped, OrderSet, LedgerTyped, Tracked, Stamped, OrderIds
<1>2. CASE Next
  <2>1. calm' \in BOOLEAN
    BY <1>2 DEF Next, Watch
  <2>2. ASSUME UNCHANGED <<ledger, runs, runner, faults>>, today' \in Days, today <= today',
               OrdersTyped', OrderIds' = OrderIds
        PROVE  Typed'
    <3>1. \A r \in Runners : Sound(r)'
      BY <2>2 DEF Typed, Sound, At, Busy, Days
    <3>. QED
      BY <2>1, <2>2, <3>1 DEF Typed, LedgerTyped, Tracked, RunSet
  <2>3. CASE NextDay
    <3>1. today' \in Days /\ today <= today' /\ UNCHANGED <<orders, ledger, runs, runner, faults>>
      BY <2>3, PaperAssumption DEF NextDay, Typed, Days
    <3>2. OrdersTyped' /\ OrderIds' = OrderIds
      BY <3>1 DEF Typed, OrdersTyped, OrderSet, Stamped, OrderIds
    <3>. QED
      BY <2>2, <3>1, <3>2
  <2>4. ASSUME NEW o \in OrderIds, Fill(o) \/ Expire(o) PROVE Typed'
    <3>1. UNCHANGED <<today, ledger, runs, runner, faults>>
      BY <2>4 DEF Fill, Expire
    <3>2. OrderSet' = OrderSet /\ today' \in Days /\ today <= today'
      BY <3>1 DEF OrderSet, Typed, Days
    <3>3. /\ orders' \in Seq(OrderSet) /\ Stamped' /\ OrderIds' = OrderIds
          /\ \A p \in OrderIds \ {o} : orders'[p] = orders[p]
          /\ orders'[o].filled <= orders'[o].qty
      <4>1. PICK n \in orders[o].filled .. orders[o].qty, open \in BOOLEAN :
              /\ n \in Nat
              /\ orders'[o] = [orders[o] EXCEPT !.filled = n, !.open = open, !.at = Now + 1]
        BY <2>4, Working
      <4>2. orders'[o].filled = n /\ orders'[o].qty = orders[o].qty /\ orders[o].qty \in Nat
        BY <4>1, OrderTypes DEF OrderSet
      <4>. QED
        <5>1. orders'[o].filled <= orders'[o].qty
          BY <4>1, <4>2
        <5>. QED
          BY <2>4, <5>1, Working
    <3>4. OrdersTyped'
      BY <3>2, <3>3 DEF OrdersTyped, Typed
    <3>. QED
      BY <2>2, <3>1, <3>2, <3>3, <3>4
  <2>. QED
    BY <1>2, <2>1, <2>3, <2>4, StepTyped DEF Next
<1>. QED
  BY <1>1, <1>2

\* Whatever threads, requests and the broker do, rows and orders are about each
\* other, and a thread in a run has a row of its own for it.
THEOREM TypesKept == Spec => []TypeOK
<1>1. Spec => []Typed
  BY InitTyped, NextTyped, PTL DEF Spec
<1>. QED
  BY <1>1, TypedTypes, PTL
-----------------------------------------------------------------------------
(* Completed runs own their orders.                                         *)

\* Every busy thread has a run of its own, which is still running.
Rows ==
  /\ \A q, r \in Runners : Busy(q) /\ Busy(r) /\ runner[q].run = runner[r].run => q = r
  /\ \A r \in Runners : Busy(r) => Run(r).status = "running"

\* An order without a row belongs to a run that has not completed, and if a thread
\* is still at that run it has the answer in memory.
AnswersHeld ==
  \A o \in OrderIds \ Tracked :
    /\ runs[orders[o].run.n].status # "completed"
    /\ \A r \in Runners : Busy(r) /\ runner[r].run = orders[o].run.n =>
         At(r, "answered") /\ o \in DOMAIN runner[r].seen

OwnInv == Rows /\ AnswersHeld

LEMMA InitOwn == Init => OwnInv
BY DEF Init, OwnInv, Rows, AnswersHeld, Busy, Idle, OrderIds

LEMMA OwnOwns == Typed /\ OwnInv => CompletedRunOwnsItsOrders
BY DEF OwnInv, AnswersHeld, CompletedRunOwnsItsOrders

\* A thread changes the row of its own run at most, and begins with a new one.
LEMMA RowsKept ==
  ASSUME Typed, Rows, NEW r \in Runners, Others(r),
         \A i \in DOMAIN runs : runs'[i] = runs[i] \/ (Busy(r) /\ i = runner[r].run),
         \/ runner'[r].pc \in {"idle", "between"}
         \/ Busy(r) /\ runner'[r].run = runner[r].run /\ UNCHANGED runs
         \/ runner'[r].run \notin DOMAIN runs /\ runs'[runner'[r].run].status = "running"
  PROVE  Rows'
<1> DEFINE B(q) == runner[q].pc \notin {"idle", "between"}
           N(q) == runner'[q].pc \notin {"idle", "between"}
<1>1. ASSUME NEW q \in Runners \ {r}
      PROVE  /\ runner'[q] = runner[q] /\ (B(q) => runner[q].run \in DOMAIN runs)
             /\ (B(q) /\ B(r) => runner[q].run # runner[r].run)
             /\ (B(q) => runs[runner[q].run].status = "running")
  BY DEF Others, Busy, Typed, Sound, Rows, Run
<1>2. ASSUME NEW q \in Runners \ {r}, N(q)
      PROVE  /\ runs'[runner'[q].run].status = "running"
             /\ (N(r) => runner'[q].run # runner'[r].run)
  <2>1. /\ runner'[q] = runner[q] /\ B(q) /\ runner[q].run \in DOMAIN runs
        /\ (B(r) => runner[q].run # runner[r].run) /\ runs[runner[q].run].status = "running"
    BY <1>1, <1>2
  <2>2. runs'[runner[q].run] = runs[runner[q].run]
    BY <2>1 DEF Busy
  <2>3. N(r) => runner'[r].run # runner[q].run
    BY <2>1 DEF Busy
  <2>. QED
    BY <2>1, <2>2, <2>3
<1>3. N(r) => runs'[runner'[r].run].status = "running"
  BY DEF Rows, Run, Busy
<1>4. ASSUME NEW p \in Runners, NEW q \in Runners, N(p), N(q), runner'[p].run = runner'[q].run
      PROVE  p = q
  <2>1. CASE p = r \/ q = r
    BY <1>2, <1>4, <2>1
  <2>2. CASE p # r /\ q # r
    <3>1. runner'[p] = runner[p] /\ runner'[q] = runner[q]
      BY <1>1, <2>2
    <3>. QED
      BY <1>4, <3>1 DEF Rows, Busy
  <2>. QED
    BY <2>1, <2>2
<1>5. \A q \in Runners : N(q) => runs'[runner'[q].run].status = "running"
  BY <1>2, <1>3
<1>. QED
  BY <1>4, <1>5 DEF Rows, Busy, Run

\* No order is new; a run that completes has no answer in memory, and one that goes
\* on has written the answer it had.
LEMMA AnswersKept ==
  ASSUME Typed, OwnInv, NEW r \in Runners, Others(r), OrderIds' = OrderIds,
         \A o \in OrderIds : orders'[o].run.n = orders[o].run.n, Tracked \subseteq Tracked',
         \A i \in DOMAIN runs : \/ runs'[i] = runs[i]
                                \/ /\ Busy(r) /\ i = runner[r].run
                                   /\ runs'[i].status = "failed" \/ ~At(r, "answered"),
         \/ runner'[r].pc \in {"idle", "between"}
         \/ /\ Busy(r) /\ runner'[r].run = runner[r].run /\ UNCHANGED runs
            /\ At(r, "answered") => DOMAIN runner[r].seen \subseteq Tracked'
         \/ runner'[r].run \notin DOMAIN runs /\ runs'[runner'[r].run].status = "running"
  PROVE  AnswersHeld'
<1> SUFFICES ASSUME NEW o \in OrderIds \ Tracked, o \notin Tracked'
             PROVE  /\ runs'[orders[o].run.n].status # "completed"
                    /\ \A q \in Runners :
                         runner'[q].pc \notin {"idle", "between"} /\ runner'[q].run = orders[o].run.n =>
                         runner'[q].pc = "answered" /\ o \in DOMAIN runner'[q].seen
  BY DEF AnswersHeld, Busy, At
<1>1. /\ orders[o].run.n \in DOMAIN runs /\ runs[orders[o].run.n].status # "completed"
      /\ \A q \in Runners : Busy(q) /\ runner[q].run = orders[o].run.n =>
           At(q, "answered") /\ o \in DOMAIN runner[q].seen
  BY OrderTypes DEF OwnInv, AnswersHeld, OrderSet
<1>2. runs'[orders[o].run.n].status # "completed"
  BY <1>1
<1>3. ASSUME NEW q \in Runners, runner'[q].pc \notin {"idle", "between"},
             runner'[q].run = orders[o].run.n
      PROVE  runner'[q].pc = "answered" /\ o \in DOMAIN runner'[q].seen
  <2>1. q # r
    BY <1>1, <1>3
  <2>2. runner'[q] = runner[q]
    BY <2>1 DEF Others
  <2>. QED
    BY <1>1, <1>3, <2>2 DEF Busy, At
<1>. QED
  BY <1>2, <1>3

LEMMA OwnKept ==
  ASSUME Typed, OwnInv, NEW r \in Runners, Others(r), OrderIds' = OrderIds,
         \A o \in OrderIds : orders'[o].run.n = orders[o].run.n, Tracked \subseteq Tracked',
         \A i \in DOMAIN runs : \/ runs'[i] = runs[i]
                                \/ /\ Busy(r) /\ i = runner[r].run
                                   /\ runs'[i].status = "failed" \/ ~At(r, "answered"),
         \/ runner'[r].pc \in {"idle", "between"}
         \/ /\ Busy(r) /\ runner'[r].run = runner[r].run /\ UNCHANGED runs
            /\ At(r, "answered") => DOMAIN runner[r].seen \subseteq Tracked'
         \/ runner'[r].run \notin DOMAIN runs /\ runs'[runner'[r].run].status = "running"
  PROVE  OwnInv'
<1>1. Rows'
  BY RowsKept DEF OwnInv
<1>2. AnswersHeld'
  BY AnswersKept
<1>. QED
  BY <1>1, <1>2 DEF OwnInv

\* A new order belongs to the run of the thread that asked for it.
LEMMA AcceptedHeld ==
  ASSUME Typed, OwnInv, NEW r \in Runners, NEW e \in Symbols \X Sides, Asks(r, e),
         NEW filled \in {0, Quantity(r, e)}, orders' = Accepted(r, e, filled),
         UNCHANGED ledger, Others(r),
         \A i \in DOMAIN runs : \/ runs'[i].status = runs[i].status
                                \/ runs'[i].status = "failed",
         \/ runner'[r].pc \in {"idle", "between"}
         \/ /\ runner'[r].pc = "answered" /\ Len(orders) + 1 \in DOMAIN runner'[r].seen
            /\ runner'[r].run = runner[r].run
  PROVE  AnswersHeld'
<1> DEFINE k == Len(orders) + 1
           n == runner[r].run
<1>1. Busy(r) /\ n \in DOMAIN runs /\ runs[n].status = "running" /\ ~At(r, "answered")
  BY DEF Asks, Turn, At, Busy, OwnInv, Rows, Typed, Sound, Run
<1>2. OrderIds' = OrderIds \cup {k} /\ Tracked' = Tracked /\ k \notin OrderIds
  BY AcceptingKeeps DEF Tracked
<1>3. orders'[k].run.n = n /\ \A o \in OrderIds : orders'[o] = orders[o]
  BY Accepting
<1>4. ASSUME NEW o \in OrderIds \ Tracked
      PROVE  /\ runs'[orders[o].run.n].status # "completed"
             /\ \A q \in Runners :
                  runner'[q].pc \notin {"idle", "between"} /\ runner'[q].run = orders[o].run.n =>
                  runner'[q].pc = "answered" /\ o \in DOMAIN runner'[q].seen
  <2>1. /\ orders[o].run.n \in DOMAIN runs /\ runs[orders[o].run.n].status # "completed"
        /\ \A q \in Runners : Busy(q) /\ runner[q].run = orders[o].run.n =>
             At(q, "answered") /\ o \in DOMAIN runner[q].seen
    BY OrderTypes DEF OwnInv, AnswersHeld, OrderSet
  <2>2. orders[o].run.n # n
    BY <1>1, <2>1
  <2>. QED
    <3>1. runs'[orders[o].run.n].status # "completed"
      BY <2>1
    <3>2. ASSUME NEW q \in Runners, runner'[q].pc \notin {"idle", "between"},
                 runner'[q].run = orders[o].run.n
          PROVE  runner'[q].pc = "answered" /\ o \in DOMAIN runner'[q].seen
      <4>1. q # r
        BY <2>2, <3>2
      <4>2. runner'[q] = runner[q]
        BY <4>1 DEF Others
      <4>. QED
        BY <2>1, <3>2, <4>2 DEF Busy, At
    <3>. QED
      BY <3>1, <3>2
<1>5. /\ runs'[n].status # "completed"
      /\ \A q \in Runners : runner'[q].pc \notin {"idle", "between"} /\ runner'[q].run = n =>
           runner'[q].pc = "answered" /\ k \in DOMAIN runner'[q].seen
  <2>1. runs'[n].status # "completed"
    BY <1>1
  <2>2. ASSUME NEW q \in Runners, runner'[q].pc \notin {"idle", "between"}, runner'[q].run = n
        PROVE  runner'[q].pc = "answered" /\ k \in DOMAIN runner'[q].seen
    <3>1. CASE q = r
      BY <2>2, <3>1
    <3>2. CASE q # r
      <4>1. runner'[q] = runner[q] /\ (Busy(q) => runner[q].run # n)
        BY <1>1, <3>2 DEF Others, OwnInv, Rows
      <4>. QED
        BY <2>2, <4>1 DEF Busy
    <3>. QED
      BY <3>1, <3>2
  <2>. QED
    BY <2>1, <2>2
<1>. QED
  BY <1>2, <1>3, <1>4, <1>5 DEF AnswersHeld, Busy, At
LEMMA StepOwn ==
  ASSUME Typed, OwnInv, NEW r \in Runners, Step(r)
  PROVE  OwnInv'
<1> DEFINE Quiet == UNCHANGED <<orders, ledger>>
<1>1. UNCHANGED <<orders, ledger>> =>
        /\ OrderIds' = OrderIds /\ \A o \in OrderIds : orders'[o].run.n = orders[o].run.n
        /\ Tracked \subseteq Tracked'
  BY DEF OrderIds, Tracked
<1>2. CASE Poll(r) \/ Request(r) \/ Rest(r) \/ Die(r)
  <2>1. Others(r) /\ runner'[r].pc \in {"idle", "between"} /\ Quiet /\ UNCHANGED runs
    <3>1. \E d, left : runner' \in {[runner EXCEPT ![r] = Pass(d, left)], [runner EXCEPT ![r] = Idle]}
      BY <1>2, Zenon DEF Poll, Request, Rest, Die
    <3>2. Others(r) /\ runner'[r].pc \in {"idle", "between"}
      BY <3>1, Passing DEF Becomes
    <3>. QED
      BY <1>2, <3>2 DEF Poll, Request, Rest, Die
  <2>. QED
    BY <1>1, <2>1, OwnKept
<1>3. CASE Begin(r)
  <2>1. /\ Others(r) /\ Quiet /\ runner'[r].run = Len(runs) + 1 /\ Len(runs) + 1 \notin DOMAIN runs
        /\ runs'[Len(runs) + 1].status = "running" /\ \A i \in DOMAIN runs : runs'[i] = runs[i]
    <3>1. UNCHANGED <<orders, ledger>>
      BY <1>3 DEF Begin
    <3>2. runs'[Len(runs) + 1].status = "running"
      BY <1>3, NewRun
    <3>. QED
      BY <1>3, <3>1, <3>2, Beginning, NewRun
  <2>. QED
    BY <1>1, <2>1, OwnKept
<1>4. CASE SyncRead(r)
  <2>1. Goes(r, "synced") /\ runner[r].pc = "sync" /\ Quiet /\ UNCHANGED runs
    BY <1>4, Syncing DEF SyncRead
  <2>2. Others(r) /\ Busy(r) /\ ~At(r, "answered") /\ runner'[r].run = runner[r].run
    BY <2>1 DEF Goes, Busy, At
  <2>. QED
    BY <1>1, <2>1, <2>2, OwnKept
<1>5. CASE SyncCommit(r) \/ Record(r)
  <2>1. ledger' = Upserted(runner[r].seen) /\ UNCHANGED <<runs, orders>>
    BY <1>5, Recording DEF SyncCommit, Record
  <2>2. Goes(r, runner'[r].pc) /\ runner[r].pc \in {"synced", "answered"}
    BY <1>5, Syncing, Recording DEF Goes
  <2>3. Others(r) /\ Busy(r) /\ runner'[r].run = runner[r].run
    BY <2>2 DEF Goes, Busy
  <2>4. /\ Tracked \subseteq Tracked' /\ DOMAIN runner[r].seen \subseteq Tracked'
        /\ OrderIds' = OrderIds /\ \A o \in OrderIds : orders'[o].run.n = orders[o].run.n
    BY <2>1, Upserting DEF OrderIds
  <2>. QED
    BY <2>1, <2>3, <2>4, OwnKept
<1>6. CASE \/ ListPositions(r) \/ ListOrders(r) \/ Check(r) \/ Evaluate(r)
           \/ \E e \in Symbols \X Sides : Skip(r, e) \/ Reject(r, e)
  <2>1. Ponders(r)
    BY <1>6, Pondering
  <2>2. Others(r) /\ Busy(r) /\ ~At(r, "answered") /\ runner'[r].run = runner[r].run
        /\ Quiet /\ UNCHANGED runs
    BY <2>1 DEF Ponders, Goes, Busy, At
  <2>. QED
    BY <1>1, <2>2, OwnKept
<1>7. CASE Complete(r) \/ Refuse(r) \/ Fail(r)
  <2>1. Busy(r) /\ Quiet
    BY <1>7 DEF Complete, Refuse, Fail, At, Busy
  <2>2. \/ Ends(r, "completed") /\ ~At(r, "answered")
        \/ Ends(r, "failed")
    BY <1>7, <2>1, Ending DEF Complete, Refuse, Fail, At
  <2>3. \E d, left : Becomes(r, Pass(d, left))
    BY <1>7, <2>1, Ending DEF Refuse, Fail
  <2>4. Others(r) /\ runner'[r].pc \in {"idle", "between"}
    BY <2>3, Passing DEF Becomes, Busy
  <2>. QED
    BY <1>1, <2>1, <2>2, <2>4, OwnKept DEF Ends
<1>8. ASSUME NEW e \in Symbols \X Sides, Submit(r, e) PROVE OwnInv'
  <2>1. Asks(r, e) /\ UNCHANGED <<ledger, runs>>
    BY <1>8 DEF Submit
  <2>2. PICK filled \in {0, Quantity(r, e)} :
          /\ orders' = Accepted(r, e, filled)
          /\ DOMAIN runner'[r].seen = {Len(orders) + 1}
    BY <1>8, Sending
  <2>3. /\ Others(r) /\ Busy(r) /\ runner'[r].pc = "answered" /\ runner'[r].run = runner[r].run
    BY <1>8, Sending DEF Goes, Busy, At
  <2>. QED
    <3>1. Rows'
      BY <2>1, <2>3, RowsKept DEF OwnInv
    <3>2. AnswersHeld'
      BY <2>1, <2>2, <2>3, AcceptedHeld
    <3>. QED
      BY <3>1, <3>2 DEF OwnInv
<1>9. ASSUME NEW e \in Symbols \X Sides, LoseAnswer(r, e) PROVE OwnInv'
  <2>1. Asks(r, e) /\ UNCHANGED ledger /\ orders' = Accepted(r, e, 0) /\ Failed(r) /\ Busy(r)
    BY <1>9 DEF LoseAnswer, Asks, Turn, At, Busy
  <2>2. Ends(r, "failed") /\ \E d, left : Becomes(r, Pass(d, left))
    BY <2>1, Ending
  <2>3. Others(r) /\ runner'[r].pc \in {"idle", "between"}
    BY <2>2, Passing DEF Becomes, Busy
  <2>. QED
    <3>1. Rows'
      BY <2>1, <2>2, <2>3, RowsKept DEF OwnInv, Ends
    <3>2. AnswersHeld'
      <4>1. \A i \in DOMAIN runs : runs'[i].status = runs[i].status \/ runs'[i].status = "failed"
        BY <2>2 DEF Ends
      <4>2. 0 \in {0, Quantity(r, e)}
        OBVIOUS
      <4>. QED
        BY <2>1, <2>3, <4>1, <4>2, AcceptedHeld
    <3>. QED
      BY <3>1, <3>2 DEF OwnInv
<1>. QED
  BY <1>2, <1>3, <1>4, <1>5, <1>6, <1>7, <1>8, <1>9 DEF Step

LEMMA NextOwn == Typed /\ OwnInv /\ [Next]_vars => OwnInv'
<1> SUFFICES ASSUME Typed, OwnInv, [Next]_vars PROVE OwnInv'
  OBVIOUS
<1>1. ASSUME UNCHANGED <<ledger, runs, runner>>, OrderIds' = OrderIds,
             \A o \in OrderIds : orders'[o].run.n = orders[o].run.n
      PROVE  OwnInv'
  BY <1>1 DEF OwnInv, Rows, AnswersHeld, Busy, At, Run, Tracked
<1>2. CASE UNCHANGED vars \/ NextDay
  BY <1>1, <1>2 DEF vars, NextDay, OrderIds
<1>3. ASSUME NEW o \in OrderIds, Fill(o) \/ Expire(o) PROVE OwnInv'
  <2>1. UNCHANGED <<ledger, runs, runner>>
    BY <1>3 DEF Fill, Expire
  <2>2. PICK n, open : orders'[o] = [orders[o] EXCEPT !.filled = n, !.open = open, !.at = Now + 1]
    <3>1. \E n \in orders[o].filled .. orders[o].qty, open \in BOOLEAN :
            /\ n \in Nat
            /\ orders'[o] = [orders[o] EXCEPT !.filled = n, !.open = open, !.at = Now + 1]
      BY <1>3, Working
    <3>. QED
      BY <3>1
  <2>3. orders'[o].run = orders[o].run
    BY <2>2, OrderTypes DEF OrderSet
  <2>. QED
    BY <1>1, <1>3, <2>1, <2>3, Working
<1>. QED
  BY <1>2, <1>3, StepOwn DEF Next

\* A run that is recorded as completed has written a row for every order that the
\* broker accepted from it, whatever failed, was lost or died before, and whatever ran
\* at the same time. (run_paper_trading, _submit_paper_order)
THEOREM CompletedOwns == Spec => []CompletedRunOwnsItsOrders
<1>1. Spec => []Typed
  BY InitTyped, NextTyped, PTL DEF Spec
<1>2. Spec => []OwnInv
  BY <1>1, InitOwn, NextOwn, PTL DEF Spec
<1>. QED
  BY <1>1, <1>2, OwnOwns, PTL
-----------------------------------------------------------------------------
(* One scheduled run of a strategy a day.                                   *)

\* One process schedules, and a strategy is allocated once: portfolio_strategies
\* has one row for it.
OneScheduler  == \A p, q \in Schedulers : p = q
AllocatedOnce == IsInjective(Allocated)

\* What is left of a pass has no scheduled run for the date of the pass.
PassFresh ==
  \A r \in Schedulers : ~At(r, "idle") =>
    /\ IsInjective(runner[r].left)
    /\ \A i \in DOMAIN runs : runs[i].scheduled /\ runs[i].day = runner[r].day =>
         runs[i].sleeve \notin Range(runner[r].left)

PassInv == PassFresh /\ ScheduledOnce

LEMMA InitPass == Init => PassInv
BY PaperAssumption DEF Init, PassInv, PassFresh, ScheduledOnce, At, Idle

LEMMA EmptyLeft == IsInjective(<<>>) /\ Range(<<>>) = {}
BY DEF IsInjective, Range

\* No row is new, and a pass goes on, or nothing is left of it.
LEMMA PassKept ==
  ASSUME Typed, PassInv, NEW r \in Runners, Others(r), RunsGo, DOMAIN runs' = DOMAIN runs,
         \/ runner'[r].pc = "idle"
         \/ /\ ~At(r, "idle") /\ runner'[r].day = runner[r].day
            /\ runner'[r].left \in {runner[r].left, <<>>}
  PROVE  PassInv'
<1>1. ScheduledOnce'
  BY DEF PassInv, ScheduledOnce, RunsGo
<1>2. ASSUME NEW q \in Schedulers, runner'[q].pc # "idle"
      PROVE  /\ IsInjective(runner'[q].left)
             /\ \A i \in DOMAIN runs' : runs'[i].scheduled /\ runs'[i].day = runner'[q].day =>
                  runs'[i].sleeve \notin Range(runner'[q].left)
  <2>1. /\ ~At(q, "idle") /\ runner'[q].day = runner[q].day
        /\ runner'[q].left \in {runner[q].left, <<>>}
    BY <1>2, PaperAssumption DEF Others, At
  <2>2. /\ IsInjective(runner[q].left)
        /\ \A i \in DOMAIN runs : runs[i].scheduled /\ runs[i].day = runner[q].day =>
             runs[i].sleeve \notin Range(runner[q].left)
    BY <2>1 DEF PassInv, PassFresh
  <2>3. CASE runner'[q].left = runner[q].left
    BY <2>1, <2>2, <2>3 DEF RunsGo
  <2>4. CASE runner'[q].left = <<>>
    BY <2>4, EmptyLeft
  <2>. QED
    BY <2>1, <2>3, <2>4
<1>. QED
  BY <1>1, <1>2 DEF PassInv, PassFresh, At

LEMMA PassBegins ==
  ASSUME Typed, PassInv, OneScheduler, NEW r \in Runners, Begin(r)
  PROVE  PassInv'
<1> DEFINE n == Len(runs) + 1
           left == runner[r].left
<1>1. /\ DOMAIN runs' = DOMAIN runs \cup {n} /\ n \notin DOMAIN runs
      /\ \A i \in DOMAIN runs : runs'[i] = runs[i]
      /\ runs'[n].sleeve = Head(left) /\ runs'[n].day = runner[r].day
      /\ runs'[n].scheduled = (r \in Schedulers)
  BY NewRun
<1>2. /\ Others(r) /\ runner'[r].day = runner[r].day /\ runner'[r].left = Tail(left)
      /\ ~At(r, "idle") /\ left # <<>> /\ left \in Seq(Sleeves)
  BY Beginning, NewRun DEF At, Typed, Sound
<1>3. /\ Head(left) = left[1] /\ DOMAIN left = 1 .. Len(left) /\ Len(left) \in Nat \ {0}
      /\ DOMAIN Tail(left) = 1 .. (Len(left) - 1)
      /\ \A k \in DOMAIN Tail(left) : Tail(left)[k] = left[k + 1]
  BY <1>2
<1>4. Head(left) \in Range(left) /\ Range(Tail(left)) \subseteq Range(left)
  BY <1>3 DEF Range
<1>5. IsInjective(left) => IsInjective(Tail(left)) /\ Head(left) \notin Range(Tail(left))
  <2> SUFFICES ASSUME IsInjective(left)
               PROVE  IsInjective(Tail(left)) /\ Head(left) \notin Range(Tail(left))
    OBVIOUS
  <2>1. \A k, l \in 1 .. Len(left) : left[k] = left[l] => k = l
    BY <1>3 DEF IsInjective
  <2> HIDE DEF left
  <2>2. \A k \in DOMAIN Tail(left) : k + 1 \in 1 .. Len(left) /\ k + 1 # 1 /\ k \in Nat
    BY <1>3
  <2>3. \A k, l \in DOMAIN Tail(left) : Tail(left)[k] = Tail(left)[l] => k = l
    <3> SUFFICES ASSUME NEW k \in DOMAIN Tail(left), NEW l \in DOMAIN Tail(left),
                        Tail(left)[k] = Tail(left)[l]
                 PROVE  k = l
      OBVIOUS
    <3>1. k + 1 = l + 1
      BY <1>3, <2>1, <2>2
    <3>. QED
      BY <2>2, <3>1
  <2>4. \A k \in DOMAIN Tail(left) : Tail(left)[k] # Head(left)
    BY <1>3, <2>1, <2>2
  <2>. QED
    BY <2>3, <2>4 DEF IsInjective, Range
<1>6. r \in Schedulers =>
        /\ IsInjective(left)
        /\ \A i \in DOMAIN runs : runs[i].scheduled /\ runs[i].day = runner[r].day =>
             runs[i].sleeve \notin Range(left)
  BY <1>2 DEF PassInv, PassFresh
<1>7. ScheduledOnce'
  <2>1. ASSUME NEW i \in DOMAIN runs', NEW j \in DOMAIN runs', runs'[i].scheduled,
               runs'[j].scheduled, runs'[i].day = runs'[j].day, runs'[i].sleeve = runs'[j].sleeve,
               j = n, i # n
        PROVE  FALSE
    <3>1. r \in Schedulers /\ i \in DOMAIN runs /\ runs'[i] = runs[i]
      BY <1>1, <2>1
    <3>. QED
      BY <1>1, <1>4, <1>6, <2>1, <3>1
  <2>2. ASSUME NEW i \in DOMAIN runs, NEW j \in DOMAIN runs, runs'[i].scheduled,
               runs'[j].scheduled, runs'[i].day = runs'[j].day, runs'[i].sleeve = runs'[j].sleeve
        PROVE  i = j
    BY <1>1, <2>2 DEF PassInv, ScheduledOnce
  <2>. QED
    BY <1>1, <2>1, <2>2 DEF ScheduledOnce
<1>8. ASSUME NEW q \in Schedulers, runner'[q].pc # "idle"
      PROVE  /\ IsInjective(runner'[q].left)
             /\ \A i \in DOMAIN runs' : runs'[i].scheduled /\ runs'[i].day = runner'[q].day =>
                  runs'[i].sleeve \notin Range(runner'[q].left)
  <2>1. CASE q = r
    <3>1. r \in Schedulers /\ runner'[q].left = Tail(left) /\ runner'[q].day = runner[r].day
      BY <1>2, <1>8, <2>1
    <3>2. \A i \in DOMAIN runs' : runs'[i].scheduled /\ runs'[i].day = runner[r].day =>
            runs'[i].sleeve \notin Range(Tail(left))
      BY <1>1, <1>4, <1>5, <1>6, <3>1
    <3>. QED
      BY <1>5, <1>6, <3>1, <3>2
  <2>2. CASE q # r
    <3>1. r \notin Schedulers /\ runner'[q] = runner[q]
      BY <1>2, <2>2, PaperAssumption DEF OneScheduler, Others
    <3>2. /\ IsInjective(runner[q].left)
          /\ \A i \in DOMAIN runs : runs[i].scheduled /\ runs[i].day = runner[q].day =>
               runs[i].sleeve \notin Range(runner[q].left)
      BY <1>8, <3>1 DEF PassInv, PassFresh, At
    <3>. QED
      BY <1>1, <3>1, <3>2
  <2>. QED
    BY <2>1, <2>2
<1>. QED
  BY <1>7, <1>8 DEF PassInv, PassFresh, At

LEMMA StepPass ==
  ASSUME Typed, PassInv, OneScheduler, AllocatedOnce, NEW r \in Runners, Step(r)
  PROVE  PassInv'
<1>1. CASE Poll(r)
  <2>1. /\ Others(r) /\ runner'[r].left = Allocated /\ runner'[r].day = today
        /\ UNCHANGED runs /\ ~HasSchedulerRun(today)
    <3>1. /\ runner' = [runner EXCEPT ![r] = Pass(today, Allocated)]
          /\ UNCHANGED runs /\ ~HasSchedulerRun(today)
      BY <1>1 DEF Poll
    <3>2. Becomes(r, Pass(today, Allocated))
      BY <3>1, Passing
    <3>. QED
      BY <3>1, <3>2, Passing DEF Becomes
  <2>2. ScheduledOnce'
    BY <2>1 DEF PassInv, ScheduledOnce
  <2>3. \A q \in Schedulers : q = r
    BY <1>1 DEF Poll, OneScheduler
  <2>4. \A i \in DOMAIN runs : ~(runs[i].scheduled /\ runs[i].day = today)
    BY <2>1 DEF HasSchedulerRun
  <2>. QED
    BY <2>1, <2>2, <2>3, <2>4 DEF PassInv, PassFresh, AllocatedOnce
<1>2. CASE Request(r)
  <2>1. Others(r) /\ UNCHANGED runs /\ r \notin Schedulers
    <3>1. PICK d, left : runner' = [runner EXCEPT ![r] = Pass(d, left)]
      BY <1>2 DEF Request
    <3>. QED
      BY <1>2, <3>1, Passing DEF Request, Becomes
  <2>2. \A q \in Schedulers : runner'[q] = runner[q]
    BY <2>1, PaperAssumption DEF Others
  <2>. QED
    BY <2>1, <2>2 DEF PassInv, PassFresh, ScheduledOnce, At
<1>3. CASE Rest(r) \/ Die(r)
  <2>1. Others(r) /\ runner'[r].pc = "idle" /\ UNCHANGED runs
    <3>1. runner' = [runner EXCEPT ![r] = Idle] /\ UNCHANGED runs
      BY <1>3 DEF Rest, Die
    <3>2. Becomes(r, Idle)
      BY <3>1, Passing
    <3>. QED
      BY <3>1, <3>2, Passing DEF Becomes
  <2>. QED
    BY <2>1, Untouched, PassKept
<1>4. CASE Begin(r)
  BY <1>4, PassBegins
<1>5. ASSUME UNCHANGED runs, Goes(r, runner'[r].pc), Busy(r)
      PROVE  PassInv'
  BY <1>5, Untouched, PassKept DEF Goes, Busy, At
<1>6. CASE \/ SyncRead(r) \/ SyncCommit(r) \/ Record(r)
           \/ \E e \in Symbols \X Sides : Submit(r, e)
  <2>1. Goes(r, runner'[r].pc)
    BY <1>6, Syncing, Recording, Sending DEF Goes
  <2>2. Busy(r) /\ UNCHANGED runs
    BY <1>6 DEF SyncRead, SyncCommit, Record, Submit, Asks, Turn, At, Busy
  <2>. QED
    BY <1>5, <2>1, <2>2
<1>7. CASE \/ ListPositions(r) \/ ListOrders(r) \/ Check(r) \/ Evaluate(r)
           \/ \E e \in Symbols \X Sides : Skip(r, e) \/ Reject(r, e)
  <2>1. Ponders(r)
    BY <1>7, Pondering
  <2>2. Goes(r, runner'[r].pc) /\ Busy(r) /\ UNCHANGED runs
    BY <2>1 DEF Ponders, Goes, Busy
  <2>. QED
    BY <1>5, <2>2
<1>8. CASE \/ Complete(r) \/ Refuse(r) \/ Fail(r) \/ \E e \in Symbols \X Sides : LoseAnswer(r, e)
  <2>1. Busy(r) /\ (Complete(r) \/ Failed(r))
    BY <1>8 DEF Complete, Refuse, Fail, LoseAnswer, Asks, Turn, At, Busy
  <2>2. RunsGo /\ DOMAIN runs' = DOMAIN runs
    BY <2>1, Ending DEF Ends
  <2>3. \E left \in {runner[r].left, <<>>} : Becomes(r, Pass(runner[r].day, left))
    BY <2>1, Ending
  <2>4. /\ Others(r) /\ runner'[r].day = runner[r].day
        /\ runner'[r].left \in {runner[r].left, <<>>}
    BY <2>3, Passing DEF Becomes
  <2>. QED
    BY <2>1, <2>2, <2>4, PassKept DEF Busy, At
<1>. QED
  BY <1>1, <1>2, <1>3, <1>4, <1>6, <1>7, <1>8 DEF Step

LEMMA NextPass ==
  ASSUME OneScheduler, AllocatedOnce
  PROVE  Typed /\ PassInv /\ [Next]_vars => PassInv'
<1> SUFFICES ASSUME Typed, PassInv, [Next]_vars PROVE PassInv'
  OBVIOUS
<1>1. ASSUME UNCHANGED <<runs, runner>> PROVE PassInv'
  BY <1>1 DEF PassInv, PassFresh, ScheduledOnce, At
<1>2. CASE UNCHANGED vars \/ NextDay \/ \E o \in OrderIds : Fill(o) \/ Expire(o)
  BY <1>1, <1>2 DEF vars, NextDay, Fill, Expire
<1>. QED
  BY <1>2, StepPass DEF Next

\* One scheduler asks for one run of a strategy a day, however many dates, faults and
\* requests there are. (_has_scheduler_run_for_trade_date)
THEOREM OncePerDay ==
  ASSUME OneScheduler, AllocatedOnce
  PROVE  Spec => []ScheduledOnce
<1>1. Spec => []Typed
  BY InitTyped, NextTyped, PTL DEF Spec
<1>2. Typed /\ PassInv /\ [Next]_vars => PassInv'
  BY NextPass
<1>3. Spec => []PassInv
  BY <1>1, <1>2, InitPass, PTL DEF Spec
<1>4. PassInv => ScheduledOnce
  BY DEF PassInv
<1>. QED
  BY <1>3, <1>4, PTL
-----------------------------------------------------------------------------
(* PaperOrders implements OrderBook.                                        *)

\* An order's id is what it is for, and no two are for the same.
Intents ==
  /\ \A o \in OrderIds : orders[o].cid =
       <<Sleeve(o), runs[orders[o].run.n].day, orders[o].sym, orders[o].side>>
  /\ \A o, p \in OrderIds : orders[o].cid = orders[p].cid => o = p

\* What is known of an order was true once.
Behind(answer, o) ==
  /\ answer.filled <= orders[o].filled
  /\ ~answer.open => /\ ~orders[o].open /\ answer.filled = orders[o].filled
                     /\ answer.at = orders[o].at

NothingAhead ==
  /\ \A o \in Tracked : Behind(ledger[o], o)
  /\ \A r \in Runners : \A o \in DOMAIN runner[r].seen : Behind(runner[r].seen[o], o)

BookInv == Intents /\ NothingAhead

LEMMA InitBook == Init => BookInv
BY DEF Init, BookInv, Intents, NothingAhead, OrderIds, Tracked, Idle

\* The orders as they are: what a thread learns has to be true.
LEMMA LearningKeeps ==
  ASSUME Typed, BookInv, UNCHANGED orders, RunsGo, NEW r \in Runners, Others(r),
         \A o \in Tracked' : \/ o \in Tracked /\ ledger'[o] = ledger[o]
                             \/ o \in DOMAIN runner[r].seen /\ ledger'[o] = runner[r].seen[o],
         \A o \in DOMAIN runner'[r].seen :
           \/ o \in DOMAIN runner[r].seen /\ runner'[r].seen[o] = runner[r].seen[o]
           \/ Behind(runner'[r].seen[o], o)
  PROVE  BookInv'
<1>1. OrderIds' = OrderIds /\ \A o \in OrderIds : orders[o].run.n \in DOMAIN runs
  BY OrderTypes DEF OrderIds, OrderSet
<1>2. Intents'
  BY <1>1 DEF BookInv, Intents, Sleeve, RunsGo
<1>3. \A o \in Tracked' : Behind(ledger'[o], o)
  BY DEF BookInv, NothingAhead
<1>4. \A q \in Runners : \A o \in DOMAIN runner'[q].seen : Behind(runner'[q].seen[o], o)
  BY DEF BookInv, NothingAhead, Others
<1>. QED
  BY <1>2, <1>3, <1>4 DEF BookInv, NothingAhead, Behind

LEMMA AcceptedBook ==
  ASSUME Typed, BookInv, NEW r \in Runners, NEW e \in Symbols \X Sides, Asks(r, e),
         ~Known(MyClientOrderId(r, e)),
         NEW filled \in {0, Quantity(r, e)}, orders' = Accepted(r, e, filled),
         UNCHANGED ledger, Others(r), RunsGo,
         \/ DOMAIN runner'[r].seen = {}
         \/ runner'[r].seen = [o \in {Len(orders) + 1} |->
               [filled |-> filled, open |-> filled < Quantity(r, e), at |-> Now + 1]]
  PROVE  BookInv'
<1> DEFINE k == Len(orders) + 1
<1>1. /\ OrderIds' = OrderIds \cup {k} /\ k \notin OrderIds /\ filled \in Nat
      /\ \A o \in OrderIds : orders'[o] = orders[o]
  BY Accepting, AcceptingKeeps
<1>2. /\ orders'[k].cid = MyClientOrderId(r, e) /\ orders'[k].sym = e[1] /\ orders'[k].side = e[2]
      /\ orders'[k].run.sleeve = MySleeve(r) /\ orders'[k].run.n = runner[r].run
      /\ orders'[k].filled = filled /\ orders'[k].open = (filled < Quantity(r, e))
      /\ orders'[k].at = Now + 1
  BY Accepting
<1>3. runner[r].run \in DOMAIN runs /\ \A o \in OrderIds : orders[o].run.n \in DOMAIN runs
  BY OrderTypes DEF OrderSet, Asks, Turn, At, Busy, Typed, Sound
<1>4. Intents'
  <2>1. \A o \in OrderIds : /\ orders'[o].cid # orders'[k].cid
                            /\ orders'[o].cid = <<orders'[o].run.sleeve, runs'[orders'[o].run.n].day,
                                                 orders'[o].sym, orders'[o].side>>
    BY <1>1, <1>2, <1>3 DEF Known, BookInv, Intents, Sleeve, RunsGo
  <2>2. orders'[k].cid = <<orders'[k].run.sleeve, runs'[orders'[k].run.n].day,
                           orders'[k].sym, orders'[k].side>>
    BY <1>2, <1>3 DEF MyClientOrderId, ClientOrderId, MySleeve, Run, RunsGo
  <2>3. \A o, p \in OrderIds : orders'[o].cid = orders'[p].cid => o = p
    BY <1>1 DEF BookInv, Intents
  <2>4. \A o, p \in OrderIds' : orders'[o].cid = orders'[p].cid => o = p
    BY <1>1, <2>1, <2>3
  <2>5. \A o \in OrderIds' :
          orders'[o].cid = <<orders'[o].run.sleeve, runs'[orders'[o].run.n].day,
                             orders'[o].sym, orders'[o].side>>
    BY <1>1, <2>1, <2>2
  <2>. QED
    BY <2>4, <2>5 DEF Intents, Sleeve
<1>5. \A o \in Tracked' : Behind(ledger[o], o)'
  BY <1>1 DEF Behind, BookInv, NothingAhead, Typed, LedgerTyped, Tracked
<1>6. ASSUME NEW q \in Runners, NEW o \in DOMAIN runner'[q].seen
      PROVE  /\ runner'[q].seen[o].filled <= orders'[o].filled
             /\ ~runner'[q].seen[o].open =>
                  /\ ~orders'[o].open /\ runner'[q].seen[o].filled = orders'[o].filled
                  /\ runner'[q].seen[o].at = orders'[o].at
  <2>1. CASE q = r
    BY <1>1, <1>2, <1>6, <2>1
  <2>2. CASE q # r
    <3>1. runner'[q] = runner[q] /\ o \in OrderIds
      BY <1>6, <2>2 DEF Others, Typed, Sound
    <3>. QED
      BY <1>1, <1>6, <3>1 DEF BookInv, NothingAhead, Behind
  <2>. QED
    BY <2>1, <2>2
<1>. QED
  BY <1>4, <1>5, <1>6 DEF BookInv, NothingAhead, Behind
\* The broker works on an open order: nothing final was known of it.
LEMMA WorkedBook ==
  ASSUME Typed, BookInv, NEW o \in OrderIds, Fill(o) \/ Expire(o)
  PROVE  BookInv'
<1>1. UNCHANGED <<ledger, runs, runner>>
  BY DEF Fill, Expire
<1>2. PICK n \in orders[o].filled .. orders[o].qty, open \in BOOLEAN :
        /\ n \in Nat
        /\ orders'[o] = [orders[o] EXCEPT !.filled = n, !.open = open, !.at = Now + 1]
  BY Working
<1>3. /\ orders'[o].cid = orders[o].cid /\ orders'[o].run = orders[o].run
      /\ orders'[o].sym = orders[o].sym /\ orders'[o].side = orders[o].side
      /\ orders'[o].filled = n /\ orders[o].filled <= n /\ orders[o].filled \in Nat
  BY <1>2, OrderTypes DEF OrderSet
<1>4. /\ OrderIds' = OrderIds /\ orders[o].open /\ \A p \in OrderIds \ {o} : orders'[p] = orders[p]
  BY Working
<1>5. \A p \in OrderIds : /\ orders'[p].cid = orders[p].cid /\ orders'[p].run = orders[p].run
                          /\ orders'[p].sym = orders[p].sym /\ orders'[p].side = orders[p].side
  BY <1>3, <1>4
<1>6. Intents'
  BY <1>1, <1>4, <1>5 DEF BookInv, Intents, Sleeve
<1>7. ASSUME NEW a, a.filled \in Nat, NEW p \in OrderIds, Behind(a, p)
      PROVE  /\ a.filled <= orders'[p].filled
             /\ ~a.open => /\ ~orders'[p].open /\ a.filled = orders'[p].filled
                           /\ a.at = orders'[p].at
  BY <1>3, <1>4, <1>7 DEF Behind
<1>8. /\ \A p \in Tracked : p \in OrderIds /\ ledger[p].filled \in Nat /\ Behind(ledger[p], p)
      /\ \A r \in Runners : \A p \in DOMAIN runner[r].seen :
           /\ p \in OrderIds /\ runner[r].seen[p].filled \in Nat /\ Behind(runner[r].seen[p], p)
  BY DEF BookInv, NothingAhead, Typed, Sound, LedgerTyped, AnswerSet
<1>9. NothingAhead'
  BY <1>1, <1>7, <1>8 DEF NothingAhead, Behind, Tracked
<1>. QED
  BY <1>6, <1>9 DEF BookInv

LEMMA EmptySeen == DOMAIN <<>> = {}
OBVIOUS

LEMMA StepBook ==
  ASSUME Typed, BookInv, NEW r \in Runners, Step(r)
  PROVE  BookInv'
<1>1. UNCHANGED ledger =>
        \A o \in Tracked' : \/ o \in Tracked /\ ledger'[o] = ledger[o]
                            \/ o \in DOMAIN runner[r].seen /\ ledger'[o] = runner[r].seen[o]
  BY DEF Tracked
<1>2. ASSUME UNCHANGED <<orders, ledger>>, RunsGo, Others(r),
             DOMAIN runner'[r].seen = {} \/ runner'[r].seen = runner[r].seen
      PROVE  BookInv'
  BY <1>1, <1>2, LearningKeeps
<1>3. CASE Poll(r) \/ Request(r) \/ Rest(r) \/ Die(r)
  <2>1. \E d, left : runner' \in {[runner EXCEPT ![r] = Pass(d, left)], [runner EXCEPT ![r] = Idle]}
    <3>1. CASE Poll(r)
      BY <3>1, Zenon DEF Poll
    <3>2. CASE Request(r)
      BY <3>2, Zenon DEF Request
    <3>3. CASE Rest(r) \/ Die(r)
      BY <3>3, Zenon DEF Rest, Die
    <3>. QED
      BY <1>3, <3>1, <3>2, <3>3, Zenon
  <2>2. Others(r) /\ runner'[r].seen = <<>>
    BY <2>1, Passing, SMTT(40) DEF Becomes
  <2>3. UNCHANGED <<orders, ledger, runs>>
    BY <1>3 DEF Poll, Request, Rest, Die
  <2>. QED
    BY <1>2, <2>2, <2>3, Untouched, EmptySeen
<1>4. CASE Begin(r)
  <2>1. UNCHANGED <<orders, ledger>>
    BY <1>4 DEF Begin
  <2>2. RunsGo /\ Others(r) /\ runner'[r].seen = runner[r].seen
    BY <1>4, Beginning, NewRun
  <2>. QED
    BY <1>2, <2>1, <2>2
<1>5. CASE SyncRead(r)
  <2>1. /\ Others(r) /\ runner'[r].seen = [o \in NeedsSync(MySleeve(r)) |-> Answer(o)]
        /\ UNCHANGED <<orders, ledger, runs>>
    BY <1>5, Syncing DEF SyncRead, Goes
  <2>2. NeedsSync(MySleeve(r)) \subseteq OrderIds
    BY DEF NeedsSync, Typed, LedgerTyped
  <2>3. \A o \in OrderIds : Behind(Answer(o), o)
    BY OrderTypes DEF Behind, Answer, OrderSet
  <2>4. \A o \in DOMAIN runner'[r].seen : Behind(runner'[r].seen[o], o)
    BY <2>1, <2>2, <2>3
  <2>. QED
    BY <1>1, <2>1, <2>4, LearningKeeps, Untouched
<1>6. CASE SyncCommit(r) \/ Record(r)
  <2>1. ledger' = Upserted(runner[r].seen) /\ UNCHANGED <<runs, orders>>
    BY <1>6, Recording DEF SyncCommit, Record
  <2>2. Others(r) /\ runner'[r].seen = <<>>
    BY <1>6, Syncing, Recording DEF Goes
  <2>3. \A o \in Tracked' : \/ o \in Tracked /\ ledger'[o] = ledger[o]
                            \/ o \in DOMAIN runner[r].seen /\ ledger'[o] = runner[r].seen[o]
    BY <2>1, Upserting
  <2>. QED
    BY <2>1, <2>2, <2>3, LearningKeeps, Untouched, EmptySeen
<1>7. CASE \/ ListPositions(r) \/ ListOrders(r) \/ Check(r) \/ Evaluate(r)
           \/ \E e \in Symbols \X Sides : Skip(r, e) \/ Reject(r, e)
  <2>1. Ponders(r)
    BY <1>7, Pondering
  <2>. QED
    BY <1>2, <2>1, Untouched DEF Ponders, Goes
<1>8. CASE Complete(r) \/ Refuse(r) \/ Fail(r)
  <2>1. Busy(r) /\ UNCHANGED <<orders, ledger>> /\ (Complete(r) \/ Failed(r))
    BY <1>8 DEF Complete, Refuse, Fail, At, Busy
  <2>2. RunsGo /\ \E d, left : Becomes(r, Pass(d, left))
    BY <2>1, Ending DEF Ends
  <2>3. Others(r) /\ DOMAIN runner'[r].seen = {}
    BY <2>2, Passing DEF Becomes
  <2>. QED
    BY <1>2, <2>1, <2>2, <2>3
<1>9. ASSUME NEW e \in Symbols \X Sides, Submit(r, e) PROVE BookInv'
  <2>1. Asks(r, e) /\ ~Known(MyClientOrderId(r, e)) /\ UNCHANGED <<ledger, runs>>
    BY <1>9 DEF Submit
  <2>2. PICK filled \in {0, Quantity(r, e)} :
          /\ orders' = Accepted(r, e, filled)
          /\ runner'[r].seen = [o \in {Len(orders) + 1} |->
               [filled |-> filled, open |-> filled < Quantity(r, e), at |-> Now + 1]]
    BY <1>9, Sending
  <2>3. Others(r)
    BY <1>9, Sending DEF Goes
  <2>. QED
    BY <2>1, <2>2, <2>3, AcceptedBook, Untouched
<1>10. ASSUME NEW e \in Symbols \X Sides, LoseAnswer(r, e) PROVE BookInv'
  <2>1. /\ Asks(r, e) /\ ~Known(MyClientOrderId(r, e)) /\ UNCHANGED ledger
        /\ orders' = Accepted(r, e, 0) /\ Failed(r) /\ Busy(r)
    BY <1>10 DEF LoseAnswer, Asks, Turn, At, Busy
  <2>2. RunsGo /\ \E d, left : Becomes(r, Pass(d, left))
    BY <2>1, Ending DEF Ends
  <2>3. Others(r) /\ DOMAIN runner'[r].seen = {}
    BY <2>2, Passing DEF Becomes
  <2>4. 0 \in {0, Quantity(r, e)}
    OBVIOUS
  <2>. QED
    BY <2>1, <2>2, <2>3, <2>4, AcceptedBook
<1>. QED
  BY <1>3, <1>4, <1>5, <1>6, <1>7, <1>8, <1>9, <1>10 DEF Step

LEMMA NextBook == Typed /\ BookInv /\ [Next]_vars => BookInv'
<1> SUFFICES ASSUME Typed, BookInv, [Next]_vars PROVE BookInv'
  OBVIOUS
<1>1. CASE UNCHANGED vars \/ NextDay
  BY <1>1 DEF vars, NextDay, BookInv, Intents, Sleeve, NothingAhead, Behind, OrderIds, Tracked
<1>. QED
  BY <1>1, StepBook, WorkedBook DEF Next
\* The same order is asked for in the same words.
LEMMA AskedSame ==
  ASSUME Typed, RunsGo, NEW o \in OrderIds, o \in OrderIds', orders'[o].run = orders[o].run,
         orders'[o].sym = orders[o].sym, orders'[o].side = orders[o].side
  PROVE  Asked'[o].intent = Asked[o].intent
<1>1. orders[o].run.n \in DOMAIN runs
  BY OrderTypes DEF OrderSet
<1>. QED
  BY <1>1 DEF Asked, Sleeve, RunsGo

LEMMA AskedIs ==
  ASSUME Typed
  PROVE  /\ DOMAIN Asked = OrderIds /\ DOMAIN Shown = Tracked
         /\ Asked \in Seq({Asked[o] : o \in OrderIds}) /\ Len(Asked) = Len(orders)
         /\ \A o \in OrderIds : Asked[o] =
              [intent |-> <<Sleeve(o), runs[orders[o].run.n].day, orders[o].sym, orders[o].side>>,
               qty |-> orders[o].qty, filled |-> orders[o].filled, closed |-> ~orders[o].open]
         /\ \A o \in Tracked : Shown[o] = [filled |-> ledger[o].filled, closed |-> ~ledger[o].open]
<1>1. Len(orders) \in Nat /\ OrderIds = 1 .. Len(orders)
  BY OrderTypes DEF OrderIds
<1>2. DOMAIN Asked = 1 .. Len(orders) /\ Asked = [o \in 1 .. Len(orders) |-> Asked[o]]
  BY <1>1 DEF Asked
<1>3. Asked \in Seq({Asked[o] : o \in OrderIds}) /\ Len(Asked) = Len(orders)
  BY <1>1, <1>2
<1>. QED
  BY <1>1, <1>2, <1>3 DEF Asked, Shown

\* Nothing the abstract book shows has changed.
LEMMA AskedStays ==
  ASSUME Typed, RunsGo, UNCHANGED orders
  PROVE  UNCHANGED Asked
<1>1. OrderIds' = OrderIds /\ \A o \in OrderIds : orders[o].run.n \in DOMAIN runs
  BY OrderTypes DEF OrderIds, OrderSet
<1>2. \A o \in OrderIds : runs'[orders[o].run.n].day = runs[orders[o].run.n].day
  BY <1>1 DEF RunsGo
<1>. QED
  BY <1>1, <1>2 DEF Asked, Sleeve

LEMMA ShownStays == UNCHANGED ledger => UNCHANGED Shown
BY DEF Shown, Tracked

LEMMA Asking ==
  ASSUME Typed, Typed', BookInv, BookInv', NEW r \in Runners, NEW e \in Symbols \X Sides,
         Asks(r, e), NEW filled \in {0, Quantity(r, e)}, orders' = Accepted(r, e, filled),
         UNCHANGED ledger, RunsGo
  PROVE  Book!Ask
<1> DEFINE k == Len(orders) + 1
<1>1. /\ OrderIds' = OrderIds \cup {k} /\ k \notin OrderIds
      /\ \A o \in OrderIds : orders'[o] = orders[o]
      /\ Len(orders') = k /\ Len(orders) \in Nat
  BY Accepting, AcceptingKeeps, OrderTypes
<1>2. Len(Asked) = Len(orders) /\ Len(Asked') = k /\ DOMAIN Asked = OrderIds
  <2>1. OrderIds' = 1 .. k
    BY <1>1 DEF OrderIds
  <2>2. Asked' = [o \in 1 .. k |-> Asked'[o]]
    BY <2>1 DEF Asked
  <2>3. Asked' \in Seq({Asked'[o] : o \in 1 .. k}) /\ Len(Asked') = k
    BY <1>1, <2>2
  <2>. QED
    BY <2>3, AskedIs
<1>3. \A o \in OrderIds : Asked'[o] = Asked[o]
  <2> SUFFICES ASSUME NEW o \in OrderIds PROVE Asked'[o] = Asked[o]
    OBVIOUS
  <2>1. orders[o].run.n \in DOMAIN runs
    BY OrderTypes DEF OrderSet
  <2>2. runs'[orders[o].run.n].day = runs[orders[o].run.n].day
    BY <2>1 DEF RunsGo
  <2>. QED
    BY <1>1, <2>2 DEF Asked, Sleeve
<1>4. SubSeq(Asked', 1, Len(Asked)) = Asked
  <2> DEFINE S == {Asked[o] : o \in OrderIds}
  <2>1. \A o \in 1 .. Len(Asked) : Asked'[o] = Asked[o] /\ Asked[o] \in S
    <3>1. OrderIds = 1 .. Len(Asked)
      BY <1>2 DEF OrderIds
    <3>. QED
      BY <1>3, <3>1
  <2>2. Asked \in Seq(S) /\ Len(Asked) \in Nat
    BY AskedIs
  <2> HIDE DEF S
  <2>3. SubSeq(Asked', 1, Len(Asked)) \in Seq(S) /\ Len(SubSeq(Asked', 1, Len(Asked))) = Len(Asked)
        /\ \A o \in 1 .. Len(Asked) : SubSeq(Asked', 1, Len(Asked))[o] = Asked'[o]
    BY <2>1, <2>2, SubSeqProperties
  <2>. QED
    BY <2>1, <2>2, <2>3, SeqEqual
<1>5. \A o \in OrderIds : Asked[o].intent # Asked'[k].intent
  <2>1. \A o \in OrderIds : orders'[o].cid # orders'[k].cid
    BY <1>1 DEF BookInv, Intents
  <2>2. \A o \in OrderIds' : Asked'[o].intent = orders'[o].cid
    BY DEF Asked, BookInv, Intents
  <2>. QED
    BY <1>1, <1>3, <2>1, <2>2
<1>6. /\ Asked'[k].filled \in 0 .. Asked'[k].qty
      /\ Asked'[k].closed <=> Asked'[k].filled = Asked'[k].qty
  <2>1. /\ orders'[k].qty = Quantity(r, e) /\ orders'[k].filled = filled
        /\ orders'[k].open = (filled < Quantity(r, e))
        /\ filled \in 0 .. Quantity(r, e) /\ Quantity(r, e) \in Nat \ {0}
    BY Accepting
  <2>2. /\ Asked'[k].qty = orders'[k].qty /\ Asked'[k].filled = orders'[k].filled
        /\ Asked'[k].closed = ~orders'[k].open
    BY <1>1 DEF Asked
  <2>3. filled \in Nat /\ (~(filled < Quantity(r, e)) <=> filled = Quantity(r, e))
    BY <2>1
  <2>. QED
    BY <2>1, <2>2, <2>3
<1>. QED
  BY <1>1, <1>2, <1>4, <1>5, <1>6, ShownStays DEF Book!Ask
LEMMA WorkingRefines ==
  ASSUME Typed, NEW o \in OrderIds, Fill(o) \/ Expire(o)
  PROVE  Book!Work(o) /\ o \in DOMAIN Asked
<1>1. UNCHANGED <<ledger, runs>>
  BY DEF Fill, Expire
<1>2. PICK n \in orders[o].filled .. orders[o].qty, open \in BOOLEAN :
        /\ n \in Nat
        /\ orders'[o] = [orders[o] EXCEPT !.filled = n, !.open = open, !.at = Now + 1]
  BY Working
<1>3. /\ orders'[o].run = orders[o].run /\ orders'[o].sym = orders[o].sym
      /\ orders'[o].side = orders[o].side /\ orders'[o].qty = orders[o].qty
      /\ orders'[o].filled = n /\ orders'[o].open = open
  BY <1>2, OrderTypes DEF OrderSet
<1>4. /\ OrderIds' = OrderIds /\ orders[o].open /\ \A p \in OrderIds \ {o} : orders'[p] = orders[p]
  BY Working
<1>5. /\ Asked'[o].intent = Asked[o].intent /\ Asked'[o].qty = Asked[o].qty
      /\ Asked'[o].filled = n /\ Asked[o].filled = orders[o].filled
      /\ Asked[o].qty = orders[o].qty /\ ~Asked[o].closed
  BY <1>1, <1>3, <1>4 DEF Asked, Sleeve
<1>6. \A p \in OrderIds \ {o} : Asked'[p] = Asked[p]
  BY <1>1, <1>4 DEF Asked, Sleeve
<1>7. /\ Asked[o] = [intent |-> Asked[o].intent, qty |-> Asked[o].qty, filled |-> Asked[o].filled,
                     closed |-> Asked[o].closed]
      /\ Asked'[o] = [intent |-> Asked'[o].intent, qty |-> Asked'[o].qty,
                      filled |-> Asked'[o].filled, closed |-> Asked'[o].closed]
  BY <1>4 DEF Asked
<1>8. Asked'[o] = [Asked[o] EXCEPT !.filled = Asked'[o].filled, !.closed = Asked'[o].closed]
  BY <1>5, <1>7
<1>9. DOMAIN Asked = OrderIds /\ Asked = [p \in OrderIds |-> Asked[p]]
      /\ Asked' = [p \in OrderIds |-> Asked'[p]]
  BY <1>4 DEF Asked
<1>10. Asked' = [Asked EXCEPT ![o] = Asked'[o]]
  BY <1>6, <1>9
<1>11. Asked' = [Asked EXCEPT ![o].filled = Asked'[o].filled, ![o].closed = Asked'[o].closed]
  BY <1>8, <1>9, <1>10
<1>. QED
  BY <1>1, <1>2, <1>5, <1>9, <1>11, ShownStays DEF Book!Work

LEMMA NotingRefines ==
  ASSUME Typed, BookInv', UNCHANGED <<orders, runs>>, LedgerTyped', Tracked \subseteq Tracked'
  PROVE  Book!Note
<1>1. Asked' = Asked /\ OrderIds' = OrderIds
  BY AskedStays, Untouched
<1>2. /\ DOMAIN Asked = OrderIds /\ DOMAIN Shown = Tracked /\ DOMAIN Shown' = Tracked'
      /\ Tracked' \subseteq OrderIds
  BY <1>1, AskedIs DEF Shown, LedgerTyped
<1>3. ASSUME NEW o \in Tracked'
      PROVE  /\ Shown'[o].filled \in 0 .. Asked[o].filled
             /\ Shown'[o].closed => Asked[o].closed /\ Shown'[o].filled = Asked[o].filled
  <2>1. /\ Shown'[o].filled = ledger'[o].filled /\ Shown'[o].closed = ~ledger'[o].open
        /\ Asked[o].filled = orders[o].filled /\ Asked[o].closed = ~orders[o].open
    BY <1>2 DEF Shown, Asked
  <2>2. /\ ledger'[o].filled <= orders[o].filled /\ ledger'[o].filled \in Nat
        /\ ~ledger'[o].open => ~orders[o].open /\ ledger'[o].filled = orders[o].filled
    BY DEF BookInv, NothingAhead, Behind, LedgerTyped, AnswerSet
  <2>3. orders[o].filled \in Nat
    BY <1>2, OrderTypes DEF OrderSet
  <2>4. Shown'[o].filled \in 0 .. Asked[o].filled
    <3>1. ledger'[o].filled \in 0 .. orders[o].filled
      BY <2>2, <2>3
    <3>. QED
      BY <2>1, <3>1
  <2>5. ASSUME Shown'[o].closed
        PROVE  Asked[o].closed /\ Shown'[o].filled = Asked[o].filled
    <3>1. ~ledger'[o].open
      BY <2>1, <2>5, Zenon
    <3>2. ~orders[o].open /\ ledger'[o].filled = orders[o].filled
      BY <2>2, <3>1, Zenon
    <3>. QED
      BY <2>1, <3>2, Zenon
  <2>. QED
    BY <2>4, <2>5
<1>. QED
  BY <1>1, <1>2, <1>3 DEF Book!Note

LEMMA StepRefines ==
  ASSUME Typed, Typed', BookInv, BookInv', NEW r \in Runners, Step(r)
  PROVE  [Book!Next]_(Book!vars)
<1>1. UNCHANGED <<orders, ledger>> /\ RunsGo => UNCHANGED Book!vars
  BY AskedStays, ShownStays DEF Book!vars
<1>2. CASE \/ Poll(r) \/ Request(r) \/ Rest(r) \/ Die(r) \/ SyncRead(r)
           \/ ListPositions(r) \/ ListOrders(r) \/ Check(r) \/ Evaluate(r)
           \/ \E e \in Symbols \X Sides : Skip(r, e) \/ Reject(r, e)
  <2>1. UNCHANGED <<orders, ledger, runs>>
    BY <1>2 DEF Poll, Request, Rest, Die, SyncRead, ListPositions, ListOrders, Check, Evaluate,
                Skip, Reject
  <2>. QED
    BY <1>1, <2>1, Untouched
<1>3. CASE Begin(r)
  BY <1>1, <1>3, NewRun DEF Begin
<1>4. CASE SyncCommit(r) \/ Record(r)
  <2>1. ledger' = Upserted(runner[r].seen) /\ UNCHANGED <<runs, orders>>
    BY <1>4, Recording DEF SyncCommit, Record
  <2>2. LedgerTyped' /\ Tracked \subseteq Tracked'
    BY <2>1, Upserting
  <2>. QED
    BY <2>1, <2>2, NotingRefines DEF Book!Next
<1>5. CASE Complete(r) \/ Refuse(r) \/ Fail(r)
  <2>1. Busy(r) /\ UNCHANGED <<orders, ledger>> /\ (Complete(r) \/ Failed(r))
    BY <1>5 DEF Complete, Refuse, Fail, At, Busy
  <2>2. RunsGo
    BY <2>1, Ending DEF Ends
  <2>. QED
    BY <1>1, <2>1, <2>2
<1>6. ASSUME NEW e \in Symbols \X Sides, Submit(r, e) PROVE Book!Ask
  <2>1. Asks(r, e) /\ UNCHANGED <<ledger, runs>>
    BY <1>6 DEF Submit
  <2>2. PICK filled \in {0, Quantity(r, e)} : orders' = Accepted(r, e, filled)
    BY <1>6, Sending
  <2>. QED
    BY <2>1, <2>2, Asking, Untouched
<1>7. ASSUME NEW e \in Symbols \X Sides, LoseAnswer(r, e) PROVE Book!Ask
  <2>1. Asks(r, e) /\ UNCHANGED ledger /\ orders' = Accepted(r, e, 0) /\ Failed(r) /\ Busy(r)
    BY <1>7 DEF LoseAnswer, Asks, Turn, At, Busy
  <2>2. RunsGo
    BY <2>1, Ending DEF Ends
  <2>3. 0 \in {0, Quantity(r, e)}
    OBVIOUS
  <2>. QED
    BY <2>1, <2>2, <2>3, Asking
<1>. QED
  BY <1>2, <1>3, <1>4, <1>5, <1>6, <1>7 DEF Step, Book!Next

LEMMA NextRefines ==
  Typed /\ Typed' /\ BookInv /\ BookInv' /\ [Next]_vars => [Book!Next]_(Book!vars)
<1> SUFFICES ASSUME Typed, Typed', BookInv, BookInv', [Next]_vars
             PROVE  [Book!Next]_(Book!vars)
  OBVIOUS
<1>1. CASE UNCHANGED vars \/ NextDay
  <2>1. UNCHANGED <<orders, ledger, runs>>
    BY <1>1 DEF vars, NextDay
  <2>. QED
    BY <2>1, AskedStays, ShownStays, Untouched DEF Book!vars
<1>2. ASSUME NEW o \in OrderIds, Fill(o) \/ Expire(o) PROVE Book!Next
  BY <1>2, WorkingRefines DEF Book!Next
<1>. QED
  BY <1>1, <1>2, StepRefines DEF Next

LEMMA InitRefines == Init => Book!Init
BY DEF Init, Book!Init, Asked, Shown, OrderIds, Tracked

\* Every behaviour of threads, requests, faults and the broker is one of the abstract
\* book: an instruction of a strategy for a day becomes one order at most, the rows
\* never run ahead of the broker, and what they hold for final is exact.
\* (_client_order_id, _upsert_paper_broker_order_transaction,
\* _sync_strategy_pending_orders)
THEOREM Implements == Spec => OneOrderPerIntent
<1>1. Spec => []Typed
  BY InitTyped, NextTyped, PTL DEF Spec
<1>2. Spec => []BookInv
  BY <1>1, InitBook, NextBook, PTL DEF Spec
<1>. QED
  BY <1>1, <1>2, InitRefines, NextRefines, PTL DEF Spec, OneOrderPerIntent, Book!Spec

-----------------------------------------------------------------------------
(* Sums over finite sets. What holds of the empty set, and of a set if it   *)
(* holds of every set with one element less, holds of every finite set.     *)

Less == {p \in Nat \X Nat : p[1] < p[2]}
LEMMA LessWellFounded == IsWellFoundedOn(Less, Nat)
BY NatLessThanWellFounded, Zenon DEF OpToRel, Less
LEMMA Smallest ==
  ASSUME NEW S \in SUBSET Nat, S # {}
  PROVE  \E n \in S : \A m \in S : n <= m
<1>1. PICK n \in S : \A m \in S : ~ (<<m, n>> \in Less)
  BY LessWellFounded, WFMin
<1>2. \A m \in Nat, k \in Nat : m < k => <<m, k>> \in Less
  BY DEF Less
<1>3. \A m \in S : ~(m < n)
  BY <1>1, <1>2
<1>. QED
  BY <1>3

LEMMA Induct ==
  ASSUME NEW S \in SUBSET Nat, 0 \in S, \A n \in S : n + 1 \in S
  PROVE  S = Nat
<1> SUFFICES ASSUME Nat \ S # {} PROVE FALSE
  OBVIOUS
<1>1. PICK n \in Nat \ S : \A m \in Nat \ S : n <= m
  BY Smallest
<1>2. n # 0 /\ n - 1 \in Nat /\ n - 1 \notin S
  BY <1>1
<1>. QED
  BY <1>1, <1>2

LEMMA SetInduct ==
  ASSUME NEW S, IsFiniteSet(S), NEW Good \in SUBSET SUBSET S, {} \in Good,
         \A T \in SUBSET S : T # {} /\ (\A x \in T : T \ {x} \in Good) => T \in Good
  PROVE  Good = SUBSET S
<1> DEFINE Bad == (SUBSET S) \ Good
<1>1. SUFFICES ASSUME Bad # {} PROVE FALSE
  OBVIOUS
<1>2. IsWellFoundedOn(StrictSubsetOrdering(S), SUBSET S)
  BY FS_StrictSubsetOrderingWellFounded, FS_FiniteSubsetsOfFinite
<1>3. PICK T \in Bad : \A U \in Bad : ~ (<<U, T>> \in StrictSubsetOrdering(S))
  <2>1. Bad \subseteq SUBSET S
    OBVIOUS
  <2> HIDE DEF Bad
  <2>. QED
    BY <1>1, <1>2, <2>1, WFMin
<1>4. T # {}
  OBVIOUS
<1>5. ASSUME NEW x \in T PROVE T \ {x} \in Good
  <2>1. <<T \ {x}, T>> \in (SUBSET S) \X (SUBSET S)
    OBVIOUS
  <2>2. <<T \ {x}, T>> \in StrictSubsetOrdering(S)
    BY <2>1 DEF StrictSubsetOrdering
  <2>. QED
    BY <1>3, <2>2
<1>. QED
  BY <1>4, <1>5

\* What makes g the folds of step over the subsets of S, taking c[T] last in T.
IsFold(g, S, B, base, step, c) ==
  /\ g \in [SUBSET S -> B]
  /\ \A T \in SUBSET S : g[T] = IF T = {} THEN base ELSE step[<<c[T], g[T \ {c[T]}]>>]

\* A fold over a finite set exists and stays in the set of its values.
LEMMA FoldExists ==
  ASSUME NEW S, IsFiniteSet(S), NEW B, NEW base \in B, NEW step \in [S \X B -> B],
         NEW c, \A T \in SUBSET S : T # {} => c[T] \in T
  PROVE  \E g : IsFold(g, S, B, base, step, c)
<1> DEFINE Small(n) == {T \in SUBSET S : Cardinality(T) <= n}
           Fold(g, D) == \A T \in D : g[T] = IF T = {} THEN base ELSE step[<<c[T], g[T \ {c[T]}]>>]
           P(n) == \E g \in [Small(n) -> B] : Fold(g, Small(n))
           Ns == {n \in Nat : P(n)}
<1>1. \A T \in SUBSET S : IsFiniteSet(T) /\ Cardinality(T) \in Nat /\ (Cardinality(T) = 0 <=> T = {})
  BY FS_Subset, FS_CardinalityType, FS_EmptySet
<1>2. \A T \in SUBSET S : T # {} => T \ {c[T]} \in SUBSET S /\ Cardinality(T \ {c[T]}) = Cardinality(T) - 1
  BY <1>1, FS_RemoveElement
<1>3. 0 \in Ns
  <2> DEFINE g == [T \in Small(0) |-> base]
  <2>1. \A T \in Small(0) : T = {}
    BY <1>1
  <2>2. g \in [Small(0) -> B] /\ Fold(g, Small(0))
    BY <2>1
  <2>. QED
    BY <2>2
<1>4. ASSUME NEW n \in Ns PROVE n + 1 \in Ns
  <2>1. PICK g \in [Small(n) -> B] : Fold(g, Small(n))
    OBVIOUS
  <2> DEFINE h == [T \in Small(n + 1) |-> IF T = {} THEN base ELSE step[<<c[T], g[T \ {c[T]}]>>]]
  <2>2. \A T \in Small(n + 1) : T # {} => T \ {c[T]} \in Small(n) /\ c[T] \in S
    BY <1>1, <1>2
  <2>3. Small(n) \subseteq Small(n + 1)
    BY <1>1
  <2>4. \A T \in Small(n) : g[T] = IF T = {} THEN base ELSE step[<<c[T], g[T \ {c[T]}]>>]
    BY <2>1
  <2> HIDE DEF Small
  <2>5. \A T \in Small(n) : h[T] = g[T]
    BY <2>3, <2>4
  <2>6. h \in [Small(n + 1) -> B]
    BY <2>2
  <2>7. Fold(h, Small(n + 1))
    BY <2>2, <2>5
  <2> HIDE DEF h, Fold
  <2>8. P(n + 1)
    BY <2>6, <2>7
  <2> HIDE DEF P
  <2>. QED
    BY <2>8
<1>5. Ns = Nat
  <2> HIDE DEF P
  <2>1. Ns \in SUBSET Nat
    OBVIOUS
  <2> HIDE DEF Ns
  <2>. QED
    BY <1>3, <1>4, <2>1, Induct
<1>6. Small(Cardinality(S)) = SUBSET S /\ Cardinality(S) \in Nat
  BY <1>1, FS_Subset, FS_CardinalityType
<1>. QED
  <2> HIDE DEF P
  <2>1. P(Cardinality(S))
    BY <1>5, <1>6
  <2> HIDE DEF Small, Fold
  <2>2. \E g \in [SUBSET S -> B] : Fold(g, SUBSET S)
    BY <1>6, <2>1 DEF P
  <2>. QED
    BY <2>2 DEF Fold, IsFold

\* What makes g the sums of f over the subsets of S.
Sums(g, f, S) ==
  /\ g \in [SUBSET S -> Int] /\ g[{}] = 0
  /\ \A T \in SUBSET S : \A x \in T : g[T] = f[x] + g[T \ {x}]

\* The order in which elements are added does not matter.
LEMMA SumFold ==
  ASSUME NEW f, NEW S, IsFiniteSet(S), \A x \in S : f[x] \in Int
  PROVE  \E g : Sums(g, f, S) /\ SumFunctionOnSet(f, S) = g[S]
<1> DEFINE c == [T \in SUBSET S |-> CHOOSE x \in T : TRUE]
           step == [p \in S \X Int |-> f[p[1]] + p[2]]
           Is(g) == g = [T \in SUBSET S |-> IF T = {} THEN 0
                                           ELSE f[CHOOSE x \in T : TRUE] + g[T \ {CHOOSE x \in T : TRUE}]]
           iter == CHOOSE g : Is(g)
<1>1. \A T \in SUBSET S : T # {} => (CHOOSE x \in T : TRUE) \in T /\ c[T] = CHOOSE x \in T : TRUE
  OBVIOUS
<1>2. step \in [S \X Int -> Int] /\ \A x \in S, n \in Int : step[<<x, n>>] = f[x] + n
  OBVIOUS
<1>3. PICK g : IsFold(g, S, Int, 0, step, c)
  <2>1. \A T \in SUBSET S : T # {} => c[T] \in T
    BY <1>1
  <2>2. step \in [S \X Int -> Int] /\ 0 \in Int
    BY <1>2
  <2> HIDE DEF c, step
  <2>. QED
    BY <2>1, <2>2, FoldExists
<1>4. ASSUME NEW T \in SUBSET S
      PROVE  g[T] = IF T = {} THEN 0
                    ELSE f[CHOOSE x \in T : TRUE] + g[T \ {CHOOSE x \in T : TRUE}]
  <2>1. CASE T = {}
    BY <1>3, <2>1 DEF IsFold
  <2>2. CASE T # {}
    <3>1. g[T] = step[<<c[T], g[T \ {c[T]}]>>]
      BY <1>3, <2>2 DEF IsFold
    <3>2. c[T] \in S /\ g[T \ {c[T]}] \in Int
      BY <1>1, <1>3, <2>2 DEF IsFold
    <3> HIDE DEF step, c
    <3>3. g[T] = f[c[T]] + g[T \ {c[T]}]
      BY <1>2, <3>1, <3>2
    <3>. QED
      BY <1>1, <2>2, <3>3
  <2>. QED
    BY <2>1, <2>2
<1>5. Is(g) /\ g \in [SUBSET S -> Int]
  BY <1>3, <1>4 DEF IsFold
<1>6. Is(iter)
  <2> HIDE DEF Is
  <2>. QED
    BY <1>5
<1>7. iter = g
  <2> DEFINE Same == {T \in SUBSET S : iter[T] = g[T]}
  <2>1. \A T \in SUBSET S : iter[T] = IF T = {} THEN 0
                    ELSE f[CHOOSE x \in T : TRUE] + iter[T \ {CHOOSE x \in T : TRUE}]
    BY <1>6
  <2>2. iter = [T \in SUBSET S |-> iter[T]]
    BY <1>6
  <2> HIDE DEF iter
  <2>3. {} \in Same
    BY <1>4, <2>1
  <2>4. ASSUME NEW T \in SUBSET S, T # {}, \A x \in T : T \ {x} \in Same PROVE T \in Same
    BY <1>1, <1>4, <2>1, <2>4
  <2>5. Same = SUBSET S
    <3>1. Same \in SUBSET SUBSET S
      OBVIOUS
    <3> HIDE DEF Same
    <3>. QED
      BY <2>3, <2>4, <3>1, SetInduct
  <2>. QED
    BY <1>5, <2>2, <2>5
<1>8. SumFunctionOnSet(f, S) = g[S]
  <2>1. SumFunctionOnSet(f, S) = iter[S]
    BY DEF SumFunctionOnSet, FoldFunctionOnSet, MapThenFoldSet
  <2>. QED
    BY <1>7, <2>1
<1>9. Sums(g, f, S)
  <2> DEFINE Whole == {T \in SUBSET S : \A x \in T : g[T] = f[x] + g[T \ {x}]}
  <2>1. {} \in Whole
    OBVIOUS
  <2>2. ASSUME NEW T \in SUBSET S, T # {}, \A x \in T : T \ {x} \in Whole PROVE T \in Whole
    <3> DEFINE y == CHOOSE x \in T : TRUE
    <3>1. y \in T /\ g[T] = f[y] + g[T \ {y}]
      BY <1>1, <1>4, <2>2
    <3> HIDE DEF y
    <3>2. ASSUME NEW x \in T, x # y PROVE g[T] = f[x] + g[T \ {x}]
      <4>1. (T \ {y}) \ {x} = (T \ {x}) \ {y} /\ (T \ {x}) \ {y} \in SUBSET S
        OBVIOUS
      <4>2. g[T \ {y}] = f[x] + g[(T \ {x}) \ {y}] /\ g[T \ {x}] = f[y] + g[(T \ {x}) \ {y}]
        BY <2>2, <3>1, <3>2, <4>1
      <4>3. f[x] \in Int /\ f[y] \in Int /\ g[(T \ {x}) \ {y}] \in Int
        BY <1>5, <3>1, <4>1
      <4>. QED
        BY <3>1, <4>2, <4>3
    <3>. QED
      BY <3>1, <3>2
  <2>3. Whole = SUBSET S
    <3>1. Whole \in SUBSET SUBSET S
      OBVIOUS
    <3> HIDE DEF Whole
    <3>. QED
      BY <2>1, <2>2, <3>1, SetInduct
  <2>4. g[{}] = 0
    BY <1>4
  <2>. QED
    BY <1>5, <2>3, <2>4 DEF Sums
<1>. QED
  BY <1>8, <1>9

LEMMA SumIs ==
  ASSUME NEW f, NEW S, IsFiniteSet(S), \A x \in S : f[x] \in Int, NEW g, Sums(g, f, S)
  PROVE  \A T \in SUBSET S : SumFunctionOnSet(f, T) = g[T]
<1> SUFFICES ASSUME NEW T \in SUBSET S PROVE SumFunctionOnSet(f, T) = g[T]
  OBVIOUS
<1>1. IsFiniteSet(T)
  BY FS_Subset
<1>2. PICK h : Sums(h, f, T) /\ SumFunctionOnSet(f, T) = h[T]
  BY <1>1, SumFold
<1> DEFINE Same == {U \in SUBSET T : h[U] = g[U]}
<1>3. {} \in Same
  BY <1>2 DEF Sums
<1>4. ASSUME NEW U \in SUBSET T, U # {}, \A x \in U : U \ {x} \in Same PROVE U \in Same
  <2>1. PICK x \in U : TRUE
    BY <1>4
  <2>2. h[U] = f[x] + h[U \ {x}] /\ g[U] = f[x] + g[U \ {x}] /\ h[U \ {x}] = g[U \ {x}]
    BY <1>2, <1>4 DEF Sums
  <2>. QED
    BY <2>2
<1>5. Same = SUBSET T
  <2>1. Same \in SUBSET SUBSET T
    OBVIOUS
  <2> HIDE DEF Same
  <2>. QED
    BY <1>1, <1>3, <1>4, <2>1, SetInduct
<1>. QED
  BY <1>2, <1>5

LEMMA SumTypes ==
  /\ \A f : SumFunctionOnSet(f, {}) = 0
  /\ \A f, S : IsFiniteSet(S) /\ (\A x \in S : f[x] \in Int) => SumFunctionOnSet(f, S) \in Int
<1>1. ASSUME NEW f, NEW S, IsFiniteSet(S), \A x \in S : f[x] \in Int
      PROVE  SumFunctionOnSet(f, S) \in Int /\ SumFunctionOnSet(f, {}) = 0
  <2>1. PICK g : Sums(g, f, S) /\ SumFunctionOnSet(f, S) = g[S]
    BY <1>1, SumFold
  <2>2. SumFunctionOnSet(f, {}) = g[{}]
    BY <1>1, <2>1, SumIs
  <2>. QED
    BY <2>1, <2>2 DEF Sums
<1>. QED
  BY <1>1, FS_EmptySet

LEMMA SumRemove ==
  ASSUME NEW f, NEW S, IsFiniteSet(S), \A x \in S : f[x] \in Int, NEW x \in S
  PROVE  SumFunctionOnSet(f, S) = f[x] + SumFunctionOnSet(f, S \ {x})
<1>1. PICK g : Sums(g, f, S)
  BY SumFold
<1>2. SumFunctionOnSet(f, S) = g[S] /\ SumFunctionOnSet(f, S \ {x}) = g[S \ {x}]
  BY <1>1, SumIs
<1>. QED
  BY <1>1, <1>2 DEF Sums

LEMMA SumEqual ==
  ASSUME NEW f, NEW h, NEW S, IsFiniteSet(S), \A x \in S : f[x] \in Int /\ h[x] = f[x]
  PROVE  SumFunctionOnSet(h, S) = SumFunctionOnSet(f, S)
<1>1. PICK g : Sums(g, f, S)
  BY SumFold
<1>2. Sums(g, h, S)
  BY <1>1 DEF Sums
<1>3. SumFunctionOnSet(f, S) = g[S]
  BY <1>1, SumIs
<1>4. SumFunctionOnSet(h, S) = g[S]
  BY <1>2, SumIs
<1>. QED
  BY <1>3, <1>4

LEMMA SumSplit ==
  ASSUME NEW f, NEW S, IsFiniteSet(S), \A x \in S : f[x] \in Int, NEW A \in SUBSET S
  PROVE  SumFunctionOnSet(f, S) = SumFunctionOnSet(f, A) + SumFunctionOnSet(f, S \ A)
<1>1. PICK g : Sums(g, f, S)
  BY SumFold
<1> DEFINE Split == {T \in SUBSET A : g[(S \ A) \cup T] = g[T] + g[S \ A]}
<1>2. {} \in Split
  <2>1. (S \ A) \cup {} = S \ A /\ S \ A \in SUBSET S
    OBVIOUS
  <2>. QED
    BY <1>1, <2>1 DEF Sums
<1>3. ASSUME NEW T \in SUBSET A, T # {}, \A x \in T : T \ {x} \in Split PROVE T \in Split
  <2>1. PICK x \in T : TRUE
    BY <1>3
  <2>2. /\ ((S \ A) \cup T) \ {x} = (S \ A) \cup (T \ {x})
        /\ (S \ A) \cup T \in SUBSET S /\ T \in SUBSET S /\ T \ {x} \in SUBSET S /\ S \ A \in SUBSET S
    OBVIOUS
  <2>3. g[(S \ A) \cup T] = f[x] + g[(S \ A) \cup (T \ {x})]
    BY <1>1, <2>2 DEF Sums
  <2>4. g[T] = f[x] + g[T \ {x}]
    BY <1>1, <2>2 DEF Sums
  <2>5. g[(S \ A) \cup (T \ {x})] = g[T \ {x}] + g[S \ A]
    BY <1>3
  <2>6. f[x] \in Int /\ g[T \ {x}] \in Int /\ g[S \ A] \in Int
    BY <1>1, <2>2 DEF Sums
  <2>. QED
    BY <2>3, <2>4, <2>5, <2>6
<1>4. A \in Split
  <2>1. Split \in SUBSET SUBSET A /\ IsFiniteSet(A)
    BY FS_Subset
  <2> HIDE DEF Split
  <2>2. Split = SUBSET A
    BY <1>2, <1>3, <2>1, SetInduct
  <2>. QED
    BY <2>2
<1>5. (S \ A) \cup A = S /\ S \ A \in SUBSET S
  OBVIOUS
<1>6. g[S] = g[A] + g[S \ A]
  BY <1>4, <1>5
<1>. QED
  BY <1>1, <1>5, <1>6, SumIs

LEMMA SumPositive ==
  ASSUME NEW f, NEW S, IsFiniteSet(S), \A x \in S : f[x] \in Nat
  PROVE  /\ SumFunctionOnSet(f, S) >= 0
         /\ (\A x \in S : f[x] = 0) => SumFunctionOnSet(f, S) = 0
<1>1. PICK g : Sums(g, f, S) /\ SumFunctionOnSet(f, S) = g[S]
  BY SumFold
<1> DEFINE Good == {T \in SUBSET S : g[T] >= 0 /\ ((\A x \in S : f[x] = 0) => g[T] = 0)}
<1>2. {} \in Good
  BY <1>1 DEF Sums
<1>3. ASSUME NEW T \in SUBSET S, T # {}, \A x \in T : T \ {x} \in Good PROVE T \in Good
  <2>1. PICK x \in T : TRUE
    BY <1>3
  <2>2. g[T] = f[x] + g[T \ {x}] /\ g[T \ {x}] \in Int
    BY <1>1 DEF Sums
  <2>3. g[T \ {x}] >= 0 /\ ((\A y \in S : f[y] = 0) => g[T \ {x}] = 0) /\ x \in S
    BY <1>3
  <2>4. g[T] >= 0
    BY <2>2, <2>3
  <2>5. (\A y \in S : f[y] = 0) => g[T] = 0
    BY <2>2, <2>3
  <2>. QED
    BY <2>4, <2>5
<1>4. S \in Good
  <2>1. Good \in SUBSET SUBSET S
    OBVIOUS
  <2> HIDE DEF Good
  <2>2. Good = SUBSET S
    BY <1>2, <1>3, <2>1, SetInduct
  <2>. QED
    BY <2>2
<1>. QED
  BY <1>1, <1>4

-----------------------------------------------------------------------------
(* A sleeve is rebuilt from its fills.                                      *)

BookSet == [cash : Int, qty : [Symbols -> Nat]]
FillSet == [sym : Symbols, side : Sides, n : Nat, at : Nat]
Fresh   == [cash |-> Capital, qty |-> [sym \in Symbols |-> 0]]

LEMMA MaxOfTwo ==
  ASSUME NEW m \in Int
  PROVE  Max({m, 0}) = IF m >= 0 THEN m ELSE 0
<1> DEFINE S == {m, 0}
           top == IF m >= 0 THEN m ELSE 0
<1>1. top \in S /\ \A y \in S : top >= y
  OBVIOUS
<1>2. Max(S) \in S /\ \A y \in S : Max(S) >= y
  BY <1>1 DEF Max
<1>3. Max(S) = top
  BY <1>1, <1>2
<1>. QED
  BY <1>3

LEMMA Applying ==
  ASSUME NEW book \in BookSet, NEW sym \in Symbols, NEW side \in Sides, NEW n \in Nat
  PROVE  /\ ApplyFill(book, sym, side, n) \in BookSet
         /\ \A other \in Symbols \ {sym} : ApplyFill(book, sym, side, n).qty[other] = book.qty[other]
         /\ ApplyFill(book, sym, side, n).qty[sym] =
              IF side = "BUY" THEN book.qty[sym] + n
              ELSE IF book.qty[sym] >= n THEN book.qty[sym] - n ELSE 0
<1> DEFINE left == IF side = "BUY" THEN book.qty[sym] + n ELSE Max({book.qty[sym] - n, 0})
           cash == book.cash - Signed(side, n)
           qty == [book.qty EXCEPT ![sym] = left]
<1>1. book.cash \in Int /\ book.qty \in [Symbols -> Nat] /\ book.qty[sym] \in Nat
  BY DEF BookSet
<1>2. left = IF side = "BUY" THEN book.qty[sym] + n
             ELSE IF book.qty[sym] >= n THEN book.qty[sym] - n ELSE 0
  BY <1>1, MaxOfTwo
<1>3. left \in Nat
  BY <1>1, <1>2
<1>4. cash \in Int
  BY <1>1 DEF Signed
<1>5. ApplyFill(book, sym, side, n) = [cash |-> cash, qty |-> qty]
  BY DEF ApplyFill
<1> HIDE DEF left, cash
<1>6. /\ qty \in [Symbols -> Nat] /\ qty[sym] = left
      /\ \A other \in Symbols \ {sym} : qty[other] = book.qty[other]
  BY <1>1, <1>3
<1> HIDE DEF qty
<1>. QED
  BY <1>2, <1>4, <1>5, <1>6 DEF BookSet

LEMMA LatestIs ==
  ASSUME NEW fills, NEW D, IsFiniteSet(D), \A o \in D : fills[o].at \in Nat,
         NEW T \in SUBSET D, T # {}
  PROVE  Latest(fills, T) \in T /\ \A p \in T : fills[p].at <= fills[Latest(fills, T)].at
<1> DEFINE Has(U) == \E o \in U : \A p \in U : fills[p].at <= fills[o].at
           Good == {U \in SUBSET D : U # {} => Has(U)}
<1>1. {} \in Good
  OBVIOUS
<1>2. ASSUME NEW U \in SUBSET D, U # {}, \A x \in U : U \ {x} \in Good PROVE U \in Good
  <2>1. PICK x \in U : TRUE
    BY <1>2
  <2>2. CASE U = {x}
    BY <2>2
  <2>3. CASE U # {x}
    <3>1. PICK o \in U \ {x} : \A p \in U \ {x} : fills[p].at <= fills[o].at
      BY <1>2, <2>3
    <3>2. fills[x].at \in Nat /\ fills[o].at \in Nat /\ \A p \in U : fills[p].at \in Nat
      OBVIOUS
    <3>3. CASE fills[x].at <= fills[o].at
      BY <3>1, <3>3
    <3>4. CASE ~ (fills[x].at <= fills[o].at)
      <4>1. \A p \in U : fills[p].at <= fills[x].at
        BY <3>1, <3>2, <3>4
      <4>. QED
        BY <4>1
    <3>. QED
      BY <3>3, <3>4
  <2>. QED
    BY <2>2, <2>3
<1>3. Good = SUBSET D
  <2>1. Good \in SUBSET SUBSET D
    OBVIOUS
  <2> HIDE DEF Good
  <2>. QED
    BY <1>1, <1>2, <2>1, SetInduct
<1>4. Has(T)
  BY <1>3
<1>. QED
  BY <1>4 DEF Latest

\* What makes g the books over the sets of fills: the latest fill is applied last.
Books(g, fills, D) ==
  /\ g \in [SUBSET D -> BookSet] /\ g[{}] = Fresh
  /\ \A T \in SUBSET D : T # {} =>
       LET o == Latest(fills, T) IN
       g[T] = ApplyFill(g[T \ {o}], fills[o].sym, fills[o].side, fills[o].n)

LEMMA Replaying ==
  ASSUME NEW D, IsFiniteSet(D), NEW fills, DOMAIN fills = D, \A o \in D : fills[o] \in FillSet
  PROVE  \E g : Books(g, fills, D) /\ Replayed(fills) = g[D]
<1> DEFINE c == [T \in SUBSET D |-> Latest(fills, T)]
           step == [p \in D \X BookSet |->
                     ApplyFill(p[2], fills[p[1]].sym, fills[p[1]].side, fills[p[1]].n)]
           Next1(g, T) == ApplyFill(g[T \ {Latest(fills, T)}], fills[Latest(fills, T)].sym,
                                    fills[Latest(fills, T)].side, fills[Latest(fills, T)].n)
           Is(g) == g = [T \in SUBSET D |-> IF T = {} THEN Fresh ELSE Next1(g, T)]
           iter == CHOOSE g : Is(g)
<1>1. \A o \in D : /\ fills[o].sym \in Symbols /\ fills[o].side \in Sides /\ fills[o].n \in Nat
                   /\ fills[o].at \in Nat
  BY DEF FillSet
<1>2. \A T \in SUBSET D : T # {} => Latest(fills, T) \in T /\ c[T] = Latest(fills, T)
  BY <1>1, LatestIs
<1>3. /\ \A o \in D, book \in BookSet :
           step[<<o, book>>] = ApplyFill(book, fills[o].sym, fills[o].side, fills[o].n)
      /\ step \in [D \X BookSet -> BookSet]
  <2>1. \A p \in D \X BookSet :
           ApplyFill(p[2], fills[p[1]].sym, fills[p[1]].side, fills[p[1]].n) \in BookSet
    BY <1>1, Applying
  <2>. QED
    BY <2>1
<1>4. Fresh \in BookSet
  BY PaperAssumption DEF Fresh, BookSet
<1>5. PICK g : IsFold(g, D, BookSet, Fresh, step, c)
  <2>1. \A T \in SUBSET D : T # {} => c[T] \in T
    BY <1>2
  <2> HIDE DEF c, step
  <2>. QED
    BY <1>3, <1>4, <2>1, FoldExists
<1>6. g \in [SUBSET D -> BookSet] /\ g[{}] = Fresh
  BY <1>5 DEF IsFold
<1>7. ASSUME NEW T \in SUBSET D, T # {} PROVE g[T] = Next1(g, T)
  <2>1. g[T] = step[<<c[T], g[T \ {c[T]}]>>]
    BY <1>5, <1>7 DEF IsFold
  <2>2. c[T] = Latest(fills, T) /\ c[T] \in D /\ g[T \ {c[T]}] \in BookSet
    BY <1>2, <1>6, <1>7
  <2> HIDE DEF c, step
  <2>3. g[T] = ApplyFill(g[T \ {c[T]}], fills[c[T]].sym, fills[c[T]].side, fills[c[T]].n)
    BY <1>3, <2>1, <2>2
  <2>. QED
    BY <2>2, <2>3
<1>8. Is(g)
  <2> HIDE DEF Next1
  <2>. QED
    BY <1>6, <1>7
<1>9. Is(iter)
  <2> HIDE DEF Is
  <2>. QED
    BY <1>8
<1>10. iter = g
  <2> DEFINE Same == {T \in SUBSET D : iter[T] = g[T]}
  <2>1. iter = [T \in SUBSET D |-> iter[T]] /\ iter[{}] = Fresh
    <3> HIDE DEF iter, Next1
    <3>. QED
      BY <1>9
  <2>2. \A T \in SUBSET D : T # {} => iter[T] = Next1(iter, T)
    <3> HIDE DEF iter, Next1
    <3>. QED
      BY <1>9
  <2> HIDE DEF iter
  <2>3. {} \in Same
    BY <1>6, <2>1
  <2>4. ASSUME NEW T \in SUBSET D, T # {}, \A x \in T : T \ {x} \in Same PROVE T \in Same
    <3>1. iter[T \ {Latest(fills, T)}] = g[T \ {Latest(fills, T)}]
      BY <1>2, <2>4
    <3>. QED
      BY <1>7, <2>2, <2>4, <3>1
  <2>5. Same = SUBSET D
    <3>1. Same \in SUBSET SUBSET D
      OBVIOUS
    <3> HIDE DEF Same
    <3>. QED
      BY <2>3, <2>4, <3>1, SetInduct
  <2>. QED
    BY <1>6, <2>1, <2>5
<1>11. Replayed(fills) = g[D]
  <2>1. Replayed(fills) = iter[D]
    BY DEF Replayed, MapThenFoldSet, Fresh
  <2>. QED
    BY <1>10, <2>1
<1>12. Books(g, fills, D)
  BY <1>6, <1>7 DEF Books
<1>. QED
  BY <1>11, <1>12

-----------------------------------------------------------------------------
(* What is sure of a sleeve.                                                *)

\* The orders of a sleeve that the ledger counts on: those with a row, and sales,
\* which get one.
Counted(s, sym)   == {o \in Mine(s, sym) : o \in Tracked \/ orders[o].side = "SELL"}
Sure(s, sym)      == SumFunctionOnSet(Moved, Counted(s, sym))
SureAt(s, sym, t) == SumFunctionOnSet(Moved, {o \in Counted(s, sym) : orders[o].at <= t})

\* Nothing happens to two orders at once.
Stamps == \A o, p \in OrderIds : orders[o].at = orders[p].at => o = p

LEMMA MovedIs ==
  ASSUME Typed
  PROVE  /\ IsFiniteSet(OrderIds)
         /\ \A o \in OrderIds : /\ Moved[o] = Signed(orders[o].side, orders[o].filled)
                                /\ Moved[o] \in Int
                                /\ orders[o].side = "BUY" => Moved[o] = orders[o].filled
                                /\ orders[o].side # "BUY" => Moved[o] = - orders[o].filled
                                /\ orders[o].filled \in Nat /\ orders[o].qty \in Nat
                                /\ orders[o].at \in Nat /\ orders[o].side \in Sides
                                /\ orders[o].sym \in Symbols /\ Sleeve(o) \in Sleeves
                                /\ orders[o].open \in BOOLEAN
<1>1. IsFiniteSet(OrderIds)
  BY OrderTypes, FS_Interval DEF OrderIds
<1>2. \A o \in OrderIds : /\ orders[o].filled \in Nat /\ orders[o].qty \in Nat
                          /\ orders[o].at \in Nat /\ orders[o].side \in Sides
                          /\ orders[o].sym \in Symbols /\ Sleeve(o) \in Sleeves
                          /\ orders[o].open \in BOOLEAN
  BY OrderTypes DEF OrderSet, Sleeve
<1>3. \A o \in OrderIds : Moved[o] = Signed(orders[o].side, orders[o].filled)
  BY DEF Moved
<1>. QED
  BY <1>1, <1>2, <1>3 DEF Signed

LEMMA Summing ==
  ASSUME Typed, NEW S \in SUBSET OrderIds
  PROVE  /\ IsFiniteSet(S) /\ SumFunctionOnSet(Moved, S) \in Int
         /\ \A x \in S : SumFunctionOnSet(Moved, S) = Moved[x] + SumFunctionOnSet(Moved, S \ {x})
         /\ \A A \in SUBSET S : SumFunctionOnSet(Moved, S) =
                                  SumFunctionOnSet(Moved, A) + SumFunctionOnSet(Moved, S \ A)
         /\ (\A x \in S : orders[x].side = "BUY") => SumFunctionOnSet(Moved, S) >= 0
         /\ (\A x \in S : orders[x].filled = 0) => SumFunctionOnSet(Moved, S) = 0
<1>1. IsFiniteSet(S) /\ \A x \in S : Moved[x] \in Int
  BY MovedIs, FS_Subset
<1> DEFINE m == Moved
<1>2. \A x \in S : m[x] \in Int
  BY <1>1
<1>3. \A x \in S : orders[x].side = "BUY" => m[x] \in Nat
  BY MovedIs
<1>4. \A x \in S : orders[x].filled = 0 => m[x] = 0
  BY MovedIs
<1> HIDE DEF m
<1>5. SumFunctionOnSet(m, S) \in Int
  BY <1>1, <1>2, SumTypes
<1>6. \A x \in S : SumFunctionOnSet(m, S) = m[x] + SumFunctionOnSet(m, S \ {x})
  BY <1>1, <1>2, SumRemove
<1>7. \A A \in SUBSET S : SumFunctionOnSet(m, S) = SumFunctionOnSet(m, A) + SumFunctionOnSet(m, S \ A)
  BY <1>1, <1>2, SumSplit
<1>8. (\A x \in S : orders[x].side = "BUY") => SumFunctionOnSet(m, S) >= 0
  BY <1>1, <1>3, SumPositive
<1>9. (\A x \in S : orders[x].filled = 0) => SumFunctionOnSet(m, S) = 0
  <2> SUFFICES ASSUME \A x \in S : orders[x].filled = 0 PROVE SumFunctionOnSet(m, S) = 0
    OBVIOUS
  <2>1. \A x \in S : m[x] \in Nat /\ m[x] = 0
    BY <1>4
  <2>. QED
    BY <1>1, <2>1, SumPositive
<1>. QED
  BY <1>1, <1>5, <1>6, <1>7, <1>8, <1>9 DEF m

\* The rows of a sleeve say what the broker says.
Read(s) == \A o \in Tracked : Sleeve(o) = s => ledger[o] = Answer(o)

\* Then it is rebuilt as it is: no sale is of more than was bought before it.
LEMMA Unclamped ==
  ASSUME Typed, Stamps, NEW s \in Sleeves, NEW sym \in Symbols, Read(s),
         Counted(s, sym) = Mine(s, sym) \cap Tracked, \A t \in Int : SureAt(s, sym, t) >= 0
  PROVE  /\ Rebuilt(s) \in BookSet /\ Rebuilt(s).qty[sym] = Sure(s, sym)
         /\ BookedBy(s, sym) = Sure(s, sym)
<1> DEFINE F == Fills(s)
           D == DOMAIN F
           Of(T) == {o \in T : orders[o].sym = sym}
           Closed(T) == \A o \in T, p \in D : orders[p].at <= orders[o].at => p \in T
           C == Counted(s, sym)
<1>1. Tracked \subseteq OrderIds
  BY DEF Typed, LedgerTyped
<1>2. D = {o \in Tracked : Sleeve(o) = s /\ ledger[o].filled > 0}
  BY DEF Fills
<1>3. \A o \in D : F[o] = [sym |-> orders[o].sym, side |-> orders[o].side,
                           n |-> ledger[o].filled, at |-> ledger[o].at]
  BY DEF Fills
<1>4. \A o \in Tracked : Sleeve(o) = s =>
         ledger[o].filled = orders[o].filled /\ ledger[o].at = orders[o].at
  <2> SUFFICES ASSUME NEW o \in Tracked, Sleeve(o) = s
               PROVE  ledger[o].filled = orders[o].filled /\ ledger[o].at = orders[o].at
    OBVIOUS
  <2>1. ledger[o] = Answer(o)
    BY DEF Read
  <2>2. Answer(o).filled = orders[o].filled /\ Answer(o).at = orders[o].at
    BY DEF Answer
  <2>. QED
    BY <2>1, <2>2
<1> HIDE DEF F
<1>5. \A o \in D : /\ o \in OrderIds /\ F[o] \in FillSet /\ F[o].sym = orders[o].sym
                   /\ F[o].side = orders[o].side /\ F[o].n = orders[o].filled
                   /\ F[o].at = orders[o].at
  <2>1. \A o \in D : o \in OrderIds /\ o \in Tracked /\ Sleeve(o) = s
    BY <1>1, <1>2
  <2>. QED
    BY <1>3, <1>4, <2>1, MovedIs DEF FillSet
<1>6. C \subseteq OrderIds /\ C \subseteq Tracked /\ \A o \in C : Sleeve(o) = s /\ orders[o].sym = sym
  BY DEF Mine
<1>7. \A o \in C : orders[o].filled = 0 \/ o \in D
  BY <1>2, <1>4, <1>6, MovedIs
<1>8. \A o \in D : orders[o].sym = sym => o \in C
  BY <1>2, <1>5 DEF Mine
<1>9. D \subseteq OrderIds /\ IsFiniteSet(D)
  BY <1>5, MovedIs, FS_Subset
<1>10. PICK g : Books(g, F, D) /\ Replayed(F) = g[D]
  BY <1>5, <1>9, Replaying
<1>11. g \in [SUBSET D -> BookSet] /\ g[{}] = Fresh
  BY <1>10 DEF Books
<1> DEFINE Good == {T \in SUBSET D : Closed(T) => g[T].qty[sym] = SumFunctionOnSet(Moved, Of(T))}
<1>12. {} \in Good
  <2>1. g[{}].qty[sym] = 0 /\ Of({}) = {}
    BY <1>11 DEF Fresh
  <2>. QED
    BY <2>1, SumTypes
<1>13. ASSUME NEW T \in SUBSET D, T # {}, \A x \in T : T \ {x} \in Good PROVE T \in Good
  <2> SUFFICES ASSUME Closed(T) PROVE g[T].qty[sym] = SumFunctionOnSet(Moved, Of(T))
    OBVIOUS
  <2> DEFINE o == Latest(F, T)
             U == T \ {o}
  <2>1. o \in T /\ \A p \in T : orders[p].at <= orders[o].at
    <3>1. \A p \in D : F[p].at \in Nat
      BY <1>5, MovedIs
    <3>2. o \in T /\ \A p \in T : F[p].at <= F[o].at
      BY <1>9, <1>13, <3>1, LatestIs
    <3>. QED
      BY <1>5, <3>2
  <2>2. g[T] = ApplyFill(g[U], F[o].sym, F[o].side, F[o].n)
    BY <1>10, <1>13 DEF Books
  <2> HIDE DEF o
  <2>3. g[U] \in BookSet /\ g[U].qty \in [Symbols -> Nat] /\ g[U].qty[sym] \in Nat
    BY <1>11 DEF BookSet
  <2>4. Closed(U)
    <3> SUFFICES ASSUME NEW x \in U, NEW p \in D, orders[p].at <= orders[x].at PROVE p \in U
      OBVIOUS
    <3>1. p \in T
      OBVIOUS
    <3>2. p # o
      <4>1. orders[x].at <= orders[o].at /\ x \in OrderIds /\ o \in OrderIds /\ x # o
        BY <1>5, <2>1
      <4>2. orders[x].at \in Nat /\ orders[o].at \in Nat
        BY <4>1, MovedIs
      <4>3. p = o => orders[x].at = orders[o].at
        BY <4>1, <4>2
      <4>. QED
        BY <4>1, <4>3 DEF Stamps
    <3>. QED
      BY <3>1, <3>2
  <2>5. g[U].qty[sym] = SumFunctionOnSet(Moved, Of(U))
    BY <1>13, <2>1, <2>4
  <2>6. /\ orders[o].sym \in Symbols /\ orders[o].side \in Sides /\ orders[o].filled \in Nat
        /\ o \in D /\ o \in OrderIds
    BY <1>5, <2>1, MovedIs
  <2>7. /\ \A other \in Symbols \ {orders[o].sym} : g[T].qty[other] = g[U].qty[other]
        /\ g[T].qty[orders[o].sym] =
             IF orders[o].side = "BUY" THEN g[U].qty[orders[o].sym] + orders[o].filled
             ELSE IF g[U].qty[orders[o].sym] >= orders[o].filled
                  THEN g[U].qty[orders[o].sym] - orders[o].filled ELSE 0
    <3>1. F[o].sym = orders[o].sym /\ F[o].side = orders[o].side /\ F[o].n = orders[o].filled
      BY <1>5, <2>6
    <3>2. g[T] = ApplyFill(g[U], orders[o].sym, orders[o].side, orders[o].filled)
      BY <2>2, <3>1
    <3> DEFINE its  == orders[o].sym
               side == orders[o].side
               n    == orders[o].filled
               book == g[U]
    <3>3. book \in BookSet /\ its \in Symbols /\ side \in Sides /\ n \in Nat
      BY <2>3, <2>6
    <3>4. g[T] = ApplyFill(book, its, side, n)
      BY <3>2
    <3> HIDE DEF its, side, n, book
    <3>5. /\ \A other \in Symbols \ {its} : g[T].qty[other] = book.qty[other]
          /\ g[T].qty[its] = IF side = "BUY" THEN book.qty[its] + n
                            ELSE IF book.qty[its] >= n THEN book.qty[its] - n ELSE 0
      BY <3>3, <3>4, Applying
    <3>. QED
      BY <3>5 DEF its, side, n, book
  <2>8. CASE orders[o].sym # sym
    <3>1. Of(T) = Of(U)
      BY <2>8
    <3>. QED
      BY <2>5, <2>7, <2>8, <3>1
  <2>9. CASE orders[o].sym = sym
    <3>1. Of(U) = Of(T) \ {o} /\ o \in Of(T) /\ Of(T) \in SUBSET OrderIds
      BY <1>9, <2>1, <2>9
    <3>2. SumFunctionOnSet(Moved, Of(T)) = Moved[o] + g[U].qty[sym]
      <4>1. SumFunctionOnSet(Moved, Of(T)) = Moved[o] + SumFunctionOnSet(Moved, Of(T) \ {o})
        BY <3>1, Summing
      <4>. QED
        BY <2>5, <3>1, <4>1
    <3>3. CASE orders[o].side = "BUY"
      BY <2>3, <2>6, <2>7, <2>9, <3>2, <3>3, MovedIs
    <3>4. CASE orders[o].side # "BUY"
      <4> DEFINE A == {x \in C : orders[x].at <= orders[o].at}
      <4>1. SumFunctionOnSet(Moved, A) >= 0
        BY <2>6, MovedIs DEF SureAt
      <4>2. A \in SUBSET OrderIds /\ Of(T) \in SUBSET A
        BY <1>6, <1>8, <2>1, <3>1
      <4>3. \A x \in A \ Of(T) : orders[x].filled = 0
        BY <1>6, <1>7, <2>1
      <4>4. A \ Of(T) \in SUBSET OrderIds
        BY <4>2
      <4>5. SumFunctionOnSet(Moved, A \ Of(T)) = 0
        BY <4>3, <4>4, Summing
      <4>6. SumFunctionOnSet(Moved, A) = SumFunctionOnSet(Moved, Of(T)) + SumFunctionOnSet(Moved, A \ Of(T))
        BY <4>2, Summing
      <4>7. SumFunctionOnSet(Moved, Of(T)) \in Int
        BY <3>1, Summing
      <4> HIDE DEF A
      <4>8. SumFunctionOnSet(Moved, Of(T)) >= 0
        BY <4>1, <4>5, <4>6, <4>7
      <4>9. Moved[o] = - orders[o].filled
        BY <2>6, <3>4, MovedIs
      <4>10. g[T].qty[sym] = IF g[U].qty[sym] >= orders[o].filled
                             THEN g[U].qty[sym] - orders[o].filled ELSE 0
        BY <2>7, <2>9, <3>4
      <4> DEFINE before == g[U].qty[sym]
                 after  == g[T].qty[sym]
                 n      == orders[o].filled
                 move   == Moved[o]
                 sum    == SumFunctionOnSet(Moved, Of(T))
      <4>11. /\ before \in Nat /\ n \in Nat /\ sum = move + before /\ sum >= 0 /\ move = - n
             /\ after = IF before >= n THEN before - n ELSE 0
        BY <2>3, <2>6, <3>2, <4>8, <4>9, <4>10
      <4> HIDE DEF before, after, n, move, sum
      <4>12. after = sum
        BY <4>11
      <4>. QED
        BY <4>12 DEF after, sum
    <3>. QED
      BY <3>3, <3>4
  <2>. QED
    BY <2>8, <2>9
<1>14. Good = SUBSET D
  <2>1. Good \in SUBSET SUBSET D
    OBVIOUS
  <2> HIDE DEF Good, D
  <2>. QED
    BY <1>9, <1>12, <1>13, <2>1, SetInduct
<1>15. Rebuilt(s) = g[D]
  BY <1>10 DEF Rebuilt, F
<1>16. g[D].qty[sym] = SumFunctionOnSet(Moved, Of(D))
  BY <1>14
<1>17. SumFunctionOnSet(Moved, Of(D)) = Sure(s, sym)
  <2>1. Of(D) \in SUBSET C /\ C \in SUBSET OrderIds /\ C \ Of(D) \in SUBSET OrderIds
    BY <1>6, <1>8
  <2>2. \A x \in C \ Of(D) : orders[x].filled = 0
    BY <1>6, <1>7
  <2>3. SumFunctionOnSet(Moved, C \ Of(D)) = 0
    BY <2>1, <2>2, Summing
  <2>4. SumFunctionOnSet(Moved, C) = SumFunctionOnSet(Moved, Of(D)) + SumFunctionOnSet(Moved, C \ Of(D))
    BY <2>1, Summing
  <2>5. SumFunctionOnSet(Moved, Of(D)) \in Int
    BY <1>9, Summing
  <2> HIDE DEF Of, C
  <2>6. SumFunctionOnSet(Moved, C) = SumFunctionOnSet(Moved, Of(D))
    BY <2>3, <2>4, <2>5
  <2>. QED
    BY <2>6 DEF Sure, C
<1>18. BookedBy(s, sym) = Sure(s, sym)
  <2> DEFINE m == Moved
             w == Entered
  <2>1. \A x \in C : m[x] \in Int /\ w[x] = m[x]
    <3>1. \A x \in C : w[x] = Signed(orders[x].side, ledger[x].filled)
      BY <1>6 DEF Entered
    <3>2. \A x \in C : m[x] = Signed(orders[x].side, orders[x].filled) /\ m[x] \in Int
      BY <1>6, MovedIs
    <3>. QED
      BY <1>4, <1>6, <3>1, <3>2
  <2>2. IsFiniteSet(C)
    BY <1>6, MovedIs, FS_Subset
  <2> HIDE DEF m, w, C
  <2>3. SumFunctionOnSet(w, C) = SumFunctionOnSet(m, C)
    BY <2>1, <2>2, SumEqual
  <2>. QED
    BY <2>3 DEF BookedBy, Sure, m, w, C
<1>. QED
  BY <1>11, <1>15, <1>16, <1>17, <1>18

-----------------------------------------------------------------------------
(* What a sleeve can come to hold.                                          *)

\* An open order is the only one of its position, and the last.
Alone(s, sym) ==
  \A o \in Mine(s, sym) : orders[o].open =>
    \A p \in Mine(s, sym) \ {o} : ~orders[p].open /\ orders[p].at < orders[o].at

\* At no time were more shares sold than the ledger counts on.
NeverShort(s, sym) == \A t \in Int : SureAt(s, sym, t) >= 0

\* What an open sale can still sell is there, and what an open purchase can still
\* buy has room.
SalesCovered(s, sym) ==
  \A o \in Mine(s, sym) : orders[o].open /\ orders[o].side = "SELL" =>
     orders[o].qty - orders[o].filled <= Sure(s, sym)
Room(s, sym) ==
  /\ HeldBy(s, sym) <= Lot
  /\ \A o \in Mine(s, sym) : orders[o].open /\ orders[o].side = "BUY" =>
       HeldBy(s, sym) + (orders[o].qty - orders[o].filled) <= Lot

Sized(s, sym) == Alone(s, sym) /\ NeverShort(s, sym) /\ SalesCovered(s, sym) /\ Room(s, sym)

\* What a run may go by: unless it knows of an open sale it can sell n, and unless
\* it knows of an open purchase it can buy if n is none.
Judged(s, sym, n, keys) ==
  /\ <<sym, "SELL">> \notin keys =>
       /\ n <= Sure(s, sym)
       /\ \A o \in Mine(s, sym) : orders[o].open => orders[o].side = "BUY"
  /\ <<sym, "BUY">> \notin keys /\ n = 0 =>
       /\ HeldBy(s, sym) = 0
       /\ \A o \in Mine(s, sym) : ~orders[o].open

\* What the order book is made of.
Facts ==
  /\ IsFiniteSet(OrderIds)
  /\ \A o \in OrderIds : /\ Moved[o] = Signed(orders[o].side, orders[o].filled)
                         /\ Moved[o] \in Int
                         /\ orders[o].side = "BUY" => Moved[o] = orders[o].filled
                         /\ orders[o].side # "BUY" => Moved[o] = - orders[o].filled
                         /\ orders[o].filled \in Nat /\ orders[o].qty \in Nat
                         /\ orders[o].at \in Nat /\ orders[o].side \in Sides
                         /\ orders[o].sym \in Symbols /\ Sleeve(o) \in Sleeves
                         /\ orders[o].open \in BOOLEAN

LEMMA FactsHold == Typed => Facts
BY MovedIs DEF Facts

\* A part of the orders as it was.
LEMMA SumStays ==
  ASSUME Typed, Typed', NEW S \in SUBSET OrderIds, \A o \in S : orders'[o] = orders[o]
  PROVE  S \in SUBSET OrderIds' => SumFunctionOnSet(Moved', S) = SumFunctionOnSet(Moved, S)
<1>. SUFFICES ASSUME S \in SUBSET OrderIds'
              PROVE  SumFunctionOnSet(Moved', S) = SumFunctionOnSet(Moved, S)
  OBVIOUS
<1>1. Facts /\ Facts'
  BY FactsHold, PTL
<1> DEFINE m == Moved
           w == Moved'
<1>2. \A o \in S : m[o] \in Int /\ w[o] = m[o]
  <2> SUFFICES ASSUME NEW o \in S PROVE m[o] \in Int /\ w[o] = m[o]
    OBVIOUS
  <2>1. m[o] \in Int /\ m[o] = Signed(orders[o].side, orders[o].filled)
    BY <1>1 DEF Facts
  <2>2. w[o] = Signed(orders'[o].side, orders'[o].filled)
    BY <1>1 DEF Facts, Signed
  <2>. QED
    BY <2>1, <2>2
<1>3. IsFiniteSet(S)
  BY <1>1, FS_Subset DEF Facts
<1> HIDE DEF m, w
<1>4. SumFunctionOnSet(w, S) = SumFunctionOnSet(m, S)
  BY <1>2, <1>3, SumEqual
<1>. QED
  BY <1>4 DEF m, w

\* A position whose orders and rows are as they were.
LEMMA Still ==
  ASSUME Typed, Typed', NEW s, NEW sym, Mine(s, sym)' = Mine(s, sym),
         Counted(s, sym)' = Counted(s, sym), \A o \in Mine(s, sym) : orders'[o] = orders[o]
  PROVE  /\ HeldBy(s, sym)' = HeldBy(s, sym) /\ Sure(s, sym)' = Sure(s, sym)
         /\ \A t \in Int : SureAt(s, sym, t)' = SureAt(s, sym, t)
         /\ Sized(s, sym) => Sized(s, sym)'
<1> DEFINE M == Mine(s, sym)
           C == Counted(s, sym)
<1>1. M \in SUBSET OrderIds /\ M \in SUBSET OrderIds' /\ C \in SUBSET M
  <2>1. M \in SUBSET OrderIds /\ C \in SUBSET M
    BY DEF Mine, Counted
  <2>2. Mine(s, sym)' \in SUBSET OrderIds'
    BY DEF Mine
  <2>. QED
    BY <2>1, <2>2
<1>2. HeldBy(s, sym)' = HeldBy(s, sym)
  BY <1>1, SumStays DEF HeldBy
<1>3. Sure(s, sym)' = Sure(s, sym)
  BY <1>1, SumStays DEF Sure
<1>4. ASSUME NEW t \in Int PROVE SureAt(s, sym, t)' = SureAt(s, sym, t)
  <2> DEFINE A == {o \in C : orders[o].at <= t}
  <2>1. {o \in Counted(s, sym)' : orders'[o].at <= t} = A
    BY <1>1
  <2>2. A \in SUBSET OrderIds /\ A \in SUBSET OrderIds' /\ \A o \in A : orders'[o] = orders[o]
    BY <1>1
  <2> HIDE DEF A
  <2>3. SumFunctionOnSet(Moved', A) = SumFunctionOnSet(Moved, A)
    BY <2>2, SumStays
  <2>. QED
    BY <2>1, <2>3 DEF SureAt, A
<1>5. ASSUME Sized(s, sym) PROVE Sized(s, sym)'
  <2>1. Alone(s, sym)'
    BY <1>5 DEF Sized, Alone
  <2>2. NeverShort(s, sym)'
    BY <1>4, <1>5 DEF Sized, NeverShort
  <2>3. SalesCovered(s, sym)'
    BY <1>3, <1>5 DEF Sized, SalesCovered
  <2>4. Room(s, sym)'
    BY <1>2, <1>5 DEF Sized, Room
  <2>. QED
    BY <2>1, <2>2, <2>3, <2>4 DEF Sized
<1>. QED
  BY <1>2, <1>3, <1>4, <1>5

\* Rows are added, of purchases: the ledger counts on more.
LEMMA SizedMore ==
  ASSUME Typed, Typed', UNCHANGED orders, Tracked \subseteq Tracked', NEW s, NEW sym,
         Sized(s, sym)
  PROVE  Sized(s, sym)'
<1> DEFINE M == Mine(s, sym)
           C == Counted(s, sym)
           D == Counted(s, sym)'
<1>1. Mine(s, sym)' = M /\ OrderIds' = OrderIds /\ Moved' = Moved
  BY DEF Mine, OrderIds, Sleeve, Moved, Signed
<1>2. /\ M \in SUBSET OrderIds /\ C \in SUBSET D /\ D \in SUBSET M
      /\ \A o \in D \ C : orders[o].side = "BUY"
  <2>1. \A o \in M : orders[o].side \in Sides
    BY MovedIs DEF Mine
  <2>. QED
    BY <1>1, <2>1 DEF Mine, Counted, Sides
<1>3. ASSUME NEW A \in SUBSET C, NEW B \in SUBSET D, B \cap C = A
      PROVE  SumFunctionOnSet(Moved, A) <= SumFunctionOnSet(Moved, B)
  <2>1. B \in SUBSET OrderIds /\ A \in SUBSET B /\ B \ A \in SUBSET OrderIds
    BY <1>2, <1>3
  <2>2. \A o \in B \ A : orders[o].side = "BUY"
    BY <1>2, <1>3
  <2>3. SumFunctionOnSet(Moved, B \ A) >= 0 /\ SumFunctionOnSet(Moved, B \ A) \in Int
    BY <2>1, <2>2, Summing
  <2>4. SumFunctionOnSet(Moved, B) = SumFunctionOnSet(Moved, A) + SumFunctionOnSet(Moved, B \ A)
    BY <2>1, Summing
  <2>5. SumFunctionOnSet(Moved, A) \in Int
    BY <2>1, Summing
  <2>. QED
    BY <2>3, <2>4, <2>5
<1>4. Sure(s, sym) <= Sure(s, sym)' /\ Sure(s, sym) \in Int /\ Sure(s, sym)' \in Int
  <2>1. Sure(s, sym) = SumFunctionOnSet(Moved, C) /\ Sure(s, sym)' = SumFunctionOnSet(Moved, D)
    BY <1>1 DEF Sure
  <2>2. C \in SUBSET C /\ D \in SUBSET D /\ D \cap C = C /\ C \in SUBSET OrderIds /\ D \in SUBSET OrderIds
    BY <1>2
  <2> HIDE DEF C, D
  <2>3. SumFunctionOnSet(Moved, C) <= SumFunctionOnSet(Moved, D)
    BY <1>3, <2>2
  <2>. QED
    BY <2>1, <2>2, <2>3, Summing
<1>5. ASSUME NEW t \in Int PROVE SureAt(s, sym, t)' >= 0
  <2> DEFINE A == {o \in C : orders[o].at <= t}
             B == {o \in D : orders[o].at <= t}
  <2>1. SureAt(s, sym, t) = SumFunctionOnSet(Moved, A) /\ SureAt(s, sym, t)' = SumFunctionOnSet(Moved, B)
    BY <1>1 DEF SureAt
  <2>2. A \in SUBSET C /\ B \in SUBSET D /\ B \cap C = A /\ A \in SUBSET OrderIds /\ B \in SUBSET OrderIds
    BY <1>2
  <2>3. SureAt(s, sym, t) >= 0
    BY DEF Sized, NeverShort
  <2> HIDE DEF A, B, C, D
  <2>4. SumFunctionOnSet(Moved, A) <= SumFunctionOnSet(Moved, B)
    BY <1>3, <2>2
  <2>5. SumFunctionOnSet(Moved, A) \in Int /\ SumFunctionOnSet(Moved, B) \in Int
    BY <2>2, Summing
  <2>. QED
    BY <2>1, <2>3, <2>4, <2>5
<1>6. Alone(s, sym)'
  BY <1>1 DEF Sized, Alone
<1>7. SalesCovered(s, sym)'
  <2> SUFFICES ASSUME NEW o \in M, orders[o].open, orders[o].side = "SELL"
               PROVE  orders[o].qty - orders[o].filled <= Sure(s, sym)'
    BY <1>1 DEF SalesCovered
  <2>1. orders[o].qty - orders[o].filled <= Sure(s, sym)
    BY DEF Sized, SalesCovered
  <2>2. orders[o].qty \in Nat /\ orders[o].filled \in Nat
    BY <1>2, MovedIs
  <2>. QED
    BY <1>4, <2>1, <2>2
<1>8. Room(s, sym)'
  <2>1. HeldBy(s, sym)' = HeldBy(s, sym)
    BY <1>1 DEF HeldBy
  <2>. QED
    BY <1>1, <2>1 DEF Sized, Room
<1>. QED
  BY <1>5, <1>6, <1>7, <1>8 DEF Sized, NeverShort

-----------------------------------------------------------------------------

\* One order of a set moves.
LEMMA SumMoves ==
  ASSUME NEW m, NEW w, NEW S, IsFiniteSet(S), NEW o \in S, NEW d \in Int,
         \A x \in S : m[x] \in Int /\ w[x] = IF x = o THEN m[x] + d ELSE m[x]
  PROVE  SumFunctionOnSet(w, S) = SumFunctionOnSet(m, S) + d
<1> DEFINE R == S \ {o}
<1>1. IsFiniteSet(R) /\ \A x \in R : m[x] \in Int /\ w[x] = m[x]
  BY FS_Subset
<1>2. \A x \in S : w[x] \in Int
  OBVIOUS
<1>3. SumFunctionOnSet(m, S) = m[o] + SumFunctionOnSet(m, R)
  BY SumRemove
<1>4. SumFunctionOnSet(w, S) = w[o] + SumFunctionOnSet(w, R)
  BY <1>2, SumRemove
<1> HIDE DEF R
<1>5. SumFunctionOnSet(w, R) = SumFunctionOnSet(m, R)
  BY <1>1, SumEqual
<1>6. SumFunctionOnSet(m, R) \in Int /\ m[o] \in Int /\ w[o] = m[o] + d
  BY <1>1, SumTypes
<1>. QED
  BY <1>3, <1>4, <1>5, <1>6

\* What the broker's work on an open order is: the rest of the order is as it was,
\* and so are the other orders.
LEMMA WorkIs ==
  ASSUME Typed, NEW o \in OrderIds, Fill(o) \/ Expire(o)
  PROVE  /\ OrderIds' = OrderIds /\ UNCHANGED <<ledger, runs, runner>>
         /\ \A p \in OrderIds \ {o} : orders'[p] = orders[p]
         /\ \A p \in OrderIds : /\ orders'[p].run = orders[p].run /\ orders'[p].sym = orders[p].sym
                                /\ orders'[p].side = orders[p].side /\ orders'[p].qty = orders[p].qty
                                /\ (orders'[p].open => orders[p].open)
         /\ orders[o].open /\ orders'[o].at = Now + 1
         /\ orders'[o].filled \in orders[o].filled .. orders[o].qty
         /\ (orders'[o].open => orders'[o].filled < orders[o].qty)
<1>1. orders[o] \in OrderSet /\ Now \in Nat /\ orders[o].filled <= orders[o].qty
  BY OrderTypes, NowIsLast DEF Typed, OrdersTyped
<1>2. UNCHANGED <<ledger, runs, runner>>
  BY DEF Fill, Expire
<1>3. PICK n \in orders[o].filled .. orders[o].qty, open \in BOOLEAN :
         /\ n \in Nat
         /\ orders'[o] = [orders[o] EXCEPT !.filled = n, !.open = open, !.at = Now + 1]
  BY Working
<1>4. /\ orders'[o].run = orders[o].run /\ orders'[o].sym = orders[o].sym
      /\ orders'[o].side = orders[o].side /\ orders'[o].qty = orders[o].qty
      /\ orders'[o].filled = n /\ orders'[o].at = Now + 1
  BY <1>1, <1>3 DEF OrderSet
<1>5. OrderIds' = OrderIds /\ orders[o].open /\ \A p \in OrderIds \ {o} : orders'[p] = orders[p]
  BY Working
<1>6. orders'[o].open => orders'[o].filled < orders[o].qty
  <2>1. CASE Fill(o)
    <3>1. PICK k \in orders[o].filled + 1 .. orders[o].qty :
            orders' = [orders EXCEPT ![o].filled = k, ![o].open = k < orders[o].qty, ![o].at = Now + 1]
      BY <2>1 DEF Fill
    <3>2. orders'[o] = [orders[o] EXCEPT !.filled = k, !.open = k < orders[o].qty, !.at = Now + 1]
      BY <3>1, OrderTypes
    <3>3. orders'[o].filled = k /\ orders'[o].open = (k < orders[o].qty)
      BY <1>1, <3>2 DEF OrderSet
    <3>. QED
      BY <3>3
  <2>2. CASE Expire(o)
    <3>1. orders'[o] = [orders[o] EXCEPT !.open = FALSE, !.at = Now + 1]
      BY <2>2, OrderTypes DEF Expire
    <3>2. orders'[o].open = FALSE
      BY <1>1, <3>1 DEF OrderSet
    <3>. QED
      BY <3>2
  <2>. QED
    BY <2>1, <2>2
<1>. QED
  BY <1>2, <1>3, <1>4, <1>5, <1>6

\* The position of an order that the broker works on.
LEMMA SizedWorked ==
  ASSUME Typed, Typed', NEW o \in OrderIds, Fill(o) \/ Expire(o), NEW s, NEW sym,
         o \in Mine(s, sym), Sized(s, sym)
  PROVE  /\ Sized(s, sym)' /\ Mine(s, sym)' = Mine(s, sym)
         /\ Sure(s, sym)' \in Int /\ Sure(s, sym) \in Int
         /\ orders[o].side = "BUY" => Sure(s, sym) <= Sure(s, sym)'
<1> DEFINE M == Mine(s, sym)
           C == Counted(s, sym)
           n == orders[o].filled
           k == orders'[o].filled
           q == orders[o].qty
           d == IF orders[o].side = "BUY" THEN k - n ELSE n - k
           m == Moved
           w == Moved'
<1>1. Mine(s, sym)' = M /\ Counted(s, sym)' = C
  <2>1. Mine(s, sym)' = M
    BY WorkIs DEF Mine, Sleeve
  <2>2. Tracked' = Tracked /\ M \subseteq OrderIds
    BY WorkIs DEF Tracked, Mine
  <2>. QED
    BY <2>1, <2>2, WorkIs DEF Counted
<1>2. Facts /\ Facts'
  BY FactsHold, PTL
<1>3. /\ M \in SUBSET OrderIds /\ C \in SUBSET M /\ M \in SUBSET OrderIds' /\ IsFiniteSet(M)
      /\ (o \notin C => orders[o].side = "BUY")
  <2>1. M \in SUBSET OrderIds /\ C \in SUBSET M /\ OrderIds' = OrderIds
    BY WorkIs DEF Mine, Counted
  <2>2. o \notin C => orders[o].side = "BUY"
    BY <1>2 DEF Counted, Facts, Sides
  <2>. QED
    BY <1>2, <2>1, <2>2, FS_Subset DEF Facts
<1>4. n \in Nat /\ k \in Nat /\ q \in Nat /\ n <= k /\ k <= q /\ d \in Int /\ orders[o].side \in Sides
  BY <1>2, <1>3, WorkIs DEF Facts
<1>5. \A x \in M : m[x] \in Int /\ w[x] = IF x = o THEN m[x] + d ELSE m[x]
  <2> SUFFICES ASSUME NEW x \in M PROVE m[x] \in Int /\ w[x] = IF x = o THEN m[x] + d ELSE m[x]
    OBVIOUS
  <2>1. m[x] \in Int /\ m[x] = Signed(orders[x].side, orders[x].filled)
    BY <1>2, <1>3 DEF Facts
  <2>2. w[x] = Signed(orders'[x].side, orders'[x].filled)
    BY <1>2, <1>3 DEF Facts, Signed
  <2>3. CASE x # o
    <3>1. orders'[x] = orders[x]
      BY <1>3, <2>3, WorkIs
    <3>. QED
      BY <2>1, <2>2, <2>3, <3>1
  <2>4. CASE x = o
    <3>1. w[x] = Signed(orders[o].side, k) /\ m[x] = Signed(orders[o].side, n)
      BY <2>1, <2>2, <2>4, WorkIs
    <3> HIDE DEF n, k, m, w
    <3>2. w[x] = m[x] + d
      BY <1>4, <3>1 DEF Signed
    <3>. QED
      BY <2>1, <2>4, <3>2
  <2>. QED
    BY <2>3, <2>4
<1>6. HeldBy(s, sym) = SumFunctionOnSet(m, M) /\ HeldBy(s, sym)' = SumFunctionOnSet(w, M)
  BY <1>1 DEF HeldBy
<1>7. Sure(s, sym) = SumFunctionOnSet(m, C) /\ Sure(s, sym)' = SumFunctionOnSet(w, C)
  BY <1>1 DEF Sure
<1> HIDE DEF m, w, d
<1>8. HeldBy(s, sym)' = HeldBy(s, sym) + d /\ HeldBy(s, sym) \in Int
  <2>1. SumFunctionOnSet(w, M) = SumFunctionOnSet(m, M) + d
    BY <1>3, <1>4, <1>5, SumMoves
  <2>2. SumFunctionOnSet(m, M) \in Int
    BY <1>3, <1>5, SumTypes
  <2>. QED
    BY <1>6, <2>1, <2>2
<1>9. IsFiniteSet(C) /\ Sure(s, sym) \in Int
  <2>1. IsFiniteSet(C) /\ \A x \in C : m[x] \in Int
    BY <1>3, <1>5, FS_Subset
  <2>. QED
    BY <1>7, <2>1, SumTypes
<1>10. Sure(s, sym)' = IF o \in C THEN Sure(s, sym) + d ELSE Sure(s, sym)
  <2>1. CASE o \in C
    <3>1. SumFunctionOnSet(w, C) = SumFunctionOnSet(m, C) + d
      BY <1>3, <1>4, <1>5, <1>9, <2>1, SumMoves
    <3>. QED
      BY <1>7, <2>1, <3>1
  <2>2. CASE o \notin C
    <3>1. SumFunctionOnSet(w, C) = SumFunctionOnSet(m, C)
      BY <1>3, <1>5, <1>9, <2>2, SumEqual
    <3>. QED
      BY <1>7, <2>2, <3>1
  <2>. QED
    BY <2>1, <2>2
<1>11. Alone(s, sym) /\ NeverShort(s, sym) /\ SalesCovered(s, sym) /\ Room(s, sym)
  BY DEF Sized
<1>12. \A p \in M \ {o} : /\ ~orders[p].open /\ orders[p].at < orders[o].at
                          /\ orders'[p] = orders[p] /\ orders[p].at \in Nat /\ orders[p].at <= Now
  <2>1. orders[o].open
    BY WorkIs
  <2>. QED
    BY <1>2, <1>3, <1>11, <2>1, WorkIs, NowIsLast DEF Alone, Facts
<1>13. orders'[o].at = Now + 1 /\ Now \in Nat /\ orders[o].at \in Nat /\ orders[o].at <= Now
  BY WorkIs, NowIsLast
<1>14. Sure(s, sym) >= 0
  <2>1. {x \in C : orders[x].at <= Now} = C
    BY <1>3, NowIsLast
  <2>2. SureAt(s, sym, Now) >= 0
    BY <1>11, <1>13 DEF NeverShort
  <2>. QED
    BY <2>1, <2>2 DEF SureAt, Sure
<1>15. Sure(s, sym)' >= 0 /\ (orders[o].side # "BUY" => q - k <= Sure(s, sym)')
  <2>1. CASE orders[o].side = "BUY"
    <3>1. d >= 0
      BY <1>4, <2>1 DEF d
    <3>. QED
      BY <1>4, <1>9, <1>10, <1>14, <2>1, <3>1
  <2>2. CASE orders[o].side # "BUY"
    <3>1. o \in C /\ d = n - k
      BY <1>3, <2>2 DEF d
    <3>2. q - n <= Sure(s, sym)
      <4>1. orders[o].open /\ orders[o].side = "SELL"
        BY <1>4, <2>2, WorkIs DEF Sides
      <4>. QED
        BY <1>11, <4>1 DEF SalesCovered
    <3> HIDE DEF n, k, q, C
    <3>. QED
      BY <1>4, <1>9, <1>10, <2>2, <3>1, <3>2
  <2>. QED
    BY <2>1, <2>2
<1>16. ASSUME NEW t \in Int PROVE SureAt(s, sym, t)' >= 0
  <2> DEFINE B == {x \in C : orders'[x].at <= t}
  <2>1. SureAt(s, sym, t)' = SumFunctionOnSet(w, B)
    BY <1>1 DEF SureAt, w
  <2>2. CASE t >= Now + 1
    <3>1. B = C
      <4>1. \A x \in C : orders'[x].at <= t
        BY <1>3, <1>12, <1>13, <2>2
      <4>. QED
        BY <4>1
    <3>. QED
      BY <1>7, <1>15, <2>1, <3>1
  <2>3. CASE t < Now + 1
    <3> DEFINE u == IF t < orders[o].at THEN t ELSE orders[o].at - 1
               A == {x \in C : orders[x].at <= u}
    <3>1. u \in Int
      BY <1>13
    <3>2. \A x \in C : orders'[x].at <= t <=> orders[x].at <= u
      <4> SUFFICES ASSUME NEW x \in C PROVE orders'[x].at <= t <=> orders[x].at <= u
        OBVIOUS
      <4>1. CASE x = o
        BY <1>13, <2>3, <4>1
      <4>2. CASE x # o
        <5>1. orders'[x].at = orders[x].at /\ orders[x].at < orders[o].at /\ orders[x].at \in Nat
          BY <1>3, <1>12, <4>2
        <5>. QED
          BY <1>13, <5>1
      <4>. QED
        BY <4>1, <4>2
    <3>3. B = A
      BY <3>2
    <3>4. o \notin A
      BY <1>13
    <3>5. SumFunctionOnSet(w, A) = SumFunctionOnSet(m, A)
      <4>1. IsFiniteSet(A) /\ \A x \in A : x \in M /\ x # o
        BY <1>3, <1>9, <3>4, FS_Subset
      <4>2. IsFiniteSet(A) /\ \A x \in A : m[x] \in Int /\ w[x] = m[x]
        BY <1>5, <4>1
      <4> HIDE DEF A
      <4>. QED
        BY <4>2, SumEqual
    <3>6. SureAt(s, sym, u) = SumFunctionOnSet(m, A) /\ SureAt(s, sym, u) >= 0
      <4>1. SureAt(s, sym, u) >= 0
        BY <1>11, <3>1 DEF NeverShort
      <4>. QED
        BY <4>1 DEF SureAt, m
    <3>. QED
      BY <2>1, <3>3, <3>5, <3>6
  <2>. QED
    BY <1>13, <2>2, <2>3
<1>17. Alone(s, sym)'
  <2>1. \A p \in M \ {o} : ~orders'[p].open /\ orders'[p].at < orders'[o].at
    BY <1>12, <1>13
  <2>. QED
    BY <1>1, <2>1 DEF Alone
<1>18. SalesCovered(s, sym)'
  <2>1. \A p \in M : orders'[p].open => p = o
    BY <1>12
  <2>2. orders'[o].side = orders[o].side /\ orders'[o].qty = q
    BY WorkIs
  <2>. QED
    BY <1>1, <1>15, <2>1, <2>2 DEF SalesCovered
<1>19. Room(s, sym)'
  <2>1. \A p \in M : orders'[p].open => p = o
    BY <1>12
  <2>2. orders'[o].side = orders[o].side /\ orders'[o].qty = q /\ orders[o].open
    BY WorkIs
  <2>3. HeldBy(s, sym) <= Lot /\ (orders[o].side = "BUY" => HeldBy(s, sym) + (q - n) <= Lot)
    BY <1>11, <2>2 DEF Room
  <2>4. /\ HeldBy(s, sym)' <= Lot
        /\ orders[o].side = "BUY" => HeldBy(s, sym)' + (q - k) <= Lot
    <3> HIDE DEF n, k, q
    <3>. QED
      BY <1>4, <1>8, <2>3, PaperAssumption DEF d
  <2>. QED
    BY <1>1, <2>1, <2>2, <2>4 DEF Room
<1>20. orders[o].side = "BUY" => Sure(s, sym) <= Sure(s, sym)' /\ Sure(s, sym)' \in Int
  <2>1. orders[o].side = "BUY" => d >= 0
    BY <1>4 DEF d
  <2>. QED
    BY <1>4, <1>9, <1>10, <2>1
<1>. QED
  BY <1>1, <1>4, <1>9, <1>10, <1>16, <1>17, <1>18, <1>19, <1>20 DEF Sized, NeverShort

-----------------------------------------------------------------------------

\* What an accepted order is: the others stay.
LEMMA NewIs ==
  ASSUME Typed, Typed', NEW r \in Runners, NEW e \in Symbols \X Sides, Asks(r, e),
         NEW filled \in {0, Quantity(r, e)}, orders' = Accepted(r, e, filled), UNCHANGED ledger,
         NEW k, k = Len(orders) + 1
  PROVE  /\ OrderIds' = OrderIds \cup {k} /\ k \notin OrderIds /\ Tracked' = Tracked
         /\ k \notin Tracked
         /\ \A o \in OrderIds : orders'[o] = orders[o]
         /\ orders'[k].sym = e[1] /\ orders'[k].side = e[2] /\ orders'[k].run.sleeve = MySleeve(r)
         /\ orders'[k].qty = Quantity(r, e) /\ orders'[k].filled = filled
         /\ (orders'[k].open => filled < Quantity(r, e)) /\ orders'[k].at = Now + 1
         /\ Quantity(r, e) \in Nat \ {0} /\ filled \in 0 .. Quantity(r, e)
<1>1. OrderIds' = OrderIds \cup {k} /\ k \notin OrderIds /\ Tracked' = Tracked
  BY AcceptingKeeps DEF Tracked
<1>2. k \notin Tracked
  BY <1>1 DEF Typed, LedgerTyped
<1> DEFINE new == orders'[Len(orders) + 1]
<1>3. /\ \A o \in OrderIds : orders'[o] = orders[o]
      /\ new.sym = e[1] /\ new.side = e[2] /\ new.run.sleeve = MySleeve(r)
      /\ new.qty = Quantity(r, e) /\ new.filled = filled
      /\ new.open = (filled < Quantity(r, e)) /\ new.at = Now + 1
      /\ filled \in 0 .. Quantity(r, e) /\ Quantity(r, e) \in Nat \ {0}
  BY Accepting
<1>4. new = orders'[k]
  OBVIOUS
<1> HIDE DEF new
<1>. QED
  BY <1>1, <1>2, <1>3, <1>4

LEMMA NewElsewhere ==
  ASSUME Typed, Typed', NEW r \in Runners, NEW e \in Symbols \X Sides, Asks(r, e),
         NEW filled \in {0, Quantity(r, e)}, orders' = Accepted(r, e, filled), UNCHANGED ledger,
         NEW s, NEW sym, s # MySleeve(r) \/ sym # e[1]
  PROVE  /\ Mine(s, sym)' = Mine(s, sym) /\ Counted(s, sym)' = Counted(s, sym)
         /\ \A o \in Mine(s, sym) : orders'[o] = orders[o]
<1>1. PICK k : k = Len(orders) + 1
  OBVIOUS
<1>2. Mine(s, sym)' = Mine(s, sym)
  BY <1>1, NewIs DEF Mine, Sleeve
<1>3. Mine(s, sym) \subseteq OrderIds /\ Tracked' = Tracked
  BY <1>1, NewIs DEF Mine
<1>4. \A o \in Mine(s, sym) : orders'[o] = orders[o]
  BY <1>1, <1>3, NewIs
<1>. QED
  BY <1>2, <1>3, <1>4 DEF Counted

LEMMA SizedNew ==
  ASSUME Typed, Typed', NEW r \in Runners, NEW e \in Symbols \X Sides, Asks(r, e),
         NEW filled \in {0, Quantity(r, e)}, orders' = Accepted(r, e, filled), UNCHANGED ledger,
         NEW s, s = MySleeve(r), NEW sym, sym = e[1], Sized(s, sym),
         \A o \in Mine(s, sym) : ~orders[o].open,
         e[2] = "SELL" => Quantity(r, e) <= Sure(s, sym),
         e[2] = "BUY" => HeldBy(s, sym) = 0 /\ Quantity(r, e) <= Lot
  PROVE  Sized(s, sym)'
<1>1. PICK k : k = Len(orders) + 1
  OBVIOUS
<1> DEFINE M == Mine(s, sym)
           N == Mine(s, sym)'
           C == Counted(s, sym)
           D == Counted(s, sym)'
           q == Quantity(r, e)
           m == Moved
           w == Moved'
<1>2. Facts /\ Facts'
  BY FactsHold, PTL
<1>3. /\ M \in SUBSET OrderIds /\ C \in SUBSET M /\ M \in SUBSET OrderIds' /\ k \in OrderIds'
      /\ k \notin M /\ k \notin C /\ \A o \in M : orders'[o] = orders[o]
  <2>1. M \in SUBSET OrderIds /\ C \in SUBSET M
    BY DEF Mine, Counted
  <2>. QED
    BY <1>1, <2>1, NewIs
<1>4. N = M \cup {k}
  BY <1>1, NewIs DEF Mine, Sleeve
<1>5. D = IF e[2] = "SELL" THEN C \cup {k} ELSE C
  <2>1. \A o \in M : o \in D <=> o \in C
    BY <1>1, <1>3, <1>4, NewIs DEF Counted
  <2>2. k \in D <=> e[2] = "SELL"
    BY <1>1, <1>4, NewIs DEF Counted
  <2>3. D \subseteq N
    BY DEF Counted
  <2> HIDE DEF M, N, C, D
  <2>4. e[2] = "SELL" => D = C \cup {k}
    BY <1>3, <1>4, <2>1, <2>2, <2>3
  <2>5. e[2] # "SELL" => D = C
    BY <1>3, <1>4, <2>1, <2>2, <2>3
  <2>. QED
    BY <2>4, <2>5
<1>6. filled \in Nat /\ q \in Nat /\ filled <= q /\ e[2] \in Sides /\ Now \in Nat
      /\ orders'[k].at = Now + 1 /\ orders'[k].side = e[2] /\ orders'[k].qty = q
      /\ orders'[k].filled = filled
      /\ (orders'[k].open => filled = 0)
  <2>1. filled \in Nat /\ q \in Nat /\ filled <= q /\ (orders'[k].open => filled < q)
    BY <1>1, NewIs
  <2>2. filled \in {0, q}
    OBVIOUS
  <2>3. e[2] \in Sides /\ Now \in Nat
    BY NowIsLast
  <2>4. /\ orders'[k].at = Now + 1 /\ orders'[k].side = e[2] /\ orders'[k].qty = q
        /\ orders'[k].filled = filled
    BY <1>1, NewIs
  <2> HIDE DEF q
  <2>. QED
    BY <2>1, <2>2, <2>3, <2>4
<1>7. w[k] = IF e[2] = "SELL" THEN - filled ELSE filled
  BY <1>2, <1>3, <1>6 DEF Facts, Sides
<1>8. ASSUME NEW S \in SUBSET M
      PROVE  /\ SumFunctionOnSet(w, S) = SumFunctionOnSet(m, S) /\ SumFunctionOnSet(m, S) \in Int
             /\ SumFunctionOnSet(w, S \cup {k}) = w[k] + SumFunctionOnSet(m, S)
  <2>1. SumFunctionOnSet(w, S) = SumFunctionOnSet(m, S)
    BY <1>3, SumStays
  <2>2. SumFunctionOnSet(m, S) \in Int
    BY <1>3, Summing
  <2>3. (S \cup {k}) \in SUBSET OrderIds' /\ (S \cup {k}) \ {k} = S
    BY <1>3
  <2> DEFINE T == S \cup {k}
  <2>4. IsFiniteSet(T) /\ \A x \in T : w[x] \in Int
    <3>1. IsFiniteSet(OrderIds') /\ \A x \in OrderIds' : w[x] \in Int
      BY <1>2 DEF Facts
    <3>. QED
      BY <2>3, <3>1, FS_Subset
  <2>5. k \in T
    OBVIOUS
  <2> HIDE DEF T, w
  <2>6. SumFunctionOnSet(w, T) = w[k] + SumFunctionOnSet(w, T \ {k})
    BY <2>4, <2>5, SumRemove
  <2>. QED
    BY <2>1, <2>2, <2>3, <2>6 DEF T
<1>9. HeldBy(s, sym)' = w[k] + HeldBy(s, sym) /\ HeldBy(s, sym) \in Int
  BY <1>4, <1>8 DEF HeldBy
<1>10. Sure(s, sym)' = (IF e[2] = "SELL" THEN Sure(s, sym) - filled ELSE Sure(s, sym))
       /\ Sure(s, sym) \in Int
  <2>1. /\ SumFunctionOnSet(w, C) = SumFunctionOnSet(m, C) /\ SumFunctionOnSet(m, C) \in Int
        /\ SumFunctionOnSet(w, C \cup {k}) = w[k] + SumFunctionOnSet(m, C)
    BY <1>3, <1>8
  <2>2. Sure(s, sym) = SumFunctionOnSet(m, C) /\ Sure(s, sym)' = SumFunctionOnSet(w, D)
    BY DEF Sure
  <2> HIDE DEF m, w, C, D
  <2>. QED
    BY <1>5, <1>6, <1>7, <2>1, <2>2
<1>11. Alone(s, sym) /\ NeverShort(s, sym) /\ Room(s, sym)
  BY DEF Sized
<1>12. \A o \in M : orders[o].at \in Nat /\ orders[o].at <= Now
  BY <1>3, NowIsLast
<1>13. Sure(s, sym) >= 0
  <2>1. {x \in C : orders[x].at <= Now} = C
    BY <1>3, <1>12
  <2>2. SureAt(s, sym, Now) >= 0
    BY <1>6, <1>11 DEF NeverShort
  <2>. QED
    BY <2>1, <2>2 DEF SureAt, Sure
<1>14. Sure(s, sym)' >= 0
  BY <1>6, <1>10, <1>13
<1>15. ASSUME NEW t \in Int PROVE SureAt(s, sym, t)' >= 0
  <2> DEFINE B == {x \in D : orders'[x].at <= t}
             A == {x \in C : orders[x].at <= t}
  <2>1. SureAt(s, sym, t)' = SumFunctionOnSet(w, B) /\ SureAt(s, sym, t) = SumFunctionOnSet(m, A)
    BY DEF SureAt
  <2>2. CASE t >= Now + 1
    <3>1. B = D
      <4>1. \A x \in D : orders'[x].at <= t
        <5>1. \A x \in M : orders'[x].at <= t
          BY <1>3, <1>6, <1>12, <2>2
        <5>. QED
          BY <1>3, <1>5, <1>6, <2>2, <5>1
      <4>. QED
        BY <4>1
    <3>2. Sure(s, sym)' = SumFunctionOnSet(w, D)
      BY DEF Sure
    <3>. QED
      BY <1>14, <2>1, <3>1, <3>2
  <2>3. CASE t < Now + 1
    <3>1. B = A
      <4>1. ~ (orders'[k].at <= t)
        BY <1>6, <2>3
      <4>2. \A x \in C : orders'[x] = orders[x]
        BY <1>3
      <4>. QED
        BY <1>5, <4>1, <4>2
    <3>2. A \in SUBSET M
      BY <1>3
    <3>3. SureAt(s, sym, t) >= 0
      BY <1>11 DEF NeverShort
    <3>. QED
      BY <1>8, <2>1, <3>1, <3>2, <3>3
  <2>. QED
    BY <1>6, <2>2, <2>3
<1>16. \A o \in M : ~orders'[o].open
  BY <1>3
<1>17. Alone(s, sym)'
  <2>1. \A p \in M : orders'[p].at < orders'[k].at
    BY <1>3, <1>6, <1>12
  <2>. QED
    BY <1>4, <1>16, <2>1 DEF Alone
<1>18. SalesCovered(s, sym)'
  <2> SUFFICES ASSUME orders'[k].open, e[2] = "SELL" PROVE q - filled <= Sure(s, sym)'
    BY <1>4, <1>6, <1>16 DEF SalesCovered
  <2> HIDE DEF q
  <2>. QED
    BY <1>6, <1>10 DEF q
<1>19. Room(s, sym)'
  <2>1. HeldBy(s, sym) <= Lot
    BY <1>11 DEF Room
  <2>2. HeldBy(s, sym)' <= Lot /\ (e[2] = "BUY" => HeldBy(s, sym)' + (q - filled) <= Lot)
    BY <1>6, <1>7, <1>9, <2>1, PaperAssumption DEF Sides
  <2>. QED
    BY <1>4, <1>6, <1>16, <2>2 DEF Room
<1>. QED
  BY <1>15, <1>17, <1>18, <1>19 DEF Sized, NeverShort

LEMMA MinOfTwo ==
  ASSUME NEW m \in Int, NEW n \in Int
  PROVE  Min({m, n}) = IF m <= n THEN m ELSE n
<1> DEFINE S == {m, n}
           low == IF m <= n THEN m ELSE n
<1>1. low \in S /\ \A y \in S : low <= y
  OBVIOUS
<1>2. Min(S) \in S /\ \A y \in S : Min(S) <= y
  BY <1>1 DEF Min
<1>3. Min(S) = low
  BY <1>1, <1>2
<1>. QED
  BY <1>3

\* A run asks for what its book says: for what it holds, or for a lot of what it
\* does not hold, and for nothing it knows an open order of.
LEMMA AskedFor ==
  ASSUME NEW r \in Runners, NEW e \in Symbols \X Sides, Asks(r, e), runner[r].book \in BookSet
  PROVE  /\ e \notin runner[r].open
         /\ e[2] = "SELL" => Quantity(r, e) = runner[r].book.qty[e[1]]
         /\ e[2] = "BUY" => runner[r].book.qty[e[1]] = 0 /\ Quantity(r, e) <= Lot
<1> DEFINE book == runner[r].book
<1>1. Quantity(r, e) \in Nat \ {0} /\ e[1] \in Symbols /\ e[2] \in Sides
  BY DEF Asks
<1>2. book.cash \in Int /\ book.qty[e[1]] \in Nat
  BY <1>1 DEF BookSet
<1>3. e \notin runner[r].open
  <2>1. e \in runner[r].open => Quantity(r, e) = 0
    BY DEF Quantity
  <2>. QED
    BY <1>1, <2>1
<1>4. e[2] = "SELL" => Quantity(r, e) = book.qty[e[1]]
  BY <1>3 DEF Quantity
<1>5. ASSUME e[2] = "BUY" PROVE book.qty[e[1]] = 0 /\ Quantity(r, e) <= Lot
  <2>1. /\ e[1] \notin Positions(book) /\ Quantity(r, e) = Min({Lot, Max({book.cash, 0})})
    BY <1>1, <1>3, <1>5 DEF Quantity
  <2>2. book.qty[e[1]] = 0
    BY <1>1, <1>2, <2>1 DEF Positions
  <2>3. Max({book.cash, 0}) \in Int
    BY <1>2, MaxOfTwo
  <2>4. Quantity(r, e) <= Lot
    <3> DEFINE spare == Max({book.cash, 0})
    <3>1. spare \in Int /\ Lot \in Int /\ Quantity(r, e) = Min({Lot, spare})
      BY <2>1, <2>3, PaperAssumption
    <3> HIDE DEF spare
    <3>2. Min({Lot, spare}) <= Lot
      BY <3>1, MinOfTwo
    <3>. QED
      BY <3>1, <3>2
  <2>. QED
    BY <2>2, <2>4
<1>. QED
  BY <1>3, <1>4, <1>5

-----------------------------------------------------------------------------
(* What a run knows.                                                        *)

KeysOf(os) == {<<orders[o].sym, orders[o].side>> : o \in os}

\* The sleeve as it would be rebuilt now, and as the run has it in memory.
Considered(r, s, sym) == Judged(s, sym, Rebuilt(s).qty[sym], KeysOf(runner[r].open))
Decided(r, s, sym)    == Judged(s, sym, runner[r].book.qty[sym], runner[r].open)

Planned(r, sym) == \E side \in Sides : <<sym, side>> \in runner[r].todo

Picks(r) ==
  /\ runner[r].book \in BookSet
  /\ \A sym \in Symbols : \A x, y \in Sides :
       <<sym, x>> \in runner[r].todo /\ <<sym, y>> \in runner[r].todo => x = y

Waiting(r, o) ==
  DOMAIN runner[r].seen = {o} /\ <<orders[o].sym, orders[o].side>> \in runner[r].todo

Informed(r, s) ==
  /\ At(r, "synced") => runner[r].seen = [o \in NeedsSync(s) |-> Answer(o)]
  /\ runner[r].pc \in {"positions", "orders"} => Read(s)
  /\ At(r, "orders") => runner[r].positions = [sym \in Symbols |-> Held(sym)]
  /\ runner[r].pc \in {"check", "evaluate"} => runner[r].open \subseteq OrderIds
  /\ (At(r, "check") /\ ~Blocked(r)) \/ At(r, "evaluate") =>
       \A sym \in Symbols : Considered(r, s, sym)
  /\ runner[r].pc \in {"trade", "answered"} => Picks(r)
  /\ At(r, "trade") => \A sym \in Symbols : Planned(r, sym) => Decided(r, s, sym)
  /\ At(r, "answered") =>
       \E o \in OrderIds : /\ Waiting(r, o)
                           /\ \A sym \in Symbols \ {orders[o].sym} :
                                Planned(r, sym) => Decided(r, s, sym)

Quiet    == ~Overlap /\ ~LostSale /\ ~Masked
Unfilled == \A o \in OrderIds : orders[o].open => orders[o].filled < orders[o].qty

LotInv ==
  /\ Stamps /\ Unfilled
  /\ calm => /\ Quiet
             /\ \A s \in Sleeves, sym \in Symbols : Sized(s, sym)
             /\ \A r \in Runners, s \in Sleeves :
                  Busy(r) /\ MySleeve(r) = s => Informed(r, s)

\* What the ledger and the unchanging part of the orders determine.
Labelled == /\ UNCHANGED ledger /\ OrderIds \subseteq OrderIds'
            /\ \A o \in OrderIds : /\ orders'[o].run = orders[o].run
                                   /\ orders'[o].sym = orders[o].sym
                                   /\ orders'[o].side = orders[o].side

LEMMA RebuiltStays ==
  ASSUME Typed, Labelled
  PROVE  /\ \A s \in Sleeves : Rebuilt(s)' = Rebuilt(s)
         /\ \A sym \in Symbols : Booked(sym)' = Booked(sym)
         /\ \A os \in SUBSET OrderIds : KeysOf(os)' = KeysOf(os)
<1>1. Tracked' = Tracked /\ Tracked \subseteq OrderIds
  BY DEF Labelled, Tracked, Typed, LedgerTyped
<1>2. ASSUME NEW s \in Sleeves PROVE Rebuilt(s)' = Rebuilt(s)
  <2>1. \A o \in Tracked : /\ Sleeve(o)' = Sleeve(o) /\ ledger'[o] = ledger[o]
                           /\ orders'[o].sym = orders[o].sym /\ orders'[o].side = orders[o].side
    BY <1>1 DEF Labelled, Sleeve
  <2> DEFINE D == {o \in Tracked : Sleeve(o) = s /\ ledger[o].filled > 0}
  <2>2. {o \in Tracked' : Sleeve(o)' = s /\ ledger'[o].filled > 0} = D
    BY <1>1, <2>1
  <2>3. \A o \in D : o \in Tracked
    OBVIOUS
  <2>4. Fills(s)' = [o \in D |-> [sym |-> orders'[o].sym, side |-> orders'[o].side,
                                  n |-> ledger'[o].filled, at |-> ledger'[o].at]]
    BY <2>2 DEF Fills
  <2>5. Fills(s) = [o \in D |-> [sym |-> orders[o].sym, side |-> orders[o].side,
                                 n |-> ledger[o].filled, at |-> ledger[o].at]]
    BY DEF Fills
  <2> HIDE DEF D
  <2>6. Fills(s)' = Fills(s)
    BY <2>1, <2>3, <2>4, <2>5
  <2>. QED
    BY <2>6 DEF Rebuilt
<1>3. ASSUME NEW sym \in Symbols PROVE Booked(sym)' = Booked(sym)
  <2>1. Entered' = Entered
    BY <1>1 DEF Entered, Signed, Labelled
  <2>2. {o \in Tracked' : orders'[o].sym = sym} = {o \in Tracked : orders[o].sym = sym}
    BY <1>1 DEF Labelled
  <2>. QED
    BY <2>1, <2>2 DEF Booked
<1>4. ASSUME NEW os \in SUBSET OrderIds PROVE KeysOf(os)' = KeysOf(os)
  BY DEF KeysOf, Labelled
<1>. QED
  BY <1>2, <1>3, <1>4

\* What was judged of a position still holds.
Lasting(s, sym) == \A n \in Int : \A keys : Judged(s, sym, n, keys) =>
  /\ <<sym, "SELL">> \notin keys =>
       /\ n <= Sure(s, sym)'
       /\ \A o \in Mine(s, sym)' : orders'[o].open => orders'[o].side = "BUY"
  /\ <<sym, "BUY">> \notin keys /\ n = 0 =>
       /\ HeldBy(s, sym)' = 0
       /\ \A o \in Mine(s, sym)' : ~orders'[o].open

LEMMA StillLasts ==
  ASSUME Typed, Typed', NEW s, NEW sym, Mine(s, sym)' = Mine(s, sym),
         Counted(s, sym)' = Counted(s, sym), \A o \in Mine(s, sym) : orders'[o] = orders[o]
  PROVE  Lasting(s, sym)
<1>1. HeldBy(s, sym)' = HeldBy(s, sym) /\ Sure(s, sym)' = Sure(s, sym)
  BY Still
<1>. QED
  BY <1>1 DEF Lasting, Judged

\* A known open sale or purchase may fill: nothing was judged of what it changes.
LEMMA WorkedLasts ==
  ASSUME Typed, Typed', NEW o \in OrderIds, Fill(o) \/ Expire(o), NEW s, NEW sym,
         o \in Mine(s, sym), Sized(s, sym)
  PROVE  Lasting(s, sym)
<1> SUFFICES ASSUME NEW n \in Int, NEW keys, Judged(s, sym, n, keys)
             PROVE  /\ <<sym, "SELL">> \notin keys =>
                         /\ n <= Sure(s, sym)'
                         /\ \A p \in Mine(s, sym)' : orders'[p].open => orders'[p].side = "BUY"
                    /\ ~ (<<sym, "BUY">> \notin keys /\ n = 0)
  BY DEF Lasting
<1>1. orders[o].open /\ Mine(s, sym) \subseteq OrderIds
  BY WorkIs DEF Mine
<1>2. Mine(s, sym)' = Mine(s, sym) /\ Sure(s, sym) \in Int /\ Sure(s, sym)' \in Int
      /\ (orders[o].side = "BUY" => Sure(s, sym) <= Sure(s, sym)')
  BY SizedWorked
<1>3. ~ (<<sym, "BUY">> \notin keys /\ n = 0)
  BY <1>1 DEF Judged
<1>4. ASSUME <<sym, "SELL">> \notin keys
      PROVE  /\ n <= Sure(s, sym)'
             /\ \A p \in Mine(s, sym)' : orders'[p].open => orders'[p].side = "BUY"
  <2>1. n <= Sure(s, sym) /\ \A p \in Mine(s, sym) : orders[p].open => orders[p].side = "BUY"
    BY <1>4 DEF Judged
  <2>2. n <= Sure(s, sym)'
    BY <1>1, <1>2, <2>1
  <2>3. \A p \in Mine(s, sym) : orders'[p].open => orders[p].open /\ orders'[p].side = orders[p].side
    BY <1>1, WorkIs
  <2>. QED
    BY <1>2, <2>1, <2>2, <2>3
<1>. QED
  BY <1>3, <1>4

-----------------------------------------------------------------------------

LEMMA RebuiltIsBook ==
  ASSUME Typed, NEW s \in Sleeves
  PROVE  Rebuilt(s) \in BookSet
<1> DEFINE F == Fills(s)
           D == DOMAIN F
<1>1. Tracked \subseteq OrderIds /\ \A o \in Tracked : ledger[o] \in AnswerSet
  BY DEF Typed, LedgerTyped
<1>2. D = {o \in Tracked : Sleeve(o) = s /\ ledger[o].filled > 0}
  BY DEF Fills
<1>3. \A o \in D : F[o] = [sym |-> orders[o].sym, side |-> orders[o].side,
                           n |-> ledger[o].filled, at |-> ledger[o].at]
  BY DEF Fills
<1> HIDE DEF F
<1>4. \A o \in D : F[o] \in FillSet
  <2>1. \A o \in D : o \in OrderIds /\ ledger[o] \in AnswerSet
    BY <1>1, <1>2
  <2>. QED
    BY <1>3, <2>1, MovedIs DEF FillSet, AnswerSet
<1>5. IsFiniteSet(D)
  <2>1. D \in SUBSET OrderIds
    BY <1>1, <1>2
  <2>. QED
    BY <2>1, MovedIs, FS_Subset
<1>6. PICK g : Books(g, F, D) /\ Replayed(F) = g[D]
  BY <1>4, <1>5, Replaying
<1>7. g[D] \in BookSet
  BY <1>6 DEF Books
<1>. QED
  BY <1>6, <1>7 DEF Rebuilt, F

LEMMA Again ==
  ASSUME NEW s, NEW sym, Lasting(s, sym), NEW n \in Int, NEW keys, Judged(s, sym, n, keys)
  PROVE  Judged(s, sym, n, keys)'
BY DEF Lasting, Judged

\* A thread that does not move goes on knowing what it knows, whatever orders that
\* it has read about do.
LEMMA InformedCarried ==
  ASSUME Typed, NEW r \in Runners, NEW s \in Sleeves, Informed(r, s), UNCHANGED runner[r],
         Labelled, \A sym \in Symbols : Lasting(s, sym),
         runner[r].pc \notin {"synced", "positions", "orders"}
  PROVE  Informed(r, s)'
<1>1. PICK os, book, keys : os = runner[r].open /\ book = runner[r].book /\ keys = KeysOf(os)
  OBVIOUS
<1>2. Blocked(r) => Blocked(r)'
  <2>1. Tracked' = Tracked
    BY DEF Labelled, Tracked
  <2>. QED
    BY <2>1, RebuiltStays DEF Blocked
<1>3. ASSUME NEW sym \in Symbols, Considered(r, s, sym), os \subseteq OrderIds
      PROVE  Considered(r, s, sym)'
  <2>1. Rebuilt(s)' = Rebuilt(s) /\ KeysOf(os)' = keys /\ KeysOf(os) = keys
    BY <1>1, <1>3, RebuiltStays
  <2>2. PICK n : n = Rebuilt(s).qty[sym]
    OBVIOUS
  <2>3. n \in Int
    BY <2>2, RebuiltIsBook DEF BookSet
  <2>4. Judged(s, sym, n, keys)
    BY <1>1, <1>3, <2>1, <2>2 DEF Considered
  <2>5. Judged(s, sym, n, keys)'
    BY <2>3, <2>4, Again
  <2>6. {<<orders'[o].sym, orders'[o].side>> : o \in runner'[r].open} = keys
    BY <1>1, <2>1 DEF KeysOf
  <2>. QED
    BY <2>1, <2>2, <2>5, <2>6 DEF Considered, Judged, KeysOf
<1>4. ASSUME NEW sym \in Symbols, Decided(r, s, sym), Picks(r)
      PROVE  Decided(r, s, sym)'
  <2>1. PICK n : n = book.qty[sym]
    OBVIOUS
  <2>2. n \in Int
    BY <1>1, <1>4, <2>1 DEF Picks, BookSet
  <2>3. Judged(s, sym, n, os)
    BY <1>1, <1>4, <2>1 DEF Decided
  <2>4. Judged(s, sym, n, os)'
    BY <2>2, <2>3, Again
  <2>. QED
    BY <1>1, <2>1, <2>4 DEF Decided, Judged
<1>5. /\ Picks(r)' <=> Picks(r)
      /\ \A sym : Planned(r, sym)' <=> Planned(r, sym)
      /\ \A o \in OrderIds : Waiting(r, o) => Waiting(r, o)' /\ orders'[o].sym = orders[o].sym
  BY DEF Picks, Planned, Waiting, Labelled
<1>6. OrderIds \subseteq OrderIds'
  BY DEF Labelled
<1>7. (At(r, "check") /\ ~Blocked(r)') \/ At(r, "evaluate") =>
        \A sym \in Symbols : Considered(r, s, sym)'
  <2> SUFFICES ASSUME (At(r, "check") /\ ~Blocked(r)') \/ At(r, "evaluate"), NEW sym \in Symbols
               PROVE  Considered(r, s, sym)'
    OBVIOUS
  <2>1. (At(r, "check") /\ ~Blocked(r)) \/ At(r, "evaluate")
    BY <1>2
  <2>2. os \subseteq OrderIds
    BY <1>1, <2>1 DEF Informed, At
  <2>3. Considered(r, s, sym)
    BY <2>1 DEF Informed
  <2>. QED
    BY <1>3, <2>2, <2>3
<1>8. At(r, "trade") => \A sym \in Symbols : Planned(r, sym)' => Decided(r, s, sym)'
  BY <1>4, <1>5 DEF Informed, At
<1>9. At(r, "answered") =>
       \E o \in OrderIds' : /\ Waiting(r, o)'
                            /\ \A sym \in Symbols \ {orders'[o].sym} :
                                 Planned(r, sym)' => Decided(r, s, sym)'
  <2> SUFFICES ASSUME At(r, "answered")
               PROVE  \E o \in OrderIds' : /\ Waiting(r, o)'
                                           /\ \A sym \in Symbols \ {orders'[o].sym} :
                                                Planned(r, sym)' => Decided(r, s, sym)'
    OBVIOUS
  <2>1. PICK o \in OrderIds : /\ Waiting(r, o)
                              /\ \A sym \in Symbols \ {orders[o].sym} :
                                   Planned(r, sym) => Decided(r, s, sym)
    BY DEF Informed
  <2>2. Picks(r)
    BY DEF Informed, At
  <2>. QED
    BY <1>4, <1>5, <1>6, <2>1, <2>2
<1>10. runner'[r].pc \in {"check", "evaluate"} => runner'[r].open \subseteq OrderIds'
  BY <1>6 DEF Informed
<1>11. runner'[r].pc \in {"trade", "answered"} => Picks(r)'
  BY <1>5 DEF Informed
<1>. QED
  BY <1>7, <1>8, <1>9, <1>10, <1>11 DEF Informed, At

\* Neither the broker nor the ledger moves.
LEMMA InformedSame ==
  ASSUME Typed, Typed', NEW r \in Runners, NEW s \in Sleeves, Informed(r, s), UNCHANGED runner[r],
         UNCHANGED <<orders, ledger>>
  PROVE  Informed(r, s)'
<1>1. /\ OrderIds' = OrderIds /\ Tracked' = Tracked /\ Moved' = Moved
      /\ \A o \in OrderIds : Sleeve(o)' = Sleeve(o)
  BY DEF OrderIds, Tracked, Moved, Signed, Sleeve
<1>2. CASE runner[r].pc \notin {"synced", "positions", "orders"}
  <2>1. \A sym \in Symbols : Lasting(s, sym)
    <3> SUFFICES ASSUME NEW sym \in Symbols PROVE Lasting(s, sym)
      OBVIOUS
    <3>1. Mine(s, sym)' = Mine(s, sym)
      BY <1>1 DEF Mine
    <3>2. Counted(s, sym)' = Counted(s, sym)
      BY <1>1, <3>1 DEF Counted
    <3>. QED
      BY <3>1, <3>2, StillLasts
  <2>2. Labelled
    BY <1>1 DEF Labelled
  <2>. QED
    BY <1>2, <2>1, <2>2, InformedCarried
<1>3. CASE runner[r].pc = "synced"
  <2>1. NeedsSync(s)' = NeedsSync(s) /\ NeedsSync(s) \subseteq Tracked
    BY <1>1 DEF NeedsSync, Typed, LedgerTyped
  <2>2. \A o \in NeedsSync(s) : Answer(o)' = Answer(o)
    BY DEF Answer
  <2>3. runner[r].seen = [o \in NeedsSync(s) |-> Answer(o)]
    BY <1>3 DEF Informed, At
  <2>4. runner'[r].seen = [o \in NeedsSync(s)' |-> Answer(o)']
    BY <2>1, <2>2, <2>3
  <2>. QED
    BY <1>3, <2>4 DEF Informed, At
<1>4. CASE runner[r].pc \in {"positions", "orders"}
  <2>1. Read(s)
    BY <1>4 DEF Informed
  <2>2. Read(s)'
    <3>1. Tracked \subseteq OrderIds
      BY DEF Typed, LedgerTyped
    <3>. QED
      BY <1>1, <2>1, <3>1 DEF Read, Answer
  <2>3. \A sym \in Symbols : Held(sym)' = Held(sym)
    <3> SUFFICES ASSUME NEW sym \in Symbols PROVE Held(sym)' = Held(sym)
      OBVIOUS
    <3>1. {o \in OrderIds' : orders'[o].sym = sym} = {o \in OrderIds : orders[o].sym = sym}
      BY <1>1
    <3>. QED
      BY <1>1, <3>1 DEF Held
  <2>4. At(r, "orders") => runner'[r].positions = [sym \in Symbols |-> Held(sym)']
    <3>1. At(r, "orders") => runner[r].positions = [sym \in Symbols |-> Held(sym)]
      BY DEF Informed
    <3>. QED
      BY <2>3, <3>1
  <2>. QED
    BY <1>4, <2>2, <2>4 DEF Informed, At
<1>. QED
  BY <1>2, <1>3, <1>4

-----------------------------------------------------------------------------

LEMMA SizedBounds ==
  ASSUME Typed, NEW s, NEW sym, Sized(s, sym)
  PROVE  /\ HeldBy(s, sym) \in Int /\ Sure(s, sym) \in Int
         /\ 0 <= Sure(s, sym) /\ Sure(s, sym) <= HeldBy(s, sym) /\ HeldBy(s, sym) <= Lot
<1> DEFINE M == Mine(s, sym)
           C == Counted(s, sym)
<1>1. /\ M \in SUBSET OrderIds /\ C \in SUBSET M /\ C \in SUBSET OrderIds /\ M \ C \in SUBSET OrderIds
      /\ \A o \in M \ C : orders[o].side = "BUY"
  BY MovedIs DEF Mine, Counted, Sides
<1>2. HeldBy(s, sym) = SumFunctionOnSet(Moved, M) /\ Sure(s, sym) = SumFunctionOnSet(Moved, C)
  BY DEF HeldBy, Sure
<1>3. \A o \in OrderIds : orders[o].at <= Now /\ Now \in Int
  BY NowIsLast
<1>4. Sure(s, sym) >= 0
  <2>1. {x \in C : orders[x].at <= Now} = C
    BY <1>1, <1>3
  <2>2. SureAt(s, sym, Now) >= 0
    BY NowIsLast DEF Sized, NeverShort
  <2>. QED
    BY <2>1, <2>2 DEF SureAt, Sure
<1>5. HeldBy(s, sym) <= Lot
  BY DEF Sized, Room
<1> HIDE DEF M, C
<1>6. /\ SumFunctionOnSet(Moved, M) = SumFunctionOnSet(Moved, C) + SumFunctionOnSet(Moved, M \ C)
      /\ SumFunctionOnSet(Moved, M) \in Int /\ SumFunctionOnSet(Moved, C) \in Int
  BY <1>1, Summing
<1>7. SumFunctionOnSet(Moved, M \ C) >= 0 /\ SumFunctionOnSet(Moved, M \ C) \in Int
  BY <1>1, Summing
<1>. QED
  BY <1>2, <1>4, <1>5, <1>6, <1>7

\* No sleeve holds more than the account if none is short.
LEMMA Shares ==
  ASSUME Typed, NEW sym, \A s \in Sleeves : HeldBy(s, sym) >= 0, NEW s \in Sleeves
  PROVE  HeldBy(s, sym) <= Held(sym) /\ Held(sym) \in Int
<1> DEFINE Of(T) == {o \in OrderIds : orders[o].sym = sym /\ Sleeve(o) \in T}
           Good == {T \in SUBSET Sleeves : SumFunctionOnSet(Moved, Of(T)) >= 0}
<1>1. IsFiniteSet(Sleeves)
  <2>1. Allocated \in Seq(Sleeves) /\ Range(Allocated) = Sleeves
    BY PaperAssumption
  <2>2. IsFiniteSet(1 .. Len(Allocated)) /\ DOMAIN Allocated = 1 .. Len(Allocated)
    BY <2>1, FS_Interval
  <2>3. Allocated \in Surjection(1 .. Len(Allocated), Sleeves)
    BY <2>1, <2>2 DEF Surjection, Range
  <2>. QED
    BY <2>2, <2>3, FS_Surjection
<1>2. \A T : Of(T) \in SUBSET OrderIds
  OBVIOUS
<1>3. \A x : Mine(x, sym) \in SUBSET OrderIds
  BY DEF Mine
<1>4. ASSUME NEW T, NEW x \in T
      PROVE  /\ SumFunctionOnSet(Moved, Of(T)) = HeldBy(x, sym) + SumFunctionOnSet(Moved, Of(T \ {x}))
             /\ HeldBy(x, sym) \in Int /\ SumFunctionOnSet(Moved, Of(T \ {x})) \in Int
             /\ SumFunctionOnSet(Moved, Of(T)) \in Int
  <2>1. Mine(x, sym) \in SUBSET Of(T) /\ Of(T) \ Mine(x, sym) = Of(T \ {x})
    BY DEF Mine
  <2>2. SumFunctionOnSet(Moved, Of(T)) =
          SumFunctionOnSet(Moved, Mine(x, sym)) + SumFunctionOnSet(Moved, Of(T) \ Mine(x, sym))
    BY <1>2, <2>1, Summing
  <2>3. /\ SumFunctionOnSet(Moved, Mine(x, sym)) \in Int
        /\ SumFunctionOnSet(Moved, Of(T \ {x})) \in Int /\ SumFunctionOnSet(Moved, Of(T)) \in Int
    BY <1>2, <1>3, Summing
  <2>. QED
    BY <2>1, <2>2, <2>3 DEF HeldBy
<1>5. {} \in Good
  <2>1. Of({}) = {}
    OBVIOUS
  <2>2. SumFunctionOnSet(Moved, {}) = 0
    BY SumTypes
  <2>. QED
    BY <2>1, <2>2
<1>6. ASSUME NEW T \in SUBSET Sleeves, T # {}, \A x \in T : T \ {x} \in Good PROVE T \in Good
  <2>1. PICK x \in T : TRUE
    BY <1>6
  <2>2. SumFunctionOnSet(Moved, Of(T \ {x})) >= 0 /\ HeldBy(x, sym) >= 0
    BY <1>6, <2>1
  <2> HIDE DEF Of
  <2>3. /\ SumFunctionOnSet(Moved, Of(T)) = HeldBy(x, sym) + SumFunctionOnSet(Moved, Of(T \ {x}))
        /\ HeldBy(x, sym) \in Int /\ SumFunctionOnSet(Moved, Of(T \ {x})) \in Int
        /\ SumFunctionOnSet(Moved, Of(T)) \in Int
    BY <1>4, <2>1
  <2>. QED
    BY <2>2, <2>3
<1>7. Good = SUBSET Sleeves
  <2>1. Good \in SUBSET SUBSET Sleeves
    OBVIOUS
  <2> HIDE DEF Good
  <2>. QED
    BY <1>1, <1>5, <1>6, <2>1, SetInduct
<1>8. SumFunctionOnSet(Moved, Of(Sleeves \ {s})) >= 0
  BY <1>7
<1>9. Held(sym) = SumFunctionOnSet(Moved, Of(Sleeves))
  <2>1. Of(Sleeves) = {o \in OrderIds : orders[o].sym = sym}
    BY MovedIs
  <2>. QED
    BY <2>1 DEF Held
<1> HIDE DEF Of
<1>10. /\ SumFunctionOnSet(Moved, Of(Sleeves)) = HeldBy(s, sym) + SumFunctionOnSet(Moved, Of(Sleeves \ {s}))
       /\ HeldBy(s, sym) \in Int /\ SumFunctionOnSet(Moved, Of(Sleeves \ {s})) \in Int
       /\ SumFunctionOnSet(Moved, Of(Sleeves)) \in Int
  BY <1>4
<1>. QED
  BY <1>8, <1>9, <1>10

\* What the broker shows and the ledger says is right for the sleeve of the run
\* that compares them.
LEMMA Compared ==
  ASSUME Typed, Stamps, Unfilled, Quiet, \A x \in Sleeves, y \in Symbols : Sized(x, y),
         NEW r \in Runners, At(r, "orders"), NEW s \in Sleeves, MySleeve(r) = s, Read(s),
         NEW sym \in Symbols, Held(sym) = 0 \/ Held(sym) = Booked(sym),
         NEW os, os = {o \in OrderIds : orders[o].open}
  PROVE  Judged(s, sym, Rebuilt(s).qty[sym], KeysOf(os))
<1>1. Sized(s, sym)
  OBVIOUS
<1>2. Counted(s, sym) = Mine(s, sym) \cap Tracked
  <2>1. ASSUME NEW o \in Counted(s, sym), o \notin Tracked PROVE FALSE
    <3>1. o \in OrderIds \ Tracked /\ orders[o].side = "SELL"
      BY <2>1 DEF Counted, Mine
    <3>2. PICK q \in Runners : At(q, "answered")
      BY <3>1 DEF Quiet, LostSale
    <3>3. q # r /\ Busy(q) /\ Busy(r)
      BY <3>2 DEF At, Busy
    <3>. QED
      BY <3>3 DEF Quiet, Overlap
  <2>. QED
    BY <2>1 DEF Counted
<1>3. Rebuilt(s).qty[sym] = Sure(s, sym) /\ BookedBy(s, sym) = Sure(s, sym)
  BY <1>1, <1>2, Unclamped DEF Sized, NeverShort
<1>4. /\ HeldBy(s, sym) \in Int /\ Sure(s, sym) \in Int
      /\ 0 <= Sure(s, sym) /\ Sure(s, sym) <= HeldBy(s, sym)
  BY <1>1, SizedBounds
<1>5. HeldBy(s, sym) = Sure(s, sym)
  <2>1. CASE Held(sym) = Booked(sym)
    BY <1>3, <2>1 DEF Quiet, Masked
  <2>2. CASE Held(sym) = 0
    <3>1. \A x \in Sleeves : HeldBy(x, sym) >= 0
      <4> SUFFICES ASSUME NEW x \in Sleeves PROVE HeldBy(x, sym) >= 0
        OBVIOUS
      <4>1. /\ HeldBy(x, sym) \in Int /\ Sure(x, sym) \in Int
            /\ 0 <= Sure(x, sym) /\ Sure(x, sym) <= HeldBy(x, sym)
        BY SizedBounds
      <4>. QED
        BY <4>1
    <3>2. HeldBy(s, sym) <= Held(sym)
      BY <3>1, Shares
    <3>. QED
      BY <1>4, <2>2, <3>2
  <2>. QED
    BY <2>1, <2>2
<1>6. ASSUME NEW o \in Mine(s, sym), orders[o].open
      PROVE  /\ <<sym, orders[o].side>> \in KeysOf(os) /\ orders[o].side \in Sides
             /\ orders[o].side = "SELL" => Sure(s, sym) > 0
  <2>1. o \in OrderIds /\ orders[o].sym = sym
    BY DEF Mine
  <2>2. <<orders[o].sym, orders[o].side>> \in KeysOf(os) /\ orders[o].side \in Sides
    BY <1>6, <2>1, MovedIs DEF KeysOf
  <2>3. orders[o].filled < orders[o].qty /\ orders[o].filled \in Nat /\ orders[o].qty \in Nat
    BY <1>6, <2>1, MovedIs DEF Unfilled
  <2>4. orders[o].side = "SELL" => orders[o].qty - orders[o].filled <= Sure(s, sym)
    BY <1>1, <1>6 DEF Sized, SalesCovered
  <2>. QED
    BY <1>4, <2>1, <2>2, <2>3, <2>4
<1>7. <<sym, "SELL">> \notin KeysOf(os) =>
        \A o \in Mine(s, sym) : orders[o].open => orders[o].side = "BUY"
  BY <1>6 DEF Sides
<1>8. <<sym, "BUY">> \notin KeysOf(os) /\ Sure(s, sym) = 0 => \A o \in Mine(s, sym) : ~orders[o].open
  <2> SUFFICES ASSUME <<sym, "BUY">> \notin KeysOf(os), Sure(s, sym) = 0, NEW o \in Mine(s, sym),
                      orders[o].open
               PROVE  FALSE
    OBVIOUS
  <2>1. orders[o].side = "SELL"
    BY <1>6 DEF Sides
  <2>2. Sure(s, sym) > 0
    BY <1>6, <2>1
  <2>. QED
    BY <2>2
<1>. QED
  BY <1>3, <1>4, <1>5, <1>7, <1>8 DEF Judged

-----------------------------------------------------------------------------
(* The steps.                                                               *)

\* What a step of a thread does to orders and ledger.
LEMMA StepKinds ==
  ASSUME Typed, NEW r \in Runners, Step(r)
  PROVE  \/ UNCHANGED <<orders, ledger>>
         \/ /\ SyncCommit(r) \/ Record(r)
            /\ UNCHANGED <<orders, runs>> /\ ledger' = Upserted(runner[r].seen)
         \/ \E e \in Symbols \X Sides :
              /\ Submit(r, e) \/ LoseAnswer(r, e)
              /\ Asks(r, e) /\ UNCHANGED ledger
              /\ \E filled \in {0, Quantity(r, e)} : orders' = Accepted(r, e, filled)
<1>1. CASE Poll(r) \/ Request(r) \/ Begin(r) \/ Rest(r) \/ SyncRead(r) \/ ListPositions(r)
  BY <1>1 DEF Poll, Request, Begin, Rest, SyncRead, ListPositions
<1>2. CASE ListOrders(r) \/ Check(r) \/ Refuse(r) \/ Evaluate(r) \/ Complete(r) \/ Fail(r) \/ Die(r)
  BY <1>2 DEF ListOrders, Check, Refuse, Evaluate, Complete, Fail, Die
<1>3. CASE SyncCommit(r) \/ Record(r)
  BY <1>3 DEF SyncCommit, Record
<1>4. ASSUME NEW e \in Symbols \X Sides, Skip(r, e) \/ Reject(r, e)
      PROVE  UNCHANGED <<orders, ledger>>
  BY <1>4 DEF Skip, Reject
<1>5. ASSUME NEW e \in Symbols \X Sides, Submit(r, e) \/ LoseAnswer(r, e)
      PROVE  /\ Asks(r, e) /\ UNCHANGED ledger
             /\ \E filled \in {0, Quantity(r, e)} : orders' = Accepted(r, e, filled)
  <2>1. CASE Submit(r, e)
    BY <2>1 DEF Submit
  <2>2. CASE LoseAnswer(r, e)
    BY <2>2 DEF LoseAnswer
  <2>. QED
    BY <1>5, <2>1, <2>2
<1>. QED
  BY <1>1, <1>2, <1>3, <1>4, <1>5 DEF Step

\* The same for the broker and the calendar.
LEMMA NextKinds ==
  ASSUME Typed, Next
  PROVE  \/ UNCHANGED <<orders, ledger>>
         \/ \E o \in OrderIds : Fill(o) \/ Expire(o)
         \/ \E r \in Runners : /\ SyncCommit(r) \/ Record(r)
                               /\ UNCHANGED orders /\ ledger' = Upserted(runner[r].seen)
         \/ \E r \in Runners, e \in Symbols \X Sides :
              /\ Submit(r, e) \/ LoseAnswer(r, e)
              /\ Asks(r, e) /\ UNCHANGED ledger
              /\ \E filled \in {0, Quantity(r, e)} : orders' = Accepted(r, e, filled)
<1>1. CASE NextDay
  BY <1>1 DEF NextDay
<1>. QED
  BY <1>1, StepKinds DEF Next

LEMMA StampsKept ==
  ASSUME Typed, Typed', Stamps, Unfilled, Next
  PROVE  Stamps' /\ Unfilled'
<1>1. CASE UNCHANGED orders
  BY <1>1 DEF Stamps, Unfilled, OrderIds
<1>2. ASSUME NEW o \in OrderIds, Fill(o) \/ Expire(o) PROVE Stamps' /\ Unfilled'
  <2>1. \A p \in OrderIds : orders[p].at \in Nat /\ orders[p].at <= Now /\ Now \in Nat
    BY NowIsLast
  <2>2. /\ OrderIds' = OrderIds /\ orders'[o].at = Now + 1
        /\ \A p \in OrderIds \ {o} : orders'[p] = orders[p]
        /\ orders'[o].qty = orders[o].qty
        /\ (orders'[o].open => orders'[o].filled < orders[o].qty)
    BY <1>2, WorkIs
  <2>3. ASSUME NEW p \in OrderIds, NEW q \in OrderIds, orders'[p].at = orders'[q].at PROVE p = q
    <3>1. CASE p # o /\ q # o
      BY <2>2, <2>3, <3>1 DEF Stamps
    <3>2. CASE p = o /\ q # o
      <4>1. orders'[q].at = orders[q].at
        BY <2>2, <3>2
      <4>. QED
        BY <2>1, <2>2, <2>3, <3>2, <4>1
    <3>3. CASE p # o /\ q = o
      <4>1. orders'[p].at = orders[p].at
        BY <2>2, <3>3
      <4>. QED
        BY <2>1, <2>2, <2>3, <3>3, <4>1
    <3>. QED
      BY <3>1, <3>2, <3>3
  <2>4. Unfilled'
    BY <2>2 DEF Unfilled
  <2>. QED
    BY <2>2, <2>3, <2>4 DEF Stamps
<1>3. ASSUME NEW r \in Runners, NEW e \in Symbols \X Sides, Asks(r, e), UNCHANGED ledger,
             NEW filled \in {0, Quantity(r, e)}, orders' = Accepted(r, e, filled)
      PROVE  Stamps' /\ Unfilled'
  <2>1. PICK k : k = Len(orders) + 1
    OBVIOUS
  <2>2. \A p \in OrderIds : orders[p].at \in Nat /\ orders[p].at <= Now /\ Now \in Nat
    BY NowIsLast
  <2>3. /\ OrderIds' = OrderIds \cup {k} /\ orders'[k].at = Now + 1
        /\ \A p \in OrderIds : orders'[p] = orders[p]
        /\ orders'[k].qty = Quantity(r, e) /\ orders'[k].filled = filled
        /\ (orders'[k].open => filled < Quantity(r, e))
    BY <1>3, <2>1, NewIs
  <2>4. ASSUME NEW p \in OrderIds', NEW q \in OrderIds', orders'[p].at = orders'[q].at PROVE p = q
    <3>1. \A x \in OrderIds : orders'[x].at # orders'[k].at
      <4> SUFFICES ASSUME NEW x \in OrderIds PROVE orders'[x].at # orders'[k].at
        OBVIOUS
      <4>1. orders'[x].at = orders[x].at
        BY <2>3
      <4>. QED
        BY <2>2, <2>3, <4>1
    <3>2. CASE p \in OrderIds /\ q \in OrderIds
      BY <2>3, <2>4, <3>2 DEF Stamps
    <3>. QED
      BY <2>3, <2>4, <3>1, <3>2
  <2>5. Unfilled'
    BY <2>3 DEF Unfilled
  <2>. QED
    BY <2>4, <2>5 DEF Stamps
<1>. QED
  BY <1>1, <1>2, <1>3, NextKinds

\* Where nothing of a position changes.
LEMMA WorkedElsewhere ==
  ASSUME Typed, NEW o \in OrderIds, Fill(o) \/ Expire(o), NEW s, NEW sym, o \notin Mine(s, sym)
  PROVE  /\ Mine(s, sym)' = Mine(s, sym) /\ Counted(s, sym)' = Counted(s, sym)
         /\ \A p \in Mine(s, sym) : orders'[p] = orders[p]
<1>1. Mine(s, sym)' = Mine(s, sym) /\ Mine(s, sym) \subseteq OrderIds
  BY WorkIs DEF Mine, Sleeve
<1>2. \A p \in Mine(s, sym) : orders'[p] = orders[p]
  BY <1>1, WorkIs
<1>3. Tracked' = Tracked
  BY WorkIs DEF Tracked
<1>. QED
  BY <1>1, <1>2, <1>3 DEF Counted

LEMMA SameElsewhere ==
  ASSUME Typed, UNCHANGED <<orders, ledger>>, NEW s, NEW sym
  PROVE  /\ Mine(s, sym)' = Mine(s, sym) /\ Counted(s, sym)' = Counted(s, sym)
         /\ \A p \in Mine(s, sym) : orders'[p] = orders[p]
<1>1. Mine(s, sym)' = Mine(s, sym) /\ Tracked' = Tracked
  BY DEF Mine, Sleeve, OrderIds, Tracked
<1>. QED
  BY <1>1 DEF Counted

\* What calm says of the step that keeps it.
Peace == /\ ~Overlap' /\ ~LostSale' /\ ~Masked' /\ ~MarketMoves /\ ~SoldEarly

\* A thread that has decided what to do sends an order that keeps the position's size.
LEMMA SizedAsked ==
  ASSUME Typed, Typed', NEW r \in Runners, NEW e \in Symbols \X Sides, Asks(r, e),
         NEW filled \in {0, Quantity(r, e)}, orders' = Accepted(r, e, filled), UNCHANGED ledger,
         NEW s \in Sleeves, s = MySleeve(r), Informed(r, s), ~SoldEarly, Sized(s, e[1])
  PROVE  Sized(s, e[1])'
<1>1. PICK sym \in Symbols, side \in Sides : e = <<sym, side>>
  OBVIOUS
<1>2. e[1] = sym /\ e[2] = side /\ e \in runner[r].todo /\ At(r, "trade")
  BY <1>1 DEF Asks, Turn
<1>3. runner[r].book \in BookSet /\ Decided(r, s, sym)
  <2>1. Planned(r, sym)
    BY <1>1, <1>2 DEF Planned
  <2>. QED
    BY <1>2, <2>1 DEF Informed, Picks, At
<1>4. /\ e \notin runner[r].open
      /\ side = "SELL" => Quantity(r, e) = runner[r].book.qty[sym]
      /\ side = "BUY" => runner[r].book.qty[sym] = 0 /\ Quantity(r, e) <= Lot
  BY <1>2, <1>3, AskedFor
<1>5. CASE side = "SELL"
  <2>1. /\ Quantity(r, e) <= Sure(s, sym)
        /\ \A o \in Mine(s, sym) : orders[o].open => orders[o].side = "BUY"
    BY <1>1, <1>3, <1>4, <1>5 DEF Decided, Judged
  <2>2. ASSUME NEW o \in Mine(s, sym), orders[o].open PROVE FALSE
    <3>1. o \in OrderIds /\ Sleeve(o) = s /\ orders[o].sym = sym /\ orders[o].side = "BUY"
      BY <2>1, <2>2 DEF Mine
    <3>2. PICK k : k = Len(orders) + 1
      OBVIOUS
    <3>3. /\ orders'[k].side = "SELL" /\ orders'[k].sym = sym /\ orders'[k].run.sleeve = s
          /\ Len(orders') = Len(orders) + 1 /\ Len(orders) \in Nat
      BY <1>2, <1>5, <3>2, NewIs, Accepting, OrderTypes
    <3>4. Len(orders') = k /\ Len(orders') > Len(orders)
      BY <3>2, <3>3
    <3>. QED
      BY <2>2, <3>1, <3>3, <3>4 DEF SoldEarly
  <2>. QED
    BY <1>2, <1>5, <2>1, <2>2, SizedNew DEF Sides
<1>6. CASE side = "BUY"
  <2>1. HeldBy(s, sym) = 0 /\ \A o \in Mine(s, sym) : ~orders[o].open
    BY <1>1, <1>3, <1>4, <1>6 DEF Decided, Judged
  <2>. QED
    BY <1>2, <1>4, <1>6, <2>1, SizedNew DEF Sides
<1>. QED
  BY <1>1, <1>5, <1>6 DEF Sides

LEMMA NextSized ==
  ASSUME Typed, Typed', Next, Peace, \A s \in Sleeves, sym \in Symbols : Sized(s, sym),
         \A r \in Runners, s \in Sleeves : Busy(r) /\ MySleeve(r) = s => Informed(r, s),
         NEW s \in Sleeves, NEW sym \in Symbols
  PROVE  Sized(s, sym)'
<1>1. CASE UNCHANGED <<orders, ledger>>
  BY <1>1, SameElsewhere, Still
<1>2. ASSUME NEW o \in OrderIds, Fill(o) \/ Expire(o) PROVE Sized(s, sym)'
  <2>1. CASE o \in Mine(s, sym)
    BY <1>2, <2>1, SizedWorked
  <2>2. CASE o \notin Mine(s, sym)
    BY <1>2, <2>2, WorkedElsewhere, Still
  <2>. QED
    BY <2>1, <2>2
<1>3. ASSUME NEW r \in Runners, UNCHANGED orders, ledger' = Upserted(runner[r].seen)
      PROVE  Sized(s, sym)'
  <2>1. Tracked \subseteq Tracked'
    BY <1>3, Upserting
  <2>. QED
    BY <1>3, <2>1, SizedMore
<1>4. ASSUME NEW r \in Runners, NEW e \in Symbols \X Sides, Asks(r, e), UNCHANGED ledger,
             NEW filled \in {0, Quantity(r, e)}, orders' = Accepted(r, e, filled)
      PROVE  Sized(s, sym)'
  <2>1. CASE s # MySleeve(r) \/ sym # e[1]
    <3>1. /\ Mine(s, sym)' = Mine(s, sym) /\ Counted(s, sym)' = Counted(s, sym)
          /\ \A o \in Mine(s, sym) : orders'[o] = orders[o]
      BY <1>4, <2>1, NewElsewhere
    <3>. QED
      BY <3>1, Still
  <2>2. CASE s = MySleeve(r) /\ sym = e[1]
    <3>1. Busy(r)
      BY <1>4 DEF Asks, Turn, At, Busy
    <3>2. Informed(r, s) /\ ~SoldEarly /\ Sized(s, e[1])
      BY <2>2, <3>1 DEF Peace
    <3>3. Sized(s, e[1])'
      BY <1>4, <2>2, <3>2, SizedAsked
    <3>. QED
      BY <2>2, <3>3
  <2>. QED
    BY <2>1, <2>2
<1>. QED
  BY <1>1, <1>2, <1>3, <1>4, NextKinds

-----------------------------------------------------------------------------

\* Only one thread moves.
LEMMA StepOthers ==
  ASSUME Typed, NEW r \in Runners, Step(r)
  PROVE  Others(r) /\ RunsGo
<1>1. CASE Poll(r) \/ Request(r) \/ Rest(r) \/ Die(r)
  <2>1. \E d, left : runner' \in {[runner EXCEPT ![r] = Pass(d, left)], [runner EXCEPT ![r] = Idle]}
    <3>1. CASE Poll(r)
      BY <3>1, Zenon DEF Poll
    <3>2. CASE Request(r)
      BY <3>2, Zenon DEF Request
    <3>3. CASE Rest(r) \/ Die(r)
      BY <3>3, Zenon DEF Rest, Die
    <3>. QED
      BY <1>1, <3>1, <3>2, <3>3, Zenon
  <2>2. Others(r)
    <3>1. PICK d, left : runner' \in {[runner EXCEPT ![r] = Pass(d, left)], [runner EXCEPT ![r] = Idle]}
      BY <2>1
    <3>2. Becomes(r, Pass(d, left)) \/ Becomes(r, Idle)
      BY <3>1, Passing
    <3>. QED
      BY <3>2 DEF Becomes
  <2>3. UNCHANGED runs
    BY <1>1 DEF Poll, Request, Rest, Die
  <2>. QED
    BY <2>2, <2>3, Untouched
<1>2. CASE Begin(r)
  BY <1>2, Beginning, NewRun
<1>3. CASE SyncRead(r) \/ SyncCommit(r) \/ Record(r)
  <2>1. UNCHANGED runs
    BY <1>3 DEF SyncRead, SyncCommit, Record
  <2>. QED
    BY <1>3, <2>1, Syncing, Recording, Untouched DEF Goes
<1>4. CASE \/ ListPositions(r) \/ ListOrders(r) \/ Check(r) \/ Evaluate(r)
           \/ \E e \in Symbols \X Sides : Skip(r, e) \/ Reject(r, e)
  <2>1. Ponders(r)
    BY <1>4, Pondering
  <2>. QED
    BY <2>1, Untouched DEF Ponders, Goes
<1>5. CASE Complete(r) \/ Refuse(r) \/ Fail(r)
  <2>1. Busy(r) /\ (Complete(r) \/ Failed(r))
    BY <1>5 DEF Complete, Refuse, Fail, At, Busy
  <2>. QED
    BY <2>1, Ending DEF Ends, Becomes
<1>6. ASSUME NEW e \in Symbols \X Sides, Submit(r, e) PROVE Others(r) /\ RunsGo
  <2>1. UNCHANGED runs
    BY <1>6 DEF Submit
  <2>. QED
    BY <1>6, <2>1, Sending, Untouched DEF Goes
<1>7. ASSUME NEW e \in Symbols \X Sides, LoseAnswer(r, e) PROVE Others(r) /\ RunsGo
  <2>1. Failed(r) /\ Busy(r)
    BY <1>7 DEF LoseAnswer, Asks, Turn, At, Busy
  <2>. QED
    BY <2>1, Ending DEF Ends, Becomes
<1>. QED
  BY <1>1, <1>2, <1>3, <1>4, <1>5, <1>6, <1>7 DEF Step

\* A thread that is between two runs and stays there changes nothing but itself.
LEMMA Resting ==
  ASSUME Typed, NEW r \in Runners, Step(r), ~Busy(r), ~Busy(r)'
  PROVE  UNCHANGED <<orders, ledger, runs>>
<1>1. CASE Poll(r) \/ Request(r) \/ Rest(r) \/ Die(r)
  BY <1>1 DEF Poll, Request, Rest, Die
<1>2. CASE Begin(r)
  BY <1>2, Beginning DEF Busy
<1>3. CASE SyncRead(r) \/ SyncCommit(r) \/ Record(r) \/ ListPositions(r) \/ ListOrders(r)
  BY <1>3 DEF SyncRead, SyncCommit, Record, ListPositions, ListOrders, At, Busy
<1>4. CASE Check(r) \/ Evaluate(r) \/ Complete(r) \/ Refuse(r) \/ Fail(r)
  BY <1>4 DEF Check, Evaluate, Complete, Refuse, Fail, At, Busy
<1>5. ASSUME NEW e \in Symbols \X Sides, Skip(r, e) \/ Submit(r, e) \/ Reject(r, e) \/ LoseAnswer(r, e)
      PROVE  FALSE
  BY <1>5 DEF Skip, Submit, Reject, LoseAnswer, Asks, Turn, At, Busy
<1>. QED
  BY <1>1, <1>2, <1>3, <1>4, <1>5 DEF Step

LEMMA InformedOthers ==
  ASSUME Typed, Typed', NEW r \in Runners, Step(r), ~Overlap, ~Overlap',
         NEW q \in Runners \ {r}, NEW s \in Sleeves, Busy(q)', MySleeve(q)' = s,
         Busy(q) /\ MySleeve(q) = s => Informed(q, s)
  PROVE  Informed(q, s)'
<1>1. UNCHANGED runner[q]
  BY StepOthers DEF Others
<1>2. Busy(q) /\ ~Busy(r) /\ ~Busy(r)'
  BY <1>1 DEF Overlap, Busy
<1>3. UNCHANGED <<orders, ledger, runs>>
  BY <1>2, Resting
<1>4. Informed(q, s)
  BY <1>1, <1>2, <1>3 DEF MySleeve, Run
<1>. QED
  BY <1>1, <1>3, <1>4, InformedSame

LEMMA InformedWorked ==
  ASSUME Typed, Typed', NEW o \in OrderIds, Fill(o) \/ Expire(o), ~MarketMoves,
         \A s \in Sleeves, sym \in Symbols : Sized(s, sym),
         NEW r \in Runners, NEW s \in Sleeves, Busy(r)', MySleeve(r)' = s,
         Busy(r) /\ MySleeve(r) = s => Informed(r, s)
  PROVE  Informed(r, s)'
<1>1. UNCHANGED <<ledger, runs, runner>>
  BY WorkIs
<1>2. Informed(r, s)
  BY <1>1 DEF Busy, MySleeve, Run
<1>3. runner[r].pc \notin {"synced", "positions", "orders"}
  <2>1. orders'[o].at # orders[o].at
    <3>1. orders'[o].at = Now + 1
      BY WorkIs
    <3>2. orders[o].at <= Now /\ orders[o].at \in Nat /\ Now \in Nat
      BY NowIsLast
    <3>. QED
      BY <3>1, <3>2
  <2>. QED
    BY <2>1 DEF MarketMoves
<1>4. Labelled
  BY WorkIs DEF Labelled
<1>5. ASSUME NEW sym \in Symbols PROVE Lasting(s, sym)
  <2>1. CASE o \in Mine(s, sym)
    BY <2>1, WorkedLasts
  <2>2. CASE o \notin Mine(s, sym)
    BY <2>2, WorkedElsewhere, StillLasts
  <2>. QED
    BY <2>1, <2>2
<1>. QED
  BY <1>1, <1>2, <1>3, <1>4, <1>5, InformedCarried

-----------------------------------------------------------------------------
(* A thread learns.                                                         *)

LEMMA LearnsSync ==
  ASSUME Typed, Typed', BookInv, NEW r \in Runners, NEW s \in Sleeves, MySleeve(r) = s
  PROVE  /\ SyncRead(r) => Informed(r, s)'
         /\ SyncCommit(r) /\ Informed(r, s) => Informed(r, s)'
<1>1. ASSUME SyncRead(r) PROVE Informed(r, s)'
  <2>1. runner'[r].pc = "synced" /\ runner'[r].seen = [o \in NeedsSync(s) |-> Answer(o)]
    BY <1>1, Syncing DEF Goes
  <2>2. UNCHANGED <<orders, ledger>>
    BY <1>1 DEF SyncRead
  <2>3. NeedsSync(s)' = NeedsSync(s)
    BY <2>2 DEF NeedsSync, Sleeve, Tracked
  <2>4. \A o \in NeedsSync(s) : Answer(o)' = Answer(o)
    BY <2>2 DEF Answer
  <2>5. runner'[r].seen = [o \in NeedsSync(s)' |-> Answer(o)']
    BY <2>1, <2>3, <2>4
  <2>. QED
    BY <2>1, <2>5 DEF Informed, At
<1>2. ASSUME SyncCommit(r), Informed(r, s) PROVE Informed(r, s)'
  <2>1. /\ runner[r].pc = "synced" /\ runner'[r].pc = "positions"
        /\ ledger' = Upserted(runner[r].seen) /\ UNCHANGED orders
    BY <1>2, Syncing DEF Goes, SyncCommit
  <2>2. runner[r].seen = [o \in NeedsSync(s) |-> Answer(o)]
    BY <1>2, <2>1 DEF Informed, At
  <2>3. /\ Tracked' = Tracked \cup NeedsSync(s)
        /\ \A o \in Tracked' : ledger'[o] = IF o \in NeedsSync(s) THEN Answer(o) ELSE ledger[o]
    BY <2>1, <2>2, Upserting
  <2>4. ASSUME NEW o \in Tracked, Sleeve(o) = s, o \notin NeedsSync(s) PROVE ledger[o] = Answer(o)
    <3>1. ~ledger[o].open /\ ledger[o] \in AnswerSet /\ o \in OrderIds
      BY <2>4 DEF NeedsSync, Typed, LedgerTyped
    <3>2. ~orders[o].open /\ ledger[o].filled = orders[o].filled /\ ledger[o].at = orders[o].at
      BY <3>1 DEF BookInv, NothingAhead, Behind
    <3>3. orders[o].open \in BOOLEAN
      BY <3>1, MovedIs
    <3>. QED
      BY <3>1, <3>2, <3>3 DEF AnswerSet, Answer
  <2>5. NeedsSync(s) \subseteq Tracked
    BY DEF NeedsSync
  <2>6. Read(s)'
    <3> SUFFICES ASSUME NEW o \in Tracked', Sleeve(o)' = s PROVE ledger'[o] = Answer(o)'
      BY DEF Read
    <3>1. Answer(o)' = Answer(o) /\ Sleeve(o) = s
      BY <2>1 DEF Answer, Sleeve
    <3>2. ledger'[o] = Answer(o)
      BY <2>3, <2>4, <2>5, <3>1
    <3>. QED
      BY <3>1, <3>2
  <2>. QED
    BY <2>1, <2>6 DEF Informed, At
<1>. QED
  BY <1>1, <1>2

\* Nothing moves but the thread.
LEMMA Quietly ==
  ASSUME Typed, Typed', UNCHANGED <<orders, ledger>>
  PROVE  /\ OrderIds' = OrderIds /\ Labelled
         /\ \A s \in Sleeves : Read(s)' = Read(s) /\ Rebuilt(s)' = Rebuilt(s)
         /\ \A sym \in Symbols : Held(sym)' = Held(sym) /\ Booked(sym)' = Booked(sym)
         /\ \A s \in Sleeves, sym \in Symbols : Lasting(s, sym)
<1>1. /\ OrderIds' = OrderIds /\ Tracked' = Tracked /\ Moved' = Moved
      /\ \A o \in OrderIds : Sleeve(o)' = Sleeve(o)
  BY DEF OrderIds, Tracked, Moved, Signed, Sleeve
<1>2. Labelled
  BY <1>1 DEF Labelled
<1>3. \A s \in Sleeves : Read(s)' = Read(s)
  <2>1. Tracked \subseteq OrderIds
    BY DEF Typed, LedgerTyped
  <2>. QED
    BY <1>1, <2>1 DEF Read, Answer
<1>4. ASSUME NEW sym \in Symbols PROVE Held(sym)' = Held(sym)
  <2>1. {o \in OrderIds' : orders'[o].sym = sym} = {o \in OrderIds : orders[o].sym = sym}
    BY <1>1
  <2>. QED
    BY <1>1, <2>1 DEF Held
<1>5. \A s \in Sleeves, sym \in Symbols : Lasting(s, sym)
  BY SameElsewhere, StillLasts
<1>. QED
  BY <1>1, <1>2, <1>3, <1>4, <1>5, RebuiltStays

LEMMA LearnsPositions ==
  ASSUME Typed, Typed', NEW r \in Runners, NEW s \in Sleeves, ListPositions(r), Informed(r, s)
  PROVE  Informed(r, s)'
<1>1. /\ UNCHANGED <<orders, ledger>> /\ runner[r].pc = "positions" /\ runner'[r].pc = "orders"
      /\ runner'[r].positions = [sym \in Symbols |-> Held(sym)]
  BY DEF ListPositions, Typed, Sound, At, Fields
<1>2. Read(s)' /\ \A sym \in Symbols : Held(sym)' = Held(sym)
  BY <1>1, Quietly DEF Informed
<1>3. runner'[r].positions = [sym \in Symbols |-> Held(sym)']
  BY <1>1, <1>2
<1>. QED
  BY <1>1, <1>2, <1>3 DEF Informed, At

LEMMA LearnsOrders ==
  ASSUME Typed, Typed', NEW r \in Runners, NEW s \in Sleeves, MySleeve(r) = s, ListOrders(r),
         Informed(r, s), Stamps, Unfilled, Quiet, \A x \in Sleeves, y \in Symbols : Sized(x, y)
  PROVE  Informed(r, s)'
<1>1. PICK os : os = {o \in OrderIds : orders[o].open}
  OBVIOUS
<1>2. /\ UNCHANGED <<orders, ledger>> /\ runner[r].pc = "orders" /\ runner'[r].pc = "check"
      /\ runner'[r].open = os /\ runner'[r].positions = runner[r].positions
  BY <1>1 DEF ListOrders, Typed, Sound, At, Fields
<1>3. os \subseteq OrderIds /\ OrderIds' = OrderIds
  BY <1>1, <1>2, Quietly
<1>4. Read(s) /\ runner[r].positions = [sym \in Symbols |-> Held(sym)]
  BY <1>2 DEF Informed, At
<1>5. ASSUME NEW sym \in Symbols, ~Blocked(r)' PROVE Considered(r, s, sym)'
  <2>1. runner'[r].positions[sym] = 0 \/ runner'[r].positions[sym] = Booked(sym)'
    BY <1>5 DEF Blocked
  <2>2. Held(sym) = 0 \/ Held(sym) = Booked(sym)
    BY <1>2, <1>4, <2>1, Quietly
  <2>3. PICK n, keys : n = Rebuilt(s).qty[sym] /\ keys = KeysOf(os)
    OBVIOUS
  <2>4. Judged(s, sym, n, keys)
    BY <1>1, <1>2, <1>4, <2>2, <2>3, Compared DEF At
  <2>5. n \in Int
    BY <2>3, RebuiltIsBook DEF BookSet
  <2>6. Judged(s, sym, n, keys)'
    BY <1>2, <2>4, <2>5, Again, Quietly
  <2>7. Rebuilt(s)' = Rebuilt(s) /\ {<<orders'[o].sym, orders'[o].side>> : o \in runner'[r].open} = keys
    BY <1>2, <1>3, <2>3, Quietly DEF KeysOf
  <2>. QED
    BY <2>3, <2>6, <2>7 DEF Considered, Judged, KeysOf
<1>. QED
  BY <1>2, <1>3, <1>5 DEF Informed, At

-----------------------------------------------------------------------------
(* A thread acts on what it knows.                                          *)

\* What was decided with a book holds with one that has as much of the symbol, and
\* with keys that say the same of it.
LEMMA DecidedStays ==
  ASSUME NEW s, NEW sym, Lasting(s, sym), NEW n \in Int, NEW keys, NEW ks, Judged(s, sym, n, keys),
         \A side \in Sides : <<sym, side>> \in keys => <<sym, side>> \in ks
  PROVE  Judged(s, sym, n, ks)'
<1>1. Judged(s, sym, n, keys)'
  BY Again
<1>. QED
  BY <1>1 DEF Judged, Sides

LEMMA ActsCheck ==
  ASSUME Typed, Typed', NEW r \in Runners, NEW s \in Sleeves, Check(r), Informed(r, s)
  PROVE  Informed(r, s)'
<1>1. /\ UNCHANGED <<orders, ledger>> /\ runner[r].pc = "check" /\ runner'[r].pc = "evaluate"
      /\ runner'[r].open = runner[r].open /\ ~Blocked(r)
  BY DEF Check, Typed, Sound, At, Fields
<1>2. PICK os : os = runner[r].open
  OBVIOUS
<1>3. os \subseteq OrderIds /\ OrderIds' = OrderIds
  BY <1>1, <1>2, Quietly DEF Informed
<1>4. ASSUME NEW sym \in Symbols PROVE Considered(r, s, sym)'
  <2>1. PICK n, keys : n = Rebuilt(s).qty[sym] /\ keys = KeysOf(os)
    OBVIOUS
  <2>2. Judged(s, sym, n, keys)
    BY <1>1, <1>2, <2>1 DEF Informed, Considered, At
  <2>3. n \in Int
    BY <2>1, RebuiltIsBook DEF BookSet
  <2>4. Judged(s, sym, n, keys)'
    BY <1>1, <2>2, <2>3, Again, Quietly
  <2>5. Rebuilt(s)' = Rebuilt(s) /\ {<<orders'[o].sym, orders'[o].side>> : o \in runner'[r].open} = keys
    BY <1>1, <1>2, <1>3, <2>1, Quietly DEF KeysOf
  <2>. QED
    BY <2>1, <2>4, <2>5 DEF Considered, Judged, KeysOf
<1>. QED
  BY <1>1, <1>2, <1>3, <1>4 DEF Informed, At

LEMMA ActsEvaluate ==
  ASSUME Typed, Typed', NEW r \in Runners, NEW s \in Sleeves, MySleeve(r) = s, Evaluate(r),
         Informed(r, s)
  PROVE  Informed(r, s)'
<1>1. PICK todo \in SUBSET (Symbols \X Sides) :
         /\ \A e, f \in todo : e[1] = f[1] => e = f
         /\ runner' = [runner EXCEPT
              ![r].pc = "trade", ![r].todo = todo, ![r].book = Rebuilt(MySleeve(r)),
              ![r].open = {<<orders[o].sym, orders[o].side>> : o \in @}]
  BY DEF Evaluate
<1>2. UNCHANGED <<orders, ledger>> /\ runner[r].pc = "evaluate"
  BY DEF Evaluate, At
<1>3. PICK book, keys : book = Rebuilt(s) /\ keys = KeysOf(runner[r].open)
  OBVIOUS
<1>4. /\ runner'[r].pc = "trade" /\ runner'[r].todo = todo /\ runner'[r].book = book
      /\ runner'[r].open = keys
  <2>1. DOMAIN runner = Runners /\ DOMAIN runner[r] = Fields
    BY DEF Typed, Sound
  <2>. QED
    BY <1>1, <1>3, <2>1 DEF Fields, KeysOf
<1>5. book \in BookSet
  BY <1>3, RebuiltIsBook
<1>6. Picks(r)'
  <2>1. \A sym \in Symbols : \A x, y \in Sides : <<sym, x>> \in todo /\ <<sym, y>> \in todo => x = y
    <3> SUFFICES ASSUME NEW sym \in Symbols, NEW x \in Sides, NEW y \in Sides,
                        <<sym, x>> \in todo, <<sym, y>> \in todo
                 PROVE  x = y
      OBVIOUS
    <3>1. <<sym, x>>[1] = <<sym, y>>[1]
      OBVIOUS
    <3>2. <<sym, x>> = <<sym, y>>
      BY <1>1, <3>1
    <3>. QED
      BY <3>2
  <2>. QED
    BY <1>4, <1>5, <2>1 DEF Picks
<1>7. ASSUME NEW sym \in Symbols PROVE Decided(r, s, sym)'
  <2>1. PICK n : n = book.qty[sym]
    OBVIOUS
  <2>2. Judged(s, sym, n, keys)
    BY <1>2, <1>3, <2>1 DEF Informed, Considered, At
  <2>3. n \in Int
    BY <1>5, <2>1 DEF BookSet
  <2>4. Judged(s, sym, n, keys)'
    BY <1>2, <2>2, <2>3, Again, Quietly
  <2>. QED
    BY <1>4, <2>1, <2>4 DEF Decided, Judged
<1>. QED
  BY <1>4, <1>6, <1>7 DEF Informed, At

LEMMA ActsPasses ==
  ASSUME Typed, Typed', NEW r \in Runners, NEW s \in Sleeves, NEW e \in Symbols \X Sides,
         Skip(r, e) \/ Reject(r, e), Informed(r, s)
  PROVE  Informed(r, s)'
<1>1. /\ UNCHANGED <<orders, ledger>> /\ runner[r].pc = "trade" /\ runner'[r].pc = "trade"
      /\ runner'[r].open = runner[r].open /\ runner'[r].book = runner[r].book
      /\ runner'[r].todo \subseteq runner[r].todo
  BY DEF Skip, Reject, Asks, Turn, Done, Typed, Sound, At, Fields
<1>2. Picks(r) /\ \A sym \in Symbols : Planned(r, sym) => Decided(r, s, sym)
  BY <1>1 DEF Informed, At
<1>3. Picks(r)'
  BY <1>1, <1>2 DEF Picks
<1>4. ASSUME NEW sym \in Symbols, Planned(r, sym)' PROVE Decided(r, s, sym)'
  <2>1. PICK n, keys : n = runner[r].book.qty[sym] /\ keys = runner[r].open
    OBVIOUS
  <2>2. Planned(r, sym)
    BY <1>1, <1>4 DEF Planned
  <2>3. Judged(s, sym, n, keys)
    BY <1>2, <2>1, <2>2 DEF Decided
  <2>4. n \in Int
    BY <1>2, <2>1 DEF Picks, BookSet
  <2>5. Judged(s, sym, n, keys)'
    BY <1>1, <2>3, <2>4, Again, Quietly
  <2>. QED
    BY <1>1, <2>1, <2>5 DEF Decided, Judged
<1>. QED
  BY <1>1, <1>3, <1>4 DEF Informed, At

LEMMA ActsSubmit ==
  ASSUME Typed, Typed', NEW r \in Runners, NEW s \in Sleeves, MySleeve(r) = s,
         NEW e \in Symbols \X Sides, Submit(r, e), Informed(r, s)
  PROVE  Informed(r, s)'
<1>1. PICK k : k = Len(orders) + 1
  OBVIOUS
<1>2. PICK filled \in {0, Quantity(r, e)} :
         /\ orders' = Accepted(r, e, filled)
         /\ runner'[r].seen = [o \in {Len(orders) + 1} |->
              [filled |-> filled, open |-> filled < Quantity(r, e), at |-> Now + 1]]
  BY Sending
<1>3. Asks(r, e) /\ UNCHANGED ledger /\ e \in runner[r].todo
  BY DEF Submit, Asks, Turn
<1>4. /\ runner[r].pc = "trade" /\ runner'[r].pc = "answered"
      /\ runner'[r].open = runner[r].open /\ runner'[r].book = runner[r].book
      /\ runner'[r].todo = runner[r].todo
  BY DEF Submit, Asks, Turn, Typed, Sound, At, Fields
<1>5. Picks(r) /\ \A sym \in Symbols : Planned(r, sym) => Decided(r, s, sym)
  BY <1>4 DEF Informed, At
<1>6. Picks(r)'
  BY <1>4, <1>5 DEF Picks
<1>7. k \in OrderIds' /\ orders'[k].sym = e[1] /\ orders'[k].side = e[2] /\ DOMAIN runner'[r].seen = {k}
  BY <1>1, <1>2, <1>3, NewIs
<1>8. Waiting(r, k)'
  BY <1>3, <1>4, <1>7 DEF Waiting
<1>9. ASSUME NEW sym \in Symbols \ {e[1]}, Planned(r, sym)' PROVE Decided(r, s, sym)'
  <2>1. PICK n, keys : n = runner[r].book.qty[sym] /\ keys = runner[r].open
    OBVIOUS
  <2>2. Planned(r, sym)
    BY <1>4, <1>9 DEF Planned
  <2>3. Judged(s, sym, n, keys)
    BY <1>5, <2>1, <2>2 DEF Decided
  <2>4. n \in Int
    BY <1>5, <2>1 DEF Picks, BookSet
  <2>5. Lasting(s, sym)
    BY <1>2, <1>3, NewElsewhere, StillLasts
  <2>6. Judged(s, sym, n, keys)'
    BY <2>3, <2>4, <2>5, Again
  <2>. QED
    BY <1>4, <2>1, <2>6 DEF Decided, Judged
<1>. QED
  BY <1>4, <1>6, <1>7, <1>8, <1>9 DEF Informed, At

LEMMA ActsRecord ==
  ASSUME Typed, Typed', NEW r \in Runners, NEW s \in Sleeves, Record(r), Informed(r, s)
  PROVE  Informed(r, s)'
<1>1. /\ runner[r].pc = "answered" /\ runner'[r].pc = "trade" /\ UNCHANGED orders
      /\ ledger' = Upserted(runner[r].seen)
  BY Recording DEF Goes, Record
<1>2. PICK o \in OrderIds : /\ Waiting(r, o)
                            /\ \A sym \in Symbols \ {orders[o].sym} :
                                 Planned(r, sym) => Decided(r, s, sym)
  BY <1>1 DEF Informed, At
<1>3. PICK its, side, n : its = orders[o].sym /\ side = orders[o].side /\ n = runner[r].seen[o].filled
  OBVIOUS
<1>4. its \in Symbols /\ side \in Sides /\ n \in Nat /\ DOMAIN runner[r].seen = {o} /\ Picks(r)
      /\ <<its, side>> \in runner[r].todo
  <2>1. DOMAIN runner[r].seen = {o} /\ <<its, side>> \in runner[r].todo
    BY <1>2, <1>3 DEF Waiting
  <2>2. runner[r].seen[o] \in AnswerSet
    BY <2>1 DEF Typed, Sound
  <2>3. Picks(r)
    BY <1>1 DEF Informed
  <2>. QED
    BY <1>3, <2>1, <2>2, <2>3, MovedIs DEF AnswerSet
<1>5. PICK book, keys, todo :
         book = runner[r].book /\ keys = runner[r].open /\ todo = runner[r].todo
  OBVIOUS
<1>6. /\ runner'[r].todo = todo \ {<<its, side>>} /\ runner'[r].open = keys \cup {<<its, side>>}
      /\ runner'[r].book = ApplyFill(book, its, side, n)
  <2>1. PICK p \in DOMAIN runner[r].seen :
          runner' = [Done(r, <<orders[p].sym, orders[p].side>>) EXCEPT
            ![r].seen = <<>>,
            ![r].open = @ \cup {<<orders[p].sym, orders[p].side>>},
            ![r].book = ApplyFill(@, orders[p].sym, orders[p].side, runner[r].seen[p].filled)]
    BY DEF Record
  <2>2. p = o
    BY <1>4
  <2>3. PICK done : done = Done(r, <<its, side>>)
    OBVIOUS
  <2>4. runner' = [done EXCEPT ![r].seen = <<>>, ![r].open = @ \cup {<<its, side>>},
                               ![r].book = ApplyFill(@, its, side, n)]
    BY <1>3, <2>1, <2>2, <2>3
  <2>5. /\ DOMAIN done = Runners /\ DOMAIN done[r] = Fields
        /\ done[r].todo = todo \ {<<its, side>>} /\ done[r].open = keys /\ done[r].book = book
    BY <1>5, <2>3 DEF Done, Typed, Sound, Fields
  <2>. QED
    BY <2>4, <2>5 DEF Fields
<1>7. /\ ApplyFill(book, its, side, n) \in BookSet
      /\ \A sym \in Symbols \ {its} : ApplyFill(book, its, side, n).qty[sym] = book.qty[sym]
  BY <1>4, <1>5, Applying DEF Picks
<1>8. Picks(r)'
  BY <1>4, <1>5, <1>6, <1>7 DEF Picks
<1>9. ASSUME NEW sym \in Symbols, Planned(r, sym)' PROVE sym # its /\ Planned(r, sym)
  <2>1. PICK x \in Sides : <<sym, x>> \in todo \ {<<its, side>>}
    BY <1>6, <1>9 DEF Planned
  <2>2. sym = its => x = side
    BY <1>4, <1>5, <2>1 DEF Picks
  <2>. QED
    BY <1>5, <2>1, <2>2 DEF Planned
<1>10. ASSUME NEW sym \in Symbols, Planned(r, sym)' PROVE Decided(r, s, sym)'
  <2>1. sym # its /\ Decided(r, s, sym)
    BY <1>2, <1>3, <1>9, <1>10
  <2>2. PICK m, ks : m = book.qty[sym] /\ ks = keys \cup {<<its, side>>}
    OBVIOUS
  <2>3. Judged(s, sym, m, keys) /\ m \in Int
    BY <1>4, <1>5, <2>1, <2>2 DEF Decided, Picks, BookSet
  <2>4. Lasting(s, sym)
    <3>1. Tracked' = Tracked \cup {o}
      BY <1>1, <1>4, Upserting
    <3>2. Mine(s, sym)' = Mine(s, sym)
      BY <1>1 DEF Mine, Sleeve, OrderIds
    <3>3. o \notin Mine(s, sym)
      BY <1>3, <2>1 DEF Mine
    <3>4. Counted(s, sym)' = Counted(s, sym)
      BY <1>1, <3>1, <3>2, <3>3 DEF Counted
    <3>. QED
      BY <1>1, <3>2, <3>4, StillLasts
  <2>5. Judged(s, sym, m, ks)'
    BY <2>2, <2>3, <2>4, DecidedStays
  <2>6. runner'[r].book.qty[sym] = m /\ runner'[r].open = ks
    BY <1>6, <1>7, <2>1, <2>2
  <2>. QED
    BY <2>5, <2>6 DEF Decided, Judged
<1>. QED
  BY <1>1, <1>8, <1>10 DEF Informed, At

-----------------------------------------------------------------------------
(* One lot.                                                                 *)

LEMMA Leaving ==
  ASSUME Typed, NEW r \in Runners,
         \/ Poll(r) \/ Request(r) \/ Rest(r) \/ Die(r) \/ Complete(r) \/ Refuse(r) \/ Fail(r)
         \/ \E e \in Symbols \X Sides : LoseAnswer(r, e)
  PROVE  ~Busy(r)'
<1>1. CASE Poll(r) \/ Request(r) \/ Rest(r) \/ Die(r)
  <2>1. \E d, left : runner' \in {[runner EXCEPT ![r] = Pass(d, left)], [runner EXCEPT ![r] = Idle]}
    <3>1. CASE Poll(r)
      BY <3>1, Zenon DEF Poll
    <3>2. CASE Request(r)
      BY <3>2, Zenon DEF Request
    <3>3. CASE Rest(r) \/ Die(r)
      BY <3>3, Zenon DEF Rest, Die
    <3>. QED
      BY <1>1, <3>1, <3>2, <3>3, Zenon
  <2>2. PICK d, left : runner' \in {[runner EXCEPT ![r] = Pass(d, left)], [runner EXCEPT ![r] = Idle]}
    BY <2>1
  <2>3. Becomes(r, Pass(d, left)) \/ Becomes(r, Idle)
    BY <2>2, Passing
  <2>4. Pass(d, left).pc = "between" /\ Idle.pc = "idle"
    BY Passing
  <2>5. runner'[r].pc \in {"idle", "between"}
    BY <2>3, <2>4 DEF Becomes
  <2>. QED
    BY <2>5 DEF Busy
<1>2. CASE \/ Complete(r) \/ Refuse(r) \/ Fail(r)
           \/ \E e \in Symbols \X Sides : LoseAnswer(r, e)
  <2>1. Busy(r) /\ (Complete(r) \/ Failed(r))
    BY <1>2 DEF Complete, Refuse, Fail, LoseAnswer, Asks, Turn, At, Busy
  <2>2. \E d, left : Becomes(r, Pass(d, left))
    BY <2>1, Ending
  <2>3. runner'[r].pc = "between"
    BY <2>2, Passing DEF Becomes
  <2>. QED
    BY <2>3 DEF Busy
<1>. QED
  BY <1>1, <1>2

LEMMA InformedOwn ==
  ASSUME Typed, Typed', BookInv, NEW r \in Runners, Step(r), Stamps, Unfilled, Quiet,
         \A s \in Sleeves, sym \in Symbols : Sized(s, sym),
         NEW s \in Sleeves, Busy(r)', MySleeve(r)' = s, Busy(r) /\ MySleeve(r) = s => Informed(r, s)
  PROVE  Informed(r, s)'
<1>1. CASE Begin(r)
  <2>1. runner'[r].pc = "sync"
    BY <1>1, Beginning
  <2>. QED
    BY <2>1 DEF Informed, At
<1>2. ASSUME Busy(r), Goes(r, runner'[r].pc), UNCHANGED runs
      PROVE  MySleeve(r) = s /\ Informed(r, s)
  BY <1>2 DEF Goes, MySleeve, Run
<1>3. CASE SyncRead(r) \/ SyncCommit(r)
  <2>1. Busy(r) /\ Goes(r, runner'[r].pc) /\ UNCHANGED runs
    BY <1>3, Syncing DEF SyncRead, SyncCommit, Goes, Busy
  <2>. QED
    BY <1>2, <1>3, <2>1, LearnsSync
<1>4. CASE \/ ListPositions(r) \/ ListOrders(r) \/ Check(r) \/ Evaluate(r)
           \/ \E e \in Symbols \X Sides : Skip(r, e) \/ Reject(r, e)
  <2>1. Ponders(r)
    BY <1>4, Pondering
  <2>2. Busy(r) /\ Goes(r, runner'[r].pc) /\ UNCHANGED runs
    BY <2>1 DEF Ponders, Goes, Busy
  <2>3. MySleeve(r) = s /\ Informed(r, s)
    BY <1>2, <2>2
  <2>4. CASE ListPositions(r)
    BY <2>3, <2>4, LearnsPositions
  <2>5. CASE ListOrders(r)
    BY <2>3, <2>5, LearnsOrders
  <2>6. CASE Check(r)
    BY <2>3, <2>6, ActsCheck
  <2>7. CASE Evaluate(r)
    BY <2>3, <2>7, ActsEvaluate
  <2>8. ASSUME NEW e \in Symbols \X Sides, Skip(r, e) \/ Reject(r, e) PROVE Informed(r, s)'
    BY <2>3, <2>8, ActsPasses
  <2>. QED
    BY <1>4, <2>4, <2>5, <2>6, <2>7, <2>8
<1>5. CASE Record(r)
  <2>1. Busy(r) /\ Goes(r, runner'[r].pc) /\ UNCHANGED runs
    BY <1>5, Recording DEF Record, Goes, Busy
  <2>. QED
    BY <1>2, <1>5, <2>1, ActsRecord
<1>6. ASSUME NEW e \in Symbols \X Sides, Submit(r, e) PROVE Informed(r, s)'
  <2>1. Busy(r) /\ Goes(r, runner'[r].pc) /\ UNCHANGED runs
    BY <1>6, Sending DEF Submit, Goes, Busy
  <2>. QED
    BY <1>2, <1>6, <2>1, ActsSubmit
<1>. QED
  BY <1>1, <1>3, <1>4, <1>5, <1>6, Leaving DEF Step

LEMMA NextLot ==
  ASSUME Typed, Typed', BookInv, LotInv, [Next]_vars
  PROVE  LotInv'
<1>1. CASE UNCHANGED vars
  <2>1. UNCHANGED <<today, orders, ledger, runs, runner, faults, calm>>
    BY <1>1 DEF vars
  <2>2. Stamps' /\ Unfilled'
    BY <2>1 DEF LotInv, Stamps, Unfilled, OrderIds
  <2>3. CASE calm
    <3>1. Quiet
      BY <2>3 DEF LotInv
    <3>2. ~Overlap' /\ ~LostSale'
      BY <2>1, <3>1 DEF Quiet, Overlap, LostSale, Busy, At, OrderIds, Tracked
    <3>3. \A s \in Sleeves, sym \in Symbols :
            HeldBy(s, sym)' = HeldBy(s, sym) /\ BookedBy(s, sym)' = BookedBy(s, sym)
      <4> SUFFICES ASSUME NEW s \in Sleeves, NEW sym \in Symbols
                   PROVE  HeldBy(s, sym)' = HeldBy(s, sym) /\ BookedBy(s, sym)' = BookedBy(s, sym)
        OBVIOUS
      <4>1. Mine(s, sym)' = Mine(s, sym) /\ Moved' = Moved /\ Entered' = Entered /\ Tracked' = Tracked
        BY <2>1 DEF Mine, Moved, Entered, OrderIds, Tracked, Sleeve, Signed
      <4>. QED
        BY <4>1 DEF HeldBy, BookedBy
    <3>4. ~Masked'
      <4> SUFFICES ASSUME NEW r \in Runners, NEW sym \in Symbols, NEW s, s = MySleeve(r),
                          At(r, "orders"), Held(sym)' = Booked(sym)', 
                          HeldBy(s, sym)' # BookedBy(s, sym)'
                   PROVE  FALSE
        BY <2>1 DEF Masked, At, MySleeve, Run
      <4>1. s \in Sleeves
        <5>1. Sound(r) /\ Busy(r) /\ runs \in Seq(RunSet)
          BY DEF Typed, Busy, At
        <5>2. runner[r].run \in DOMAIN runs
          BY <5>1 DEF Sound
        <5>3. Run(r) \in RunSet
          BY <5>1, <5>2 DEF Run
        <5>. QED
          BY <5>3 DEF RunSet, MySleeve
      <4>. QED
        BY <2>1, <3>1, <3>3, <4>1, Quietly DEF Quiet, Masked
    <3>5. \A s \in Sleeves, sym \in Symbols : Sized(s, sym)'
      BY <2>1, <2>3, SameElsewhere, Still DEF LotInv
    <3>6. ASSUME NEW r \in Runners, NEW s \in Sleeves, Busy(r)', MySleeve(r)' = s
          PROVE  Informed(r, s)'
      <4>1. Busy(r) /\ MySleeve(r) = s
        BY <2>1, <3>6 DEF Busy, MySleeve, Run
      <4>. QED
        BY <2>1, <2>3, <4>1, InformedSame DEF LotInv
    <3>. QED
      BY <2>2, <3>2, <3>4, <3>5, <3>6 DEF LotInv, Quiet
  <2>. QED
    BY <2>1, <2>2, <2>3 DEF LotInv
<1>2. CASE Next
  <2>1. Stamps' /\ Unfilled'
    BY <1>2, StampsKept DEF LotInv
  <2>2. CASE calm'
    <3>1. calm /\ Peace
      BY <1>2, <2>2 DEF Next, Watch, Peace
    <3>2. /\ Quiet /\ Stamps /\ Unfilled /\ \A s \in Sleeves, sym \in Symbols : Sized(s, sym)
          /\ \A r \in Runners, s \in Sleeves : Busy(r) /\ MySleeve(r) = s => Informed(r, s)
      BY <3>1 DEF LotInv
    <3>3. \A s \in Sleeves, sym \in Symbols : Sized(s, sym)'
      BY <1>2, <3>1, <3>2, NextSized
    <3>4. ASSUME NEW q \in Runners, NEW s \in Sleeves, Busy(q)', MySleeve(q)' = s
          PROVE  Informed(q, s)'
      <4>1. Busy(q) /\ MySleeve(q) = s => Informed(q, s)
        BY <3>2
      <4>2. CASE NextDay
        <5>1. UNCHANGED <<orders, ledger, runs, runner>>
          BY <4>2 DEF NextDay
        <5>2. Informed(q, s)
          BY <3>4, <4>1, <5>1 DEF Busy, MySleeve, Run
        <5>. QED
          BY <5>1, <5>2, InformedSame
      <4>3. ASSUME NEW o \in OrderIds, Fill(o) \/ Expire(o) PROVE Informed(q, s)'
        BY <3>1, <3>2, <3>4, <4>1, <4>3, InformedWorked DEF Peace
      <4>4. ASSUME NEW r \in Runners, Step(r) PROVE Informed(q, s)'
        <5>1. CASE q = r
          BY <3>2, <3>4, <4>1, <4>4, <5>1, InformedOwn
        <5>2. CASE q # r
          BY <3>1, <3>2, <3>4, <4>1, <4>4, <5>2, InformedOthers DEF Peace, Quiet
        <5>. QED
          BY <5>1, <5>2
      <4>. QED
        BY <1>2, <4>2, <4>3, <4>4 DEF Next
    <3>. QED
      BY <2>1, <3>1, <3>3, <3>4 DEF LotInv, Peace, Quiet
  <2>. QED
    BY <2>1, <2>2 DEF LotInv
<1>. QED
  BY <1>1, <1>2

LEMMA InitLot == Init => LotInv
<1> SUFFICES ASSUME Init PROVE LotInv
  OBVIOUS
<1>1. OrderIds = {} /\ \A r \in Runners : runner[r].pc = "idle"
  BY DEF Init, OrderIds, Idle
<1>2. Typed
  BY InitTyped
<1>3. Stamps /\ Unfilled /\ Quiet
  BY <1>1 DEF Stamps, Unfilled, Quiet, Overlap, LostSale, Masked, Busy, At
<1>4. ASSUME NEW s \in Sleeves, NEW sym \in Symbols PROVE Sized(s, sym)
  <2>1. Mine(s, sym) = {} /\ Counted(s, sym) = {}
    BY <1>1 DEF Mine, Counted
  <2>2. SumFunctionOnSet(Moved, {}) = 0
    BY SumTypes
  <2>3. HeldBy(s, sym) = 0
    BY <2>1, <2>2 DEF HeldBy
  <2>4. ASSUME NEW t \in Int PROVE SureAt(s, sym, t) = 0
    <3>1. {o \in Counted(s, sym) : orders[o].at <= t} = {}
      BY <2>1
    <3>. QED
      BY <2>2, <3>1 DEF SureAt
  <2>. QED
    BY <2>1, <2>3, <2>4, PaperAssumption DEF Sized, Alone, NeverShort, SalesCovered, Room
<1>. QED
  BY <1>1, <1>3, <1>4 DEF LotInv, Busy

LEMMA LotHolds == Typed /\ LotInv => OneLotAtMost
<1> SUFFICES ASSUME Typed, LotInv, calm, NEW s \in Sleeves, NEW sym \in Symbols
             PROVE  HeldBy(s, sym) \in 0 .. Lot
  BY DEF OneLotAtMost
<1>1. /\ HeldBy(s, sym) \in Int /\ Sure(s, sym) \in Int
      /\ 0 <= Sure(s, sym) /\ Sure(s, sym) <= HeldBy(s, sym) /\ HeldBy(s, sym) <= Lot
  BY SizedBounds DEF LotInv
<1>. QED
  BY <1>1, PaperAssumption

THEOREM LotKept == Spec => []OneLotAtMost
<1>1. Spec => []Typed
  BY InitTyped, NextTyped, PTL DEF Spec
<1>2. Spec => []BookInv
  BY <1>1, InitBook, NextBook, PTL DEF Spec
<1>3. Typed /\ Typed' /\ BookInv /\ LotInv /\ [Next]_vars => LotInv'
  BY NextLot
<1>4. Spec => []LotInv
  BY <1>1, <1>2, <1>3, InitLot, PTL DEF Spec
<1>. QED
  BY <1>1, <1>4, LotHolds, PTL

=============================================================================

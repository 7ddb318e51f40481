----------------------------- MODULE PaperOrders -----------------------------
(***************************************************************************)
(* Paper trading: paper_trading_service.py, paper_trading_scheduler.py and *)
(* the isolation report of paper_account_service.py, over one account at   *)
(* the broker that several strategies of a portfolio share.                *)
(*                                                                         *)
(* A run of a strategy commits its StrategyRun row, reconciles the orders  *)
(* it knows, reads positions and open orders from the broker, refuses to   *)
(* go on if these do not match the ledger, evaluates the day, and sends    *)
(* its orders one by one, writing a ledger row after each answer. Runs of  *)
(* the scheduler, of the API and of an activation can overlap; the broker  *)
(* fills and expires orders when it likes; an answer can be lost and a     *)
(* process can die at any point.                                           *)
(*                                                                         *)
(* Prices are all 1, so that money and shares are counted in one unit.     *)
(* Staged entries, fractional quantities and the limit that the broker's   *)
(* own cash puts on a purchase are left out. The purchases of support/     *)
(* resistance strategies, which wait for the next open, are PaperEntries.  *)
(***************************************************************************)
EXTENDS Integers, Sequences, FiniteSets, Functions, FiniteSetsExt, SequencesExt

CONSTANTS
  Sleeves,        \* strategies with an allocation of the portfolio
  Allocated,      \* the order in which a pass takes them
  Symbols,
  Runners,        \* threads that run strategies
  Schedulers,     \* those of a PaperTradingDailyScheduler
  Capital,        \* capital_base of every sleeve
  Lot,            \* equity * position_size_pct
  MaxPositions,   \* risk.max_positions
  LastDay,        \* bound: trade dates
  MaxRuns,        \* bound: StrategyRun rows
  MaxOrders,      \* bound: orders the broker ever accepts
  MaxFaults       \* bound: lost answers, failed calls, dead processes

ASSUME PaperAssumption ==
  /\ Allocated \in Seq(Sleeves) /\ Range(Allocated) = Sleeves
  /\ Schedulers \subseteq Runners
  /\ Capital \in Nat /\ Lot \in Nat \ {0} /\ MaxPositions \in Nat \ {0}
  /\ LastDay \in Nat \ {0} /\ MaxRuns \in Nat /\ MaxOrders \in Nat /\ MaxFaults \in Nat

VARIABLES
  today,      \* latest trade date whose features are complete
  orders,     \* the broker's orders; the order id is the index
  ledger,     \* order id -> what its Transaction row says of it
  runs,       \* StrategyRun rows
  runner,     \* where a thread is and what it holds in memory
  faults,     \* faults so far
  calm        \* history: no run overlapped another, no answer to a sale was
              \* lost, no two mismatches of sleeves made up for each other, the
              \* market did not move under a run, and nothing was sold while
              \* its purchase was still open

vars == <<today, orders, ledger, runs, runner, faults, calm>>

Sides == {"BUY", "SELL"}
Days  == 1 .. LastDay

OrderIds == 1 .. Len(orders)
Tracked  == DOMAIN ledger

\* Fault: every run makes its own ids.
ClientOrderIdPerRun(s, d, sym, side, n) == <<s, d, sym, side, n>>

\* _client_order_id: what an order is for. The broker refuses a second order
\* with the same one.
ClientOrderId(s, d, sym, side, n) == <<s, d, sym, side>>

Sleeve(o) == orders[o].run.sleeve
Signed(side, n) == IF side = "BUY" THEN n ELSE -n

\* What an order has moved at the broker, and what its row says it has.
Moved   == [o \in OrderIds |-> Signed(orders[o].side, orders[o].filled)]
Entered == [o \in Tracked  |-> Signed(orders[o].side, ledger[o].filled)]

\* What the broker holds, and what the ledger says it should: of the account,
\* and of one sleeve.
Held(sym)   == SumFunctionOnSet(Moved, {o \in OrderIds : orders[o].sym = sym})
Booked(sym) == SumFunctionOnSet(Entered, {o \in Tracked : orders[o].sym = sym})

Mine(s, sym)     == {o \in OrderIds : Sleeve(o) = s /\ orders[o].sym = sym}
HeldBy(s, sym)   == SumFunctionOnSet(Moved, Mine(s, sym))
BookedBy(s, sym) == SumFunctionOnSet(Entered, Mine(s, sym) \cap Tracked)

\* The broker's clock counts the events of its orders.
Now == IF orders = <<>> THEN 0 ELSE Max({orders[o].at : o \in OrderIds})

-----------------------------------------------------------------------------
(* The ledger.                                                              *)

\* _upsert_paper_broker_order_transaction: a row says what the answer said.
Upserted(rows) ==
  [o \in Tracked \cup DOMAIN rows |-> IF o \in DOMAIN rows THEN rows[o] ELSE ledger[o]]

\* What an answer of the broker shows of an order.
Answer(o) == [filled |-> orders[o].filled, open |-> orders[o].open, at |-> orders[o].at]

\* _sync_strategy_pending_orders asks again for rows without a final status.
NeedsSync(s) == {o \in Tracked : Sleeve(o) = s /\ ledger[o].open}

\* _apply_virtual_fill: a sale of more than is held leaves nothing.
ApplyFill(book, sym, side, n) ==
  [cash |-> book.cash - Signed(side, n),
   qty  |-> [book.qty EXCEPT ![sym] =
               IF side = "BUY" THEN @ + n ELSE Max({@ - n, 0})]]

\* The fills that the rows of a sleeve show.
Fills(s) ==
  [o \in {o \in Tracked : Sleeve(o) = s /\ ledger[o].filled > 0} |->
    [sym |-> orders[o].sym, side |-> orders[o].side, n |-> ledger[o].filled, at |-> ledger[o].at]]

Latest(fills, S) == CHOOSE o \in S : \A p \in S : fills[p].at <= fills[o].at

\* The fills are applied in the order of the broker's time stamps: the latest
\* to what the others leave.
Replayed(fills) ==
  MapThenFoldSet(LAMBDA fill, book : ApplyFill(book, fill.sym, fill.side, fill.n),
                 [cash |-> Capital, qty |-> [sym \in Symbols |-> 0]],
                 LAMBDA o : fills[o], LAMBDA S : Latest(fills, S), DOMAIN fills)

\* _rebuild_virtual_subportfolio_state.
Rebuilt(s) == Replayed(Fills(s))

Positions(book) == {sym \in Symbols : book.qty[sym] > 0}

-----------------------------------------------------------------------------
(* Runs.                                                                    *)

Idle == [pc |-> "idle", day |-> 0, left |-> <<>>, run |-> 0, seen |-> <<>>, positions |-> <<>>,
         open |-> {}, todo |-> {}, book |-> <<>>]

\* A list of strategies to run for a trade date; a strategy's run starts afresh.
Pass(d, left) == [Idle EXCEPT !.pc = "between", !.day = d, !.left = left]

Run(r)    == runs[runner[r].run]
MySleeve(r) == Run(r).sleeve
At(r, pc) == runner[r].pc = pc

Busy(r) == runner[r].pc \notin {"idle", "between"}

\* Fault: a run that failed does not count.
HasSchedulerRunCompleted(d) ==
  \E i \in DOMAIN runs : runs[i].scheduled /\ runs[i].day = d /\ runs[i].status = "completed"

\* _has_scheduler_run_for_trade_date: a run of whatever outcome counts.
HasSchedulerRun(d) == \E i \in DOMAIN runs : runs[i].scheduled /\ runs[i].day = d

\* A later trade date becomes complete.
NextDay ==
  /\ today < LastDay /\ today' = today + 1
  /\ UNCHANGED <<orders, ledger, runs, runner, faults>>

\* _poll_once finds nothing recorded for the date and takes the portfolio; the
\* runs are created later, in other sessions.
Poll(r) ==
  /\ r \in Schedulers /\ At(r, "idle") /\ ~HasSchedulerRun(today)
  /\ runner' = [runner EXCEPT ![r] = Pass(today, Allocated)]
  /\ UNCHANGED <<today, orders, ledger, runs, faults>>

\* POST /run for one strategy, POST /run-multi and an activation for all.
Request(r) ==
  /\ r \notin Schedulers /\ At(r, "idle")
  /\ \E d \in 1 .. today, left \in {<<s>> : s \in Sleeves} \cup {Allocated} :
       runner' = [runner EXCEPT ![r] = Pass(d, left)]
  /\ UNCHANGED <<today, orders, ledger, runs, faults>>

\* run_paper_trading commits its row before anything else.
Begin(r) ==
  /\ At(r, "between") /\ runner[r].left # <<>> /\ Len(runs) < MaxRuns
  /\ runs' = Append(runs, [sleeve |-> Head(runner[r].left), day |-> runner[r].day,
                           scheduled |-> r \in Schedulers, status |-> "running"])
  /\ runner' = [runner EXCEPT ![r].pc = "sync", ![r].left = Tail(@), ![r].run = Len(runs) + 1]
  /\ UNCHANGED <<today, orders, ledger, faults>>

\* The pass is over, or the bound is reached.
Rest(r) ==
  /\ At(r, "between") /\ (runner[r].left = <<>> \/ Len(runs) = MaxRuns)
  /\ runner' = [runner EXCEPT ![r] = Idle]
  /\ UNCHANGED <<today, orders, ledger, runs, faults>>

\* The broker is asked for every order that is not final ...
SyncRead(r) ==
  /\ At(r, "sync")
  /\ runner' = [runner EXCEPT ![r].pc = "synced",
                              ![r].seen = [o \in NeedsSync(MySleeve(r)) |-> Answer(o)]]
  /\ UNCHANGED <<today, orders, ledger, runs, faults>>

\* ... and all answers are committed together, over whatever the rows say now.
SyncCommit(r) ==
  /\ At(r, "synced")
  /\ ledger' = Upserted(runner[r].seen)
  /\ runner' = [runner EXCEPT ![r].pc = "positions", ![r].seen = <<>>]
  /\ UNCHANGED <<today, orders, runs, faults>>

ListPositions(r) ==
  /\ At(r, "positions")
  /\ runner' = [runner EXCEPT ![r].pc = "orders",
                              ![r].positions = [sym \in Symbols |-> Held(sym)]]
  /\ UNCHANGED <<today, orders, ledger, runs, faults>>

ListOrders(r) ==
  /\ At(r, "orders")
  /\ runner' = [runner EXCEPT ![r].pc = "check", ![r].open = {o \in OrderIds : orders[o].open}]
  /\ UNCHANGED <<today, orders, ledger, runs, faults>>

\* build_broker_account_isolation_report: an open order without a row, or a
\* position that is not what the rows of the whole account add up to. The report
\* goes over the broker's positions: one the ledger has and the broker has not is
\* never looked at.
Blocked(r) ==
  \/ runner[r].open \ Tracked # {}
  \/ \E sym \in Symbols :
       runner[r].positions[sym] # 0 /\ runner[r].positions[sym] # Booked(sym)

Check(r) ==
  /\ At(r, "check") /\ ~Blocked(r)
  /\ runner' = [runner EXCEPT ![r].pc = "evaluate", ![r].positions = <<>>]
  /\ UNCHANGED <<today, orders, ledger, runs, faults>>

\* Fault: the open orders are not handed on to the execution.
EvaluateUnaware(r) ==
  /\ At(r, "evaluate")
  /\ \E todo \in SUBSET (Symbols \X Sides) :
       /\ \A e, f \in todo : e[1] = f[1] => e = f
       /\ runner' = [runner EXCEPT ![r].pc = "trade", ![r].todo = todo, ![r].open = {},
                                   ![r].book = Rebuilt(MySleeve(r))]
  /\ UNCHANGED <<today, orders, ledger, runs, faults>>

\* The sleeve is rebuilt, the strategy is evaluated, its signals stay in the
\* session of the run.
Evaluate(r) ==
  /\ At(r, "evaluate")
  /\ \E todo \in SUBSET (Symbols \X Sides) :
       /\ \A e, f \in todo : e[1] = f[1] => e = f
       /\ runner' = [runner EXCEPT
            ![r].pc = "trade", ![r].todo = todo, ![r].book = Rebuilt(MySleeve(r)),
            ![r].open = {<<orders[o].sym, orders[o].side>> : o \in @}]
  /\ UNCHANGED <<today, orders, ledger, runs, faults>>

\* _execute_paper_orders takes the sales first.
Turn(r, e) ==
  /\ At(r, "trade") /\ e \in runner[r].todo
  /\ e[2] = "BUY" => \A f \in runner[r].todo : f[2] = "BUY"

Done(r, e) == [runner EXCEPT ![r].pc = "trade", ![r].todo = @ \ {e}]

\* How many shares are asked for. A sale empties the position; a purchase is
\* limited by the sleeve's cash, as far as it is known to be spent.
Quantity(r, e) ==
  LET book == runner[r].book IN
  IF e \in runner[r].open THEN 0
  ELSE IF e[2] = "SELL" THEN book.qty[e[1]]
  ELSE IF e[1] \notin Positions(book) /\ Cardinality(Positions(book)) < MaxPositions
       THEN Min({Lot, Max({book.cash, 0})})
       ELSE 0

\* Nothing is asked for but a number of whole shares.
Asks(r, e) == Turn(r, e) /\ Quantity(r, e) \in Nat \ {0}

\* An open order of the same side, nothing to sell, already held, no slot, no cash.
Skip(r, e) ==
  /\ Turn(r, e) /\ Quantity(r, e) = 0
  /\ runner' = Done(r, e)
  /\ UNCHANGED <<today, orders, ledger, runs, faults>>

MyClientOrderId(r, e) == ClientOrderId(MySleeve(r), Run(r).day, e[1], e[2], runner[r].run)
Known(cid) == \E o \in OrderIds : orders[o].cid = cid

Accepted(r, e, filled) ==
  Append(orders, [cid |-> MyClientOrderId(r, e), run |-> [sleeve |-> MySleeve(r), n |-> runner[r].run],
                  sym |-> e[1], side |-> e[2], qty |-> Quantity(r, e),
                  filled |-> filled, open |-> filled < Quantity(r, e), at |-> Now + 1])

\* The broker accepts the order, and may fill it at once. Its answer is in memory.
Submit(r, e) ==
  /\ Asks(r, e)
  /\ ~Known(MyClientOrderId(r, e)) /\ Len(orders) < MaxOrders
  /\ \E filled \in {0, Quantity(r, e)} :
       /\ orders' = Accepted(r, e, filled)
       /\ runner' = [runner EXCEPT ![r].pc = "answered",
                       ![r].seen = [o \in {Len(orders) + 1} |->
                         [filled |-> filled, open |-> filled < Quantity(r, e), at |-> Now + 1]]]
  /\ UNCHANGED <<today, ledger, runs, faults>>

\* AlpacaAPIError, for a client order id the broker knows or for a reason of its
\* own: the outcome is failed, there is no row, and the run goes on.
Reject(r, e) ==
  /\ Asks(r, e)
  /\ runner' = Done(r, e)
  /\ UNCHANGED <<today, orders, ledger, runs, faults>>

\* The row is committed, and the fill is applied to the sleeve in memory.
Record(r) ==
  /\ At(r, "answered")
  /\ \E o \in DOMAIN runner[r].seen :
       LET e == <<orders[o].sym, orders[o].side>> IN
       /\ ledger' = Upserted(runner[r].seen)
       /\ runner' = [Done(r, e) EXCEPT
            ![r].seen = <<>>,
            ![r].open = @ \cup {e},
            ![r].book = ApplyFill(@, e[1], e[2], runner[r].seen[o].filled)]
  /\ UNCHANGED <<today, orders, runs, faults>>

\* The run, its signals and its snapshot are committed.
Complete(r) ==
  /\ At(r, "trade") /\ runner[r].todo = {}
  /\ runs' = [runs EXCEPT ![runner[r].run].status = "completed"]
  /\ runner' = [runner EXCEPT ![r] = Pass(runner[r].day, runner[r].left)]
  /\ UNCHANGED <<today, orders, ledger, faults>>

\* The handler of run_paper_trading rolls back and marks the run. The scheduler
\* (continue_on_error, its default) goes on with the next strategy, a request need not.
Failed(r) ==
  /\ runs' = [runs EXCEPT ![runner[r].run].status = "failed"]
  /\ \E left \in IF r \in Schedulers THEN {runner[r].left} ELSE {runner[r].left, <<>>} :
       runner' = [runner EXCEPT ![r] = Pass(runner[r].day, left)]

Refuse(r) ==
  /\ At(r, "check") /\ Blocked(r) /\ Failed(r)
  /\ UNCHANGED <<today, orders, ledger, faults>>

\* Only AlpacaAPIError is caught where an order is sent: anything else ends the
\* run, a database error after the answer too.
Fail(r) ==
  /\ Busy(r) /\ faults < MaxFaults /\ faults' = faults + 1
  /\ Failed(r)
  /\ UNCHANGED <<today, orders, ledger>>

\* Fault: the lost answer is taken for a refusal.
LoseAnswerQuietly(r, e) ==
  /\ faults < MaxFaults /\ faults' = faults + 1
  /\ Asks(r, e)
  /\ ~Known(MyClientOrderId(r, e)) /\ Len(orders) < MaxOrders
  /\ orders' = Accepted(r, e, 0)
  /\ runner' = Done(r, e)
  /\ UNCHANGED <<today, ledger, runs>>

\* The broker has the order, and its answer never arrives.
LoseAnswer(r, e) ==
  /\ faults < MaxFaults /\ faults' = faults + 1
  /\ Asks(r, e)
  /\ ~Known(MyClientOrderId(r, e)) /\ Len(orders) < MaxOrders
  /\ orders' = Accepted(r, e, 0)
  /\ Failed(r)
  /\ UNCHANGED <<today, ledger>>

\* The process dies: its run stays as it is, and nobody looks after it.
Die(r) ==
  /\ ~At(r, "idle") /\ faults < MaxFaults /\ faults' = faults + 1
  /\ runner' = [runner EXCEPT ![r] = Idle]
  /\ UNCHANGED <<today, orders, ledger, runs>>

-----------------------------------------------------------------------------
(* The broker.                                                              *)

Fill(o) ==
  /\ orders[o].open
  /\ \E n \in orders[o].filled + 1 .. orders[o].qty :
       orders' = [orders EXCEPT ![o].filled = n, ![o].open = n < orders[o].qty, ![o].at = Now + 1]
  /\ UNCHANGED <<today, ledger, runs, runner, faults>>

\* Orders are good for the day.
Expire(o) ==
  /\ orders[o].open
  /\ orders' = [orders EXCEPT ![o].open = FALSE, ![o].at = Now + 1]
  /\ UNCHANGED <<today, ledger, runs, runner, faults>>

-----------------------------------------------------------------------------
(* What the promise of a sleeve's size depends on.                          *)

Overlap == \E q, r \in Runners : q # r /\ Busy(q) /\ Busy(r)

\* A sale the broker has and no row, nor the run that sent it, knows of.
LostSale ==
  \E o \in OrderIds \ Tracked :
    /\ orders[o].side = "SELL"
    /\ \A r \in Runners : ~(At(r, "answered") /\ o \in DOMAIN runner[r].seen)

\* The broker's orders change between the answers a run collects from it.
MarketMoves ==
  /\ \E r \in Runners : runner[r].pc \in {"synced", "positions", "orders"}
  /\ \E o \in OrderIds : orders'[o] # orders[o]

\* A sale is accepted while a purchase of the same position is still open.
SoldEarly ==
  /\ Len(orders') > Len(orders) /\ orders'[Len(orders')].side = "SELL"
  /\ \E o \in OrderIds : /\ orders[o].open /\ orders[o].side = "BUY"
                         /\ orders[o].sym = orders'[Len(orders')].sym
                         /\ Sleeve(o) = orders'[Len(orders')].run.sleeve

\* The account adds up and the sleeve of the run does not: a purchase of it that
\* no row shows has filled, and a fill that another sleeve has yet to read makes
\* up for it. The isolation report goes by the account.
Masked ==
  \E r \in Runners, sym \in Symbols :
    /\ At(r, "orders") /\ Held(sym) = Booked(sym)
    /\ HeldBy(MySleeve(r), sym) # BookedBy(MySleeve(r), sym)

Watch == calm' = (calm /\ ~Overlap' /\ ~LostSale' /\ ~Masked' /\ ~MarketMoves /\ ~SoldEarly)

-----------------------------------------------------------------------------
Init ==
  /\ today = 1 /\ orders = <<>> /\ ledger = <<>> /\ runs = <<>>
  /\ runner = [r \in Runners |-> Idle] /\ faults = 0 /\ calm = TRUE

Step(r) ==
  \/ Poll(r) \/ Request(r) \/ Begin(r) \/ Rest(r)
  \/ SyncRead(r) \/ SyncCommit(r) \/ ListPositions(r) \/ ListOrders(r)
  \/ Check(r) \/ Refuse(r) \/ Evaluate(r) \/ Record(r) \/ Complete(r) \/ Fail(r) \/ Die(r)
  \/ \E e \in Symbols \X Sides : Skip(r, e) \/ Submit(r, e) \/ Reject(r, e) \/ LoseAnswer(r, e)

Next ==
  /\ \/ NextDay
     \/ \E r \in Runners : Step(r)
     \/ \E o \in OrderIds : Fill(o) \/ Expire(o)
  /\ Watch

Spec == Init /\ [][Next]_vars

-----------------------------------------------------------------------------
(* Properties.                                                              *)

\* Every variable stays in its set: rows are about orders that exist, a busy
\* thread works on a row of runs, what it knows of positions is about symbols.
TypeOK ==
  /\ today \in Days /\ faults \in 0 .. MaxFaults /\ calm \in BOOLEAN
  /\ orders \in Seq([cid : Sleeves \X Days \X Symbols \X Sides,
                     run : [sleeve : Sleeves, n : DOMAIN runs],
                     sym : Symbols, side : Sides, qty : Nat,
                     filled : Nat, open : BOOLEAN, at : Nat])
  /\ Tracked \subseteq OrderIds
  /\ \A o \in Tracked : ledger[o] \in [filled : Nat, open : BOOLEAN, at : Nat]
  /\ runs \in Seq([sleeve : Sleeves, day : Days, scheduled : BOOLEAN,
                   status : {"running", "completed", "failed"}])
  /\ \A r \in Runners :
       /\ DOMAIN runner[r].seen \subseteq OrderIds /\ runner[r].todo \subseteq Symbols \X Sides
       /\ runner[r].left \in Seq(Sleeves) /\ runner[r].day \in 0 .. today
       /\ IF Busy(r) THEN runner[r].run \in DOMAIN runs ELSE runner[r].run = 0

\* What was asked of the broker, and what the rows show of it.
Asked ==
  [o \in OrderIds |->
    [intent |-> <<Sleeve(o), runs[orders[o].run.n].day, orders[o].sym, orders[o].side>>,
     qty |-> orders[o].qty, filled |-> orders[o].filled, closed |-> ~orders[o].open]]

Shown == [o \in Tracked |-> [filled |-> ledger[o].filled, closed |-> ~ledger[o].open]]

\* Whatever runs overlap, repeat or die: an instruction of a strategy for a day
\* becomes at most one order, and the rows never show a fill the broker has not
\* made, nor a final order before it is final. (_client_order_id,
\* _upsert_paper_broker_order_transaction, _sync_strategy_pending_orders)
Book == INSTANCE OrderBook WITH asked <- Asked, booked <- Shown

OneOrderPerIntent == Book!Spec

\* A run recorded as completed has a row for every order it sent: whatever the
\* broker holds on its behalf is found again by the next run. An exception the
\* run does not expect must therefore end it. (run_paper_trading,
\* _submit_paper_order)
CompletedRunOwnsItsOrders ==
  \A o \in OrderIds : runs[orders[o].run.n].status = "completed" => o \in Tracked

\* One scheduler process asks for one run of a strategy a day, however often it
\* polls and whatever became of the run. (_has_scheduler_run_for_trade_date)
ScheduledOnce ==
  \A i, j \in DOMAIN runs :
    (runs[i].scheduled /\ runs[j].scheduled /\ runs[i].day = runs[j].day
     /\ runs[i].sleeve = runs[j].sleeve) => i = j

\* A sleeve is never short and never holds more than one position's worth of a
\* symbol, over any number of days, partial fills, expiries, refusals and lost
\* purchases: as long as runs do not overlap, no answer to a sale is lost, the
\* market does not move while a run collects what the broker has, nothing is sold
\* while its purchase is open, and no stale row of another sleeve makes up for a
\* purchase without one. (_rebuild_virtual_subportfolio_state, _open_order_keys,
\* build_broker_account_isolation_report)
OneLotAtMost ==
  calm => \A s \in Sleeves, sym \in Symbols : HeldBy(s, sym) \in 0 .. Lot

\* Broken by the program: a sleeve holds no more symbols than max_positions.
SlotsKept ==
  \A s \in Sleeves : Cardinality({sym \in Symbols : HeldBy(s, sym) > 0}) <= MaxPositions
=============================================================================

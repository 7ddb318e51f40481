--------------------------- MODULE BacktestKernel ---------------------------
(***************************************************************************)
(* The native backtest session (BacktestState of backtest_kernel.cpp): the *)
(* engine creates it, feeds it the prepared dataset chunk by chunk with    *)
(* consume, and collects the result with finish.  A chunk is a run of      *)
(* consecutive sessions; those before the start date only warm the         *)
(* detectors up.  In a formal session the kernel adjusts positions for     *)
(* splits, writes delisted ones off, fills the orders decided in the       *)
(* session before, SELL before BUY, lets the threads of DayExecutor decide *)
(* every row, values the positions and asks the control callback whether   *)
(* the run has been cancelled.                                             *)
(*                                                                         *)
(* Money is whole: quantities and averages are rounded down where the code *)
(* has doubles.  What the rows of a session hold is chosen when the session*)
(* begins, from the rows RowsOf allows for the strategy.                   *)
(***************************************************************************)
EXTENDS DayExecutor, DaySignals

CONSTANTS
    Instruments,     \* instrument ids: numbers, the rows are sorted by them
    Runs,            \* the backtests: kind, threads, dates, policy, cash, costs
    RowsOf(_, _, _), \* the rows of a strategy, an instrument and a date
    Splits,          \* Splits[date]: instrument -> factor
    Delisted,        \* Delisted[i]: the last date of i, or a late one
    MaxPositions, PositionPct, StageTargets, MinStrength, MinHistory

PatternKinds == {"island_reversal", "double_bottom", "head_shoulders_bottom",
                 "rounded_bottom", "v_reversal"}
Kinds == {"trend", "mean_reversion", "momentum_breakout", "support_resistance"} \union PatternKinds

(* Costs are not negative (create_backtest_state refuses them), a row has   *)
(* one open and one ATR, 0 when there is none, and one z-score at most;    *)
(* split factors are whole numbers here.                                   *)
ASSUME KernelAssumption ==
    /\ IsFiniteSet(Instruments) /\ Cardinality(Instruments) <= MaxRows
    /\ MaxPositions \in Nat
    /\ \A k \in Runs :
         /\ k.kind \in Kinds /\ k.threads \in 1 .. MaxThreads
         /\ k.start \in Nat \ {0} /\ k.last \in Nat /\ k.cash \in Nat
         /\ k.costs.pct \in Nat /\ k.costs.min \in Nat /\ k.costs.slippage \in Nat
         /\ \A d \in 1 .. k.last, i \in Instruments :
              /\ i \in DOMAIN Splits[d] => Splits[d][i] \in Nat \ {0}
              /\ \A row \in RowsOf(k.kind, i, d) :
                   row.open \in Nat /\ row.atr \in Nat /\ \A y, z \in row.zscore : y = z

(* The rows of a session are sorted by their instrument; a detector keeps  *)
(* some bars.                                                              *)
ASSUME HistoryAssumption ==
    /\ Instruments \subseteq Int
    /\ \A kind \in PatternKinds : HistoryLimit(kind) \in Nat \ {0}

VARIABLES
    run,     \* the backtest: an element of Runs; run.wide: its dates with many
             \* rows; bounds: run.cuts, where a chunk may end, and run.gaps,
             \* how many rows may be missing or unable to trade
    clock,   \* place in consume / finish, date, chunk, session counters
    book,    \* cash, positions, last marks, pending signals, row counts,
             \* detectors
    day,     \* the current session: rows, orders, decisions, equity
    gaps     \* rows missing or unable to trade so far, for the bound

kernelVars == <<run, clock, book, day, gaps>>
vars == <<executorVars, kernelVars>>

NoPosition == [qty |-> 0, avg |-> 0, entry |-> 0, setup |-> NoSetup, frozen |-> NoFrozen]
NoRow == [open |-> 0, high |-> 0, low |-> 0, close |-> 0, volume |-> 0, ratio |-> 0,
          atr |-> 0, cross |-> <<>>, zscore |-> {}, sma |-> 0, ret |-> 0, raw |-> <<>>,
          excluded |-> FALSE, market |-> "missing"]
NoDay == [rows |-> <<>>, sells |-> {}, buys |-> {}, decisions |-> {}, equity |-> 0]

Larger(a, b) == IF a >= b THEN a ELSE b

Init ==
    /\ ExecutorInit
    /\ run \in Runs
    /\ clock = [pc |-> "idle", date |-> 0, end |-> 0, formal |-> 0, offset |-> 0]
    /\ book = [cash |-> run.cash, held |-> [i \in Instruments |-> NoPosition],
               marks |-> [i \in Instruments |-> 0], pending |-> {},
               history |-> [i \in Instruments |-> 0],
               detector |-> [i \in Instruments |->
                             IF run.kind = "support_resistance" THEN NoSymbol ELSE NoDetector]]
    /\ day = NoDay
    /\ gaps = 0

Held(i) == book.held[i].qty > 0
HeldSet == {i \in Instruments : Held(i)}
HasRow(i) == i \in DOMAIN day.rows
Row(i) == day.rows[i]
CanTrade(i) == HasRow(i) /\ Row(i).open > 0
Session == clock.formal + clock.offset
WarmingUp == clock.date < run.start
Patterned == run.kind \in PatternKinds
Supported == run.kind = "support_resistance"

(* The row of an instrument: the rows of a session are sorted. *)
Place(i) == Cardinality({j \in DOMAIN day.rows : j <= i})

-----------------------------------------------------------------------------
(* Chunks. *)

(* consume: the chunk must follow the ones before it; the executor is made *)
(* for its widest session, and replaced once if a later chunk is wider.    *)
(* Starting the threads may fail; that the dictionaries of the chunk differ*)
(* from the first one's is found when the executor is made.                *)
Consume(end) ==
    LET n == IF \E d \in clock.date + 1 .. end : d \in run.wide THEN run.threads ELSE 1
        create == pool.threads = 0 \/ (pool.threads = 1 /\ n > 1)
    IN
    /\ clock.pc = "idle" /\ clock.date < end /\ end \in run.cuts
    /\ \/ /\ \E pc \in {"open"} \union (IF clock.date = 0 THEN {} ELSE {"raised"}) :
               clock' = [clock EXCEPT !.pc = pc, !.end = end]
          /\ IF create THEN CreateExecutor(n) ELSE UNCHANGED executorVars
       \/ /\ create /\ n > 1
          /\ clock' = [clock EXCEPT !.pc = "raised"]
          /\ UNCHANGED executorVars
    /\ UNCHANGED <<run, book, day, gaps>>

ConsumeRejected ==
    /\ clock.pc = "idle" /\ clock.date > 0
    /\ clock' = [clock EXCEPT !.pc = "raised"]
    /\ UNCHANGED <<executorVars, run, book, day, gaps>>

(* The rows of the next session: an instrument may have none. *)
SessionRows(date) ==
    LET some == UNION {RowsOf(run.kind, i, date) : i \in Instruments}
        full == {f \in [Instruments -> some \union {NoRow}] :
                   \A i \in Instruments : f[i] \in RowsOf(run.kind, i, date) \union {NoRow}}
    IN {[i \in {j \in Instruments : f[j] # NoRow} |-> f[i]] : f \in full}

Gaps(date, rows) ==
    Cardinality({i \in Instruments :
        RowsOf(run.kind, i, date) # {} /\ (i \in DOMAIN rows => rows[i].open = 0)})

SplitHeld(date) ==
    [i \in Instruments |->
       IF Held(i) /\ i \in DOMAIN Splits[date]
       THEN [book.held[i] EXCEPT !.qty = @ * Splits[date][i],
                                 !.avg = @ \div Splits[date][i]]
       ELSE book.held[i]]

(* A session begins: splits, write-offs, and the orders of the session     *)
(* before.  A warm-up session only has rows.                               *)
OpenSession ==
    LET date == clock.date + 1
        formal == date >= run.start
    IN
    /\ clock.pc = "open"
    /\ clock' = [clock EXCEPT !.date = date, !.pc = IF formal THEN "sells" ELSE "ask"]
    /\ \E rows \in SessionRows(date) :
         LET gone == {i \in HeldSet : i \notin DOMAIN rows /\ date > Delisted[i]} IN
         /\ rows # <<>>
         /\ run.threads > 1 =>
              ((date \in run.wide) = (Cardinality(DOMAIN rows) >= run.threads * RowsPerThread))
         /\ gaps' = gaps + Gaps(date, rows) /\ gaps' <= run.gaps
         /\ book' = [book EXCEPT
              !.history = [i \in Instruments |->
                             IF i \in DOMAIN rows THEN @[i] + 1 ELSE @[i]],
              !.held = IF formal
                       THEN [i \in Instruments |->
                               IF i \in gone THEN NoPosition ELSE SplitHeld(date)[i]]
                       ELSE @,
              !.marks = [i \in Instruments |-> IF formal /\ i \in gone THEN 0 ELSE @[i]]]
         /\ day' = [NoDay EXCEPT !.rows = rows,
                      !.sells = {s \in book.pending : s.side = "SELL"},
                      !.buys = {s \in book.pending : s.side = "BUY"}]
    /\ UNCHANGED <<executorVars, run>>

-----------------------------------------------------------------------------
(* Fills at the open. *)

Commission(notional) ==
    IF notional <= 0 THEN 0
    ELSE Larger((notional * run.costs.pct) \div 100, run.costs.min)

FirstSell(s) == s \in day.sells /\ \A t \in day.sells : s.i <= t.i

SellFill(s) ==
    LET price == (Row(s.i).open * (100 - run.costs.slippage)) \div 100
        notional == book.held[s.i].qty * price
    IN
    /\ clock.pc = "sells" /\ FirstSell(s)
    /\ Held(s.i) /\ CanTrade(s.i)
    /\ book' = [book EXCEPT !.cash = @ + Larger(notional - Commission(notional), 0),
                            !.held[s.i] = NoPosition, !.marks[s.i] = 0]
    /\ day' = [day EXCEPT !.sells = @ \ {s}]
    /\ UNCHANGED <<executorVars, run, clock, gaps>>

SellDropped(s) ==
    /\ clock.pc = "sells" /\ FirstSell(s)
    /\ ~(Held(s.i) /\ CanTrade(s.i))
    /\ day' = [day EXCEPT !.sells = @ \ {s}]
    /\ UNCHANGED <<executorVars, run, clock, book, gaps>>

ExecutionMark(i) == IF CanTrade(i) THEN Row(i).open ELSE book.marks[i]

(* The highest stage of each setup, and the equity the targets refer to. *)
Equity == book.cash + MapThenSumSet(LAMBDA i : book.held[i].qty * ExecutionMark(i), HeldSet)

StartBuying ==
    /\ clock.pc = "sells" /\ day.sells = {}
    /\ clock' = [clock EXCEPT !.pc = "buys"]
    /\ day' = [day EXCEPT !.equity = Equity]
    /\ UNCHANGED <<executorVars, run, book, gaps>>

Before(s, t) == s.score > t.score \/ (s.score = t.score /\ s.i <= t.i)
FirstBuy(s) == s \in day.buys /\ \A t \in day.buys : Before(s, t)

(* estimate_buy: as many whole units as the target pays for. *)
EstimateBuy(target, mark) ==
    LET price == (mark * (100 + run.costs.slippage)) \div 100
        whole(q) == [qty |-> q, price |-> price, fee |-> Commission(q * price)]
        net == Larger((target - run.costs.min) \div price, 0)
        gross == (target * 100) \div (price * (100 + run.costs.pct))
    IN IF target <= 0 THEN [qty |-> 0, price |-> price, fee |-> 0]
       ELSE IF run.costs.pct = 0 THEN whole(net)
       ELSE IF Commission(gross * price) >= run.costs.min THEN whole(gross)
       ELSE IF target <= run.costs.min THEN whole(0) ELSE whole(net)

Target(s) == IF s.setup = NoSetup THEN 100 ELSE StageTargets[s.setup.stage]

(* An order without a setup has the id <<>>. *)
MayBuy(s) ==
    /\ s.score >= IF Supported THEN SR.minStrength ELSE MinStrength
    /\ IF Held(s.i)
       THEN /\ s.setup.id # <<>> /\ s.setup.id = book.held[s.i].setup.id
            /\ s.setup.stage >= book.held[s.i].setup.stage
       ELSE Cardinality(HeldSet) < MaxPositions
    /\ CanTrade(s.i)

BuyOrder(s) ==
    LET p == book.held[s.i]
        desired == (day.equity * PositionPct * Target(s)) \div 10000
        target == Smaller(book.cash, Larger(desired - p.qty * Row(s.i).open, 0))
    IN EstimateBuy(target, Row(s.i).open)

CashOut(o) == o.qty * o.price + o.fee

(* A support/resistance order that fits is sized anew by its risk; 0 when  *)
(* the price has left the channel or the risk does not pay.                *)
SizedOrder(s, o) ==
    LET qty == IF InChannel(s.plan.channel, o.price)
               THEN SizeEntry(s.plan.frozen, o.price, day.equity, book.cash, PositionPct, run.costs)
               ELSE 0
    IN [o EXCEPT !.qty = qty, !.fee = Commission(qty * o.price)]

Order(s) == IF Supported THEN SizedOrder(s, BuyOrder(s)) ELSE BuyOrder(s)

(* A mutant: the fee is not part of what a purchase must leave. *)
FitsBeforeFee(s) ==
    LET o == BuyOrder(s) IN o.qty \in Nat \ {0} /\ o.qty * o.price <= book.cash

Fits(s) ==
    LET o == BuyOrder(s)
    IN /\ o.qty \in Nat \ {0} /\ CashOut(o) <= book.cash
       /\ Order(s).qty \in Nat \ {0}

BuyFill(s) ==
    LET p == book.held[s.i]
        o == Order(s)
        qty == p.qty + o.qty
    IN
    /\ clock.pc = "buys" /\ FirstBuy(s)
    /\ MayBuy(s) /\ Fits(s)
    /\ book' = [book EXCEPT
         !.cash = @ - CashOut(o),
         !.held[s.i] = [qty |-> qty,
                        avg |-> (p.qty * p.avg + o.qty * o.price) \div qty,
                        entry |-> IF p.qty > 0 THEN p.entry ELSE Session,
                        setup |-> s.setup, frozen |-> s.plan.frozen]]
    /\ day' = [day EXCEPT !.buys = @ \ {s}]
    /\ UNCHANGED <<executorVars, run, clock, gaps>>

BuyDropped(s) ==
    /\ clock.pc = "buys" /\ FirstBuy(s)
    /\ ~(MayBuy(s) /\ Fits(s))
    /\ day' = [day EXCEPT !.buys = @ \ {s}]
    /\ UNCHANGED <<executorVars, run, clock, book, gaps>>

StopBuying ==
    /\ clock.pc = "buys" /\ day.buys = {}
    /\ clock' = [clock EXCEPT !.pc = "ask"]
    /\ UNCHANGED <<executorVars, run, book, day, gaps>>

-----------------------------------------------------------------------------
(* Decisions at the close. *)

NoPlan == [frozen |-> NoFrozen, channel |-> NoChannel]

Signal(i, side, score, setup) ==
    [i |-> i, side |-> side, score |-> score, setup |-> setup, plan |-> NoPlan]

(* rise_component, fall_component, weighted_strength. *)
RiseComponent(raw, key, weight, gate, cap) ==
    [key |-> key, weight |-> weight, score |-> Rise(raw[key], gate, cap)]
FallComponent(raw, key, weight, gate, ideal) ==
    [key |-> key, weight |-> weight, score |-> Fall(raw[key], gate, ideal)]
WeightedStrength(components) ==
    MapThenSumSet(LAMBDA c : c.score * c.weight, components)
        \div MapThenSumSet(LAMBDA c : c.weight, components)

StopHit(p, row) == row.close * 100 <= p.avg * (100 - Indicators.stop_loss_pct)
ProfitHit(p, row) == row.close * 100 >= p.avg * (100 + Indicators.take_profit_pct)

(* evaluate_signal.  A position is tested for its exits first, in the      *)
(* order of the code.                                                      *)
Sell(i) == {Signal(i, "SELL", 0, NoSetup)}
Buy(i, components) == {Signal(i, "BUY", WeightedStrength(components), NoSetup)}

TrendComponents(row) ==
    LET raw == [separation_atr |-> row.cross[2] \div row.atr,
                crossover_impulse_atr |-> (row.cross[2] - row.cross[1]) \div row.atr,
                volume_ratio |-> row.ratio]
    IN {RiseComponent(raw, "separation_atr", 60, 0, 50),
        RiseComponent(raw, "crossover_impulse_atr", 20, 0, 50),
        RiseComponent(raw, "volume_ratio", 20, Indicators.volume_multiplier,
                      2 * Indicators.volume_multiplier)}

TrendExit(i) ==
    LET p == book.held[i]
        row == Row(i)
    IN p.qty > 0 /\ \/ StopHit(p, row)
                    \/ row.atr > 0 /\ (\/ row.close <= p.avg - Indicators.stop_loss_atr * row.atr
                                       \/ row.close >= p.avg + Indicators.take_profit_atr * row.atr)

TrendBuy(i) ==
    /\ ~TrendExit(i)
    /\ ~(Row(i).ratio < Indicators.volume_multiplier \/ Row(i).cross = <<>>)
    /\ CrossesUp(Row(i))

TrendSignal(i) ==
    LET row == Row(i)
    IN IF TrendExit(i) THEN Sell(i)
       ELSE IF row.ratio < Indicators.volume_multiplier \/ row.cross = <<>> THEN {}
       ELSE IF CrossesUp(row) THEN Buy(i, TrendComponents(row))
       ELSE IF CrossesDown(row) THEN Sell(i) ELSE {}

MeanReversionSignal(i) ==
    LET p == book.held[i]
        row == Row(i)
        overdue == /\ Indicators.max_holding_days > 0
                   /\ Larger(Session - p.entry, 0) >= Indicators.max_holding_days
        reverted == \E z \in row.zscore : z >= -Indicators.zscore_exit
        entered(z) == RiseComponent([absolute_zscore |-> Abs(z)], "absolute_zscore", 100,
                                    Indicators.zscore_entry, 2 * Indicators.zscore_entry)
    IN IF p.qty > 0 /\ (StopHit(p, row) \/ ProfitHit(p, row) \/ overdue \/ reverted)
       THEN Sell(i)
       ELSE UNION {IF Below(z) THEN Buy(i, {entered(z)})
                   ELSE IF Above(z) THEN Sell(i) ELSE {} : z \in row.zscore}

MomentumComponents(row) ==
    LET raw == [return_20d |-> row.ret, volume_ratio |-> row.ratio,
                price_extension |-> (row.close * 100) \div row.sma - 100]
        rise(key, weight, gate) == RiseComponent(raw, key, weight, gate, 2 * gate)
    IN {rise("return_20d", 40, Indicators.minimum_return_20d),
        rise("price_extension", 35, Indicators.breakout_buffer_pct),
        rise("volume_ratio", 25, Indicators.volume_multiplier)}

MomentumSignal(i) ==
    LET p == book.held[i]
        row == Row(i)
        failed == row.close < row.sma \/ row.ret <= Indicators.exit_return_20d
    IN IF row.sma = 0 \/ row.ratio = 0 THEN {}
       ELSE IF p.qty > 0
            THEN IF StopHit(p, row) \/ ProfitHit(p, row) \/ failed THEN Sell(i) ELSE {}
       ELSE IF Momentum(row) THEN Buy(i, MomentumComponents(row)) ELSE {}

(* dataset_pattern_bar and support_bar. *)
Bar(i) ==
    LET row == Row(i)
        range == Larger(row.high - row.low, row.close \div 200)
    IN [date |-> clock.date, open |-> row.open, high |-> row.high, low |-> row.low,
        close |-> row.close, volume |-> row.volume, ratio |-> row.ratio,
        atr |-> IF Supported /\ row.atr = 0 THEN range ELSE row.atr, market |-> row.market]

PositionView(i) ==
    LET p == book.held[i]
    IN [qty |-> p.qty, avg |-> p.avg, frozen |-> p.frozen,
        holding |-> Larger(Session - p.entry, 0)]

(* evaluate_pattern_signal, evaluate_support_resistance_signal: the row    *)
(* joins the history of its instrument before anything is decided.         *)
Detected(i) ==
    CASE Patterned -> AppendBar(run.kind, book.detector[i], Bar(i))
      [] Supported -> AdvanceSymbol(book.detector[i], Bar(i),
                                    IF WarmingUp THEN NoView ELSE PositionView(i), ~WarmingUp)
      [] OTHER -> NoDetector

(* attach_pattern_strength *)
IslandComponents(stage, raw) ==
    LET breakout == stage = 2
        left(weight) == RiseComponent(raw, "left_gap_pct", weight, Island.left_gap_min_pct,
                                      2 * Island.left_gap_min_pct)
        retest == {FallComponent(raw, "retest_volume_ratio", 25, Island.retest_volume_ratio_max, 0),
                   RiseComponent(raw, "hold_margin_atr", 20, 0, 100)}
    IN IF stage = 1
       THEN {left(60), FallComponent(raw, "left_volume_ratio", 40, Island.left_volume_ratio_max, 0)}
       ELSE {left(IF breakout THEN 30 ELSE 15),
             RiseComponent(raw, "right_gap_pct", IF breakout THEN 40 ELSE 20,
                           Island.right_gap_min_pct, 2 * Island.right_gap_min_pct),
             RiseComponent(raw, "breakout_volume_ratio", IF breakout THEN 30 ELSE 20,
                           Island.right_volume_ratio_min, 2 * Island.right_volume_ratio_min)}
            \union IF breakout THEN {} ELSE retest

DoubleBottomComponents(stage, raw) ==
    LET distance == FallComponent(raw, "bottom_distance_pct", IF stage = 1 THEN 40 ELSE 25,
                                  DoubleBottom.bottom_tolerance_pct, 0)
        rebound == RiseComponent(raw, "rebound_up_day_ratio", IF stage = 1 THEN 30 ELSE 25,
                                 DoubleBottom.rebound_up_day_ratio_min, 100)
        volume == FallComponent(raw, "current_volume_ratio", IF stage = 1 THEN 30 ELSE 25,
                                DoubleBottom.second_bottom_volume_ratio_max, 0)
        broken == {RiseComponent(raw, "breakout_volume_ratio", 25,
                                 DoubleBottom.breakout_volume_ratio_min,
                                 2 * DoubleBottom.breakout_volume_ratio_min),
                   RiseComponent(raw, "breakout_extension_pct", 25,
                                 DoubleBottom.breakout_buffer_pct,
                                 2 * DoubleBottom.breakout_buffer_pct)}
    IN {distance, rebound} \union
         CASE stage = 1 -> {volume}
           [] stage = 2 -> {volume, RiseComponent(raw, "pullback_hold_pct", 25, 0, 100)}
           [] stage = 3 -> broken

PatternStrength(stage, raw) ==
    WeightedStrength(
        CASE run.kind = "island_reversal" -> IslandComponents(stage, raw)
          [] run.kind = "double_bottom" -> DoubleBottomComponents(stage, raw)
          [] OTHER -> {RiseComponent(raw, key, 25, 0, 100) : key \in
                         {"structure_quality", "price_confirmation", "volume_quality",
                          "stage_confirmation"}})

PatternSignal(i, detector) ==
    {Signal(i, d.side, IF d.side = "BUY" THEN PatternStrength(d.setup.stage, Row(i).raw) ELSE 0,
            d.setup) : d \in EvaluatePattern(run.kind, detector, book.held[i])}

SupportSignal(i, detector) ==
    {IF d.side = "BUY"
     THEN [Signal(i, "BUY", d.strength, NoSetup) EXCEPT
             !.plan = [frozen |-> d.frozen, channel |-> d.channel]]
     ELSE Signal(i, "SELL", 0, NoSetup) : d \in detector.decision}

EvaluateSignal(i, detector) ==
    CASE run.kind = "trend" -> TrendSignal(i)
      [] run.kind = "mean_reversion" -> MeanReversionSignal(i)
      [] run.kind = "momentum_breakout" -> MomentumSignal(i)
      [] Patterned -> PatternSignal(i, detector)
      [] Supported -> SupportSignal(i, detector)

(* A trend BUY needs the ATR for its strength, or the row raises. *)
Raises(i) == run.kind = "trend" /\ TrendBuy(i) /\ Row(i).atr = 0

(* universe_exclusion: a BUY of an excluded row is dropped, a SELL kept.   *)
Excluded(i) == run.policy /\ (Row(i).excluded \/ book.history[i] < MinHistory)

Admitted(i, signals) == {s \in signals : s.side = "BUY" => ~Excluded(i)}

(* The rows of a warm-up session are of use to the detectors only. *)
StartDecisions ==
    LET evaluate == Patterned \/ Supported \/ ~WarmingUp IN
    /\ clock.pc = "ask"
    /\ clock' = [clock EXCEPT !.pc = IF evaluate THEN "evaluate" ELSE "close"]
    /\ IF evaluate THEN ForEach(Cardinality(DOMAIN day.rows)) ELSE UNCHANGED executorVars
    /\ UNCHANGED <<run, book, day, gaps>>

EvaluateRow(t, r, i) ==
    LET raises == ~WarmingUp /\ Raises(i)
    IN
    /\ clock.pc = "evaluate" /\ i \in DOMAIN day.rows /\ Place(i) = r
    /\ RunRow(t, r, raises)
    /\ \E detector \in {Detected(i)} :
         /\ book' = [book EXCEPT !.detector[i] = detector]
         /\ day' = [day EXCEPT !.decisions =
                      IF WarmingUp \/ raises THEN @
                      ELSE @ \union Admitted(i, EvaluateSignal(i, detector))]
    /\ UNCHANGED <<run, clock, gaps>>

(* for_each returns; an error of a row ends the backtest. *)
DecisionsReady ==
    /\ clock.pc = "evaluate" /\ Returns
    /\ clock' = [clock EXCEPT !.pc = IF errors = {} THEN "close" ELSE "raised"]
    /\ UNCHANGED <<run, book, day, gaps>>

(* A mutant: sessions are counted anew in every chunk. *)
CountedAnew(offset) == offset

(* consume adds the formal sessions of its chunk at its end. *)
Counted(offset) == clock.formal + offset

(* The end of a session: the decisions become the orders of the next, the  *)
(* positions are valued, the callback may cancel.  After the last session  *)
(* of a chunk consume adds its formal sessions to the count.               *)
CloseSession(cancelled) ==
    LET last == clock.date = clock.end
        offset == IF WarmingUp THEN 0 ELSE clock.offset + 1
    IN
    /\ clock.pc = "close"
    /\ cancelled => ~WarmingUp
    /\ clock' = IF cancelled THEN [clock EXCEPT !.pc = "raised"]
                ELSE [clock EXCEPT !.pc = IF last THEN "idle" ELSE "open",
                                   !.offset = IF last THEN 0 ELSE offset,
                                   !.formal = IF last THEN Counted(offset) ELSE @]
    /\ book' = IF WarmingUp THEN book
               ELSE [book EXCEPT
                 !.pending = day.decisions,
                 !.marks = [i \in Instruments |->
                    IF Held(i) /\ HasRow(i) THEN Row(i).close ELSE @[i]]]
    /\ day' = NoDay
    /\ UNCHANGED <<executorVars, run, gaps>>

-----------------------------------------------------------------------------
(* finish: the callback may cancel between two symbols of a                *)
(* support/resistance backtest.  Then the destructor of the session.       *)
FinishBacktest ==
    /\ clock.pc = "idle" /\ clock.date = run.last
    /\ \/ clock.formal > 0 /\ clock' = [clock EXCEPT !.pc = "finished"]
       \/ (clock.formal = 0 \/ Supported) /\ clock' = [clock EXCEPT !.pc = "raised"]
    /\ UNCHANGED <<executorVars, run, book, day, gaps>>

Destroy ==
    /\ clock.pc \in {"finished", "raised"}
    /\ Stop
    /\ UNCHANGED kernelVars

Over ==
    /\ clock.pc \in {"finished", "raised"}
    /\ pool.threads = 0 \/ pool.stopping
    /\ Joined

Done == Over /\ UNCHANGED vars

CallerStep ==
    \/ \E end \in 1 .. run.last : Consume(end)
    \/ ConsumeRejected
    \/ OpenSession
    \/ \E s \in day.sells : SellFill(s) \/ SellDropped(s)
    \/ StartBuying
    \/ \E s \in day.buys : BuyFill(s) \/ BuyDropped(s)
    \/ StopBuying
    \/ StartDecisions \/ DecisionsReady
    \/ (NotifyAll \/ Wait) /\ UNCHANGED kernelVars
    \/ \E cancelled \in BOOLEAN : CloseSession(cancelled)
    \/ FinishBacktest \/ Destroy

WorkerStep(w) == (Look(w) \/ Finish(w)) /\ UNCHANGED kernelVars

Threads == {0} \union Workers

Next ==
    \/ CallerStep
    \/ \E w \in Workers : WorkerStep(w)
    \/ \E t \in Threads, r \in RowIds, i \in Instruments : EvaluateRow(t, r, i)
    \/ Spurious /\ UNCHANGED kernelVars
    \/ Done

(* The threads run: the one that called into the kernel, and each worker.  *)
(* That a thread evaluates its next row is said of the executor alone: only*)
(* EvaluateRow runs a row.                                                 *)
Fairness ==
    /\ WF_vars(CallerStep)
    /\ \A w \in Workers : WF_vars(WorkerStep(w))
    /\ \A t \in Threads : WF_executorVars(\E r \in RowIds, raises \in BOOLEAN : RunRow(t, r, raises))

Spec == Init /\ [][Next]_vars
FairSpec == Spec /\ Fairness

-----------------------------------------------------------------------------
(* Properties. *)

(* No order spends cash that is not there and no day ends with more        *)
(* positions than the strategy allows, whatever sizes, fees and gaps meet. *)
Solvent ==
    /\ book.cash >= 0
    /\ Cardinality(HeldSet) <= MaxPositions

(* The promise about orders (NextOpenLedger): T+1 fills, at most once, SELL*)
(* before BUY, sessions counted across chunks.                             *)
Wanted ==
    CASE clock.pc \in {"idle", "open"} -> book.pending
      [] clock.pc = "sells" -> day.sells \union day.buys
      [] clock.pc = "buys" -> day.buys
      [] OTHER -> IF WarmingUp THEN book.pending ELSE {}

LedgerPhase ==
    CASE clock.pc \in {"idle", "open", "sells"} -> "sell"
      [] clock.pc = "buys" -> "buy"
      [] clock.pc \in {"finished", "raised"} -> "over"
      [] OTHER -> IF WarmingUp THEN "sell" ELSE "decide"

LedgerOrder(s) == [side |-> s.side, i |-> s.i, setup |-> s.setup.id, stage |-> s.setup.stage]

LedgerPosition(p) ==
    IF p.qty > 0 THEN [setup |-> p.setup.id, stage |-> p.setup.stage, since |-> p.entry + 1]
    ELSE [setup |-> <<>>, stage |-> 0, since |-> 0]

Ledger == INSTANCE NextOpenLedger WITH
    phase <- LedgerPhase,
    session <- Session,
    wanted <- {LedgerOrder(s) : s \in Wanted},
    held <- [i \in Instruments |-> LedgerPosition(book.held[i])]

FillsAtNextOpen == Ledger!Spec

(* A backtest decides at every close as evaluate_day does, which paper     *)
(* trading calls, from the bars and the positions kept so far: exits, buys,*)
(* setups and strengths are the same, and a row raises in one when it does *)
(* in the other.  A support/resistance symbol that is fed the bars at once,*)
(* from nothing or from the zones and regimes this run has stored of them, *)
(* is the same; what is stored of it passes the checks of the database.    *)
EntryDate(i) == run.start + book.held[i].entry

DaySnapshot(i) ==
    Snapshot(run.kind, Row(i), PreparedBars(book.detector[i].bars, Bar(i)), book.held[i],
             EntryDate(i), clock.date)

SameSignals(i) ==
    {[side |-> s.side, setup |-> s.setup, score |-> s.score] :
        s \in {d \in day.decisions : d.i = i}}
      = Admitted(i, DaySignalsOf(run.kind, DaySnapshot(i)))

SameSymbol(i) ==
    LET s == book.detector[i]
        bars == PreparedBars(s.history, Bar(i))
        pos == Snapshot(run.kind, Row(i), bars, book.held[i], EntryDate(i), clock.date)
    IN /\ Storable(s, {s.history[k].date : k \in DOMAIN s.history})
       /\ \A start \in {NoSymbol, Hydrated(s)} :
            Gist(ReplayedFrom([start EXCEPT !.stopped = s.stopped], bars, pos)) = Gist(s)

DecidesAsReplayed ==
    /\ clock.pc = "close" /\ ~WarmingUp =>
         \A i \in DOMAIN day.rows :
            IF Supported THEN SameSymbol(i)
            ELSE ~DayRaises(run.kind, DaySnapshot(i)) /\ SameSignals(i)
    /\ errors # {} /\ ~Supported => \E i \in DOMAIN day.rows : DayRaises(run.kind, DaySnapshot(i))

(* Every backtest ends with its threads joined. *)
BacktestEnds == <>Over
=============================================================================

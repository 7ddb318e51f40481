----------------------------- MODULE DaySignals -----------------------------
(***************************************************************************)
(* evaluate_day of quant_kernel.cpp, which paper trading and the signal    *)
(* centre call for one day: the bars of an instrument and its position make*)
(* a snapshot, the strategy decides on it, and every purchase is given its *)
(* strength (signal_strength.cpp).                                         *)
(*                                                                         *)
(* The backtest session does not call it: BacktestKernel has a second      *)
(* implementation of the indicator strategies and of the strengths.  The   *)
(* thresholds are the same parameters.                                     *)
(*                                                                         *)
(* Ratios are in percent, and row.cross has the distance of the fast from  *)
(* the slow average, of yesterday and of today, in percents of a price     *)
(* unit; it is empty when an average is missing, as row.zscore is.  The    *)
(* strength inputs of a pattern (row.raw) come with the row.               *)
(***************************************************************************)
EXTENDS PatternDetectors, SupportResistance

CONSTANTS
    Indicators,      \* the parameters of the indicator strategies, by their names
    CalendarDay(_)   \* a date |-> its day in the calendar

-----------------------------------------------------------------------------
(* Strength: a weighted mean of components, each the way from a gate (0) up*)
(* to a cap, or down to an ideal (100).                                    *)

Component(raw, key, weight, gate, cap) ==
    [key |-> key, weight |-> weight, score |-> Rise(raw[key], gate, cap)]
FallingComponent(raw, key, weight, gate, ideal) ==
    [key |-> key, weight |-> weight, score |-> Fall(raw[key], gate, ideal)]

StrengthRecord(components) ==
    MapThenSumSet(LAMBDA c : c.score * c.weight, components)
        \div MapThenSumSet(LAMBDA c : c.weight, components)

IndicatorStrength(kind, raw) ==
    LET doubling(key, weight, gate) == Component(raw, key, weight, gate, 2 * gate)
    IN CASE kind = "trend" ->
              {Component(raw, "separation_atr", 60, 0, 50),
               Component(raw, "crossover_impulse_atr", 20, 0, 50),
               doubling("volume_ratio", 20, Indicators.volume_multiplier)}
         [] kind = "mean_reversion" ->
              {doubling("absolute_zscore", 100, Indicators.zscore_entry)}
         [] kind = "momentum_breakout" ->
              {doubling("return_20d", 40, Indicators.minimum_return_20d),
               doubling("price_extension", 35, Indicators.breakout_buffer_pct),
               doubling("volume_ratio", 25, Indicators.volume_multiplier)}

IslandStrength(stage, raw) ==
    LET gap(weight) == Component(raw, "left_gap_pct", weight, Island.left_gap_min_pct,
                                 2 * Island.left_gap_min_pct)
        broken(a, b, c) ==
            {gap(a),
             Component(raw, "right_gap_pct", b, Island.right_gap_min_pct, 2 * Island.right_gap_min_pct),
             Component(raw, "breakout_volume_ratio", c, Island.right_volume_ratio_min,
                       2 * Island.right_volume_ratio_min)}
    IN CASE stage = 1 -> {gap(60), FallingComponent(raw, "left_volume_ratio", 40,
                                                    Island.left_volume_ratio_max, 0)}
         [] stage = 2 -> broken(30, 40, 30)
         [] stage = 3 -> broken(15, 20, 20) \union
              {FallingComponent(raw, "retest_volume_ratio", 25, Island.retest_volume_ratio_max, 0),
               Component(raw, "hold_margin_atr", 20, 0, 100)}

DoubleBottomStrength(stage, raw) ==
    LET bottoms(a, b) ==
            {FallingComponent(raw, "bottom_distance_pct", a, DoubleBottom.bottom_tolerance_pct, 0),
             Component(raw, "rebound_up_day_ratio", b, DoubleBottom.rebound_up_day_ratio_min, 100)}
        quiet(weight) == FallingComponent(raw, "current_volume_ratio", weight,
                                          DoubleBottom.second_bottom_volume_ratio_max, 0)
    IN CASE stage = 1 -> bottoms(40, 30) \union {quiet(30)}
         [] stage = 2 -> bottoms(25, 25) \union
              {quiet(25), Component(raw, "pullback_hold_pct", 25, 0, 100)}
         [] stage = 3 -> bottoms(25, 25) \union
              {Component(raw, "breakout_volume_ratio", 25, DoubleBottom.breakout_volume_ratio_min,
                         2 * DoubleBottom.breakout_volume_ratio_min),
               Component(raw, "breakout_extension_pct", 25, DoubleBottom.breakout_buffer_pct,
                         2 * DoubleBottom.breakout_buffer_pct)}

Qualities == {"structure_quality", "price_confirmation", "volume_quality", "stage_confirmation"}

StrengthFor(kind, stage, raw) ==
    StrengthRecord(
        CASE kind \in {"trend", "mean_reversion", "momentum_breakout"} -> IndicatorStrength(kind, raw)
          [] kind = "island_reversal" -> IslandStrength(stage, raw)
          [] kind = "double_bottom" -> DoubleBottomStrength(stage, raw)
          [] OTHER -> {Component(raw, key, 25, 0, 100) : key \in Qualities})

-----------------------------------------------------------------------------
(* Snapshots. *)

(* _inject_virtual_positions: how long a position is held is a number of   *)
(* calendar days, or for support/resistance of bars observed since.        *)
HeldDays(kind, bars, entered, date) ==
    IF kind = "support_resistance"
    THEN Cardinality({bars[k].date : k \in DOMAIN bars} \intersect (entered + 1 .. date))
    ELSE Max({CalendarDay(date) - CalendarDay(entered), 0})

(* _prepared_day_input: the row of the day takes the place of a recent bar *)
(* of its date, or is the last.                                            *)
PreparedBars(bars, current) ==
    IF \E k \in DOMAIN bars : bars[k].date = current.date
    THEN [k \in DOMAIN bars |-> IF bars[k].date = current.date THEN current ELSE bars[k]]
    ELSE Append(bars, current)

(* prepared_day_market: the latest row, the bars that lead to it, and what *)
(* the position injects; entered is the date it was bought on.             *)
Snapshot(kind, row, bars, pos, entered, date) ==
    [row |-> row, bars |-> bars, qty |-> pos.qty, avg |-> pos.avg, setup |-> pos.setup,
     frozen |-> pos.frozen,
     holding |-> IF pos.qty > 0 THEN HeldDays(kind, bars, entered, date) ELSE 0]

-----------------------------------------------------------------------------
(* market_conditions.hpp, which the backtest uses too. *)

CrossesUp(row) == row.cross[1] <= 0 /\ row.cross[2] > 0
CrossesDown(row) == row.cross[1] >= 0 /\ row.cross[2] < 0
Below(z) == z <= -Indicators.zscore_entry
Above(z) == z >= Indicators.zscore_entry
Momentum(row) ==
    /\ row.close * 100 >= row.sma * (100 + Indicators.breakout_buffer_pct)
    /\ row.ret >= Indicators.minimum_return_20d /\ row.ratio >= Indicators.volume_multiplier

-----------------------------------------------------------------------------
(* The strategies.  A decision is a set: empty, a SELL, or a BUY with the  *)
(* inputs of its strength.                                                 *)

DaySell == {[side |-> "SELL", raw |-> <<>>, setup |-> NoSetup]}
DayBuy(raw, setup) == {[side |-> "BUY", raw |-> raw, setup |-> setup]}

LostPct(snap) == snap.row.close * 100 <= snap.avg * (100 - Indicators.stop_loss_pct)
GainedPct(snap) == snap.row.close * 100 >= snap.avg * (100 + Indicators.take_profit_pct)

(* evaluate_trend.  Without an ATR two inputs of the strength are missing. *)
TrendInputs(row) ==
    IF row.atr > 0
    THEN [separation_atr |-> row.cross[2] \div row.atr,
          crossover_impulse_atr |-> (row.cross[2] - row.cross[1]) \div row.atr,
          volume_ratio |-> row.ratio]
    ELSE [volume_ratio |-> row.ratio]

EvaluateTrend(snap) ==
    LET row == snap.row
        atrExit == row.atr > 0 /\
            \/ row.close <= snap.avg - Indicators.stop_loss_atr * row.atr
            \/ row.close >= snap.avg + Indicators.take_profit_atr * row.atr
    IN IF snap.qty > 0 /\ (LostPct(snap) \/ atrExit) THEN DaySell
       ELSE IF row.ratio < Indicators.volume_multiplier \/ row.cross = <<>> THEN {}
       ELSE IF CrossesUp(row) THEN DayBuy(TrendInputs(row), NoSetup)
       ELSE IF CrossesDown(row) THEN DaySell ELSE {}

(* evaluate_mean_reversion, of positions that are not short. *)
EvaluateMeanReversion(snap) ==
    LET overdue == Indicators.max_holding_days > 0 /\ snap.holding >= Indicators.max_holding_days
        back == \E z \in snap.row.zscore : z >= -Indicators.zscore_exit
    IN IF snap.qty > 0 /\ (LostPct(snap) \/ GainedPct(snap) \/ overdue \/ back) THEN DaySell
       ELSE UNION {IF Below(z) THEN DayBuy([absolute_zscore |-> Abs(z)], NoSetup)
                   ELSE IF Above(z) THEN DaySell ELSE {} : z \in snap.row.zscore}

(* evaluate_momentum *)
EvaluateMomentum(snap) ==
    LET row == snap.row
        failed == row.close < row.sma \/ row.ret <= Indicators.exit_return_20d
    IN IF row.sma = 0 \/ row.ratio = 0 THEN {}
       ELSE IF snap.qty > 0 THEN IF LostPct(snap) \/ GainedPct(snap) \/ failed THEN DaySell ELSE {}
       ELSE IF Momentum(row)
            THEN DayBuy([return_20d |-> row.ret, volume_ratio |-> row.ratio,
                         price_extension |-> (row.close * 100) \div row.sma - 100], NoSetup)
            ELSE {}

(* evaluate_day, but for support/resistance (ReplayedFrom). *)
EvaluateDay(kind, snap) ==
    CASE kind = "trend" -> EvaluateTrend(snap)
      [] kind = "mean_reversion" -> EvaluateMeanReversion(snap)
      [] kind = "momentum_breakout" -> EvaluateMomentum(snap)
      [] OTHER -> UNION {IF d.side = "SELL" THEN DaySell ELSE DayBuy(snap.row.raw, d.setup) :
                            d \in EvaluatePattern(kind, Replayed(kind, snap.bars), snap)}

(* annotate_signal_strength raises when an input is missing. *)
DayRaises(kind, snap) ==
    \E d \in EvaluateDay(kind, snap) :
       d.side = "BUY" /\ kind = "trend" /\ "separation_atr" \notin DOMAIN d.raw

DaySignalsOf(kind, snap) ==
    {[side |-> d.side, setup |-> d.setup,
      score |-> IF d.side = "BUY" THEN StrengthFor(kind, d.setup.stage, d.raw) ELSE 0] :
        d \in EvaluateDay(kind, snap)}
=============================================================================

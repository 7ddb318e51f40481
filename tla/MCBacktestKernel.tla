-------------------------- MODULE MCBacktestKernel --------------------------
(***************************************************************************)
(* BacktestKernel on small instances: one backtest per strategy, with the  *)
(* patterns on the tapes of MCPatternTapes.                                *)
(***************************************************************************)
EXTENDS BacktestKernel, MCPatternTapes, MCSupportTape

SignRun(kind, threads, wide, start, last, policy) ==
    [kind |-> kind, threads |-> threads, wide |-> wide, start |-> start, last |-> last,
     policy |-> policy, cuts |-> 1 .. last, gaps |-> 1, cash |-> 92,
     costs |-> [pct |-> 5, min |-> 2, slippage |-> 10]]

PatternRun(kind, start) ==
    [kind |-> kind, threads |-> 1, wide |-> {}, start |-> start, last |-> Len(Tape(kind)),
     policy |-> FALSE, cuts |-> {start + 2, Len(Tape(kind))}, gaps |-> 0, cash |-> 1000,
     costs |-> [pct |-> 0, min |-> 0, slippage |-> 1]]

SupportRun ==
    [kind |-> "support_resistance", threads |-> 1, wide |-> {}, start |-> 8,
     last |-> Len(SupportTape), policy |-> FALSE, cuts |-> {10, Len(SupportTape)}, gaps |-> 0,
     cash |-> 1000, costs |-> [pct |-> 0, min |-> 1, slippage |-> 1]]

MCRuns ==
    {SupportRun, SignRun("trend", 2, {2, 3}, 1, 3, FALSE), SignRun("mean_reversion", 1, {}, 2, 5, FALSE),
     SignRun("momentum_breakout", 1, {}, 1, 4, TRUE),
     PatternRun("island_reversal", 3), PatternRun("double_bottom", 7),
     PatternRun("head_shoulders_bottom", 3), PatternRun("rounded_bottom", 5),
     PatternRun("v_reversal", 3)}

MCIndicators == [
    volume_multiplier |-> 150, zscore_entry |-> 200, zscore_exit |-> 50,
    minimum_return_20d |-> 50, breakout_buffer_pct |-> 10, exit_return_20d |-> 0,
    stop_loss_pct |-> 10, take_profit_pct |-> 20, stop_loss_atr |-> 2, take_profit_atr |-> 3,
    max_holding_days |-> 2]

MCCalendarDay(date) == date

MCRow(open, close) == [NoRow EXCEPT !.open = open, !.close = close]

(* The averages move apart by n% of a price unit, on a busy day. *)
TrendRow(open, close, atr, n) ==
    [MCRow(open, close) EXCEPT !.atr = atr, !.ratio = 180, !.cross = <<0, n>>]

ZscoreRow(open, close, z) == [MCRow(open, close) EXCEPT !.zscore = z]

MomentumRow(open, close, sma, ret, ratio) ==
    [MCRow(open, close) EXCEPT !.sma = sma, !.ret = ret, !.ratio = ratio]

(* What the bars of a pattern yield as inputs of its strength. *)
MCRaw == [left_gap_pct |-> 3, left_volume_ratio |-> 60, right_gap_pct |-> 3,
          breakout_volume_ratio |-> 170, retest_volume_ratio |-> 40, hold_margin_atr |-> 30,
          bottom_distance_pct |-> 2, rebound_up_day_ratio |-> 75, current_volume_ratio |-> 60,
          pullback_hold_pct |-> 20, breakout_extension_pct |-> 2, structure_quality |-> 60,
          price_confirmation |-> 40, volume_quality |-> 10, stage_confirmation |-> 30]

PatternRow(kind, b) ==
    [NoRow EXCEPT !.open = b[1], !.high = b[2], !.low = b[3], !.close = b[4], !.volume = b[5],
                  !.ratio = b[5], !.atr = TapeAtr(kind), !.raw = MCRaw]

SupportRow(i, date, b) ==
    LET by == Tilt(i) * date
    IN [NoRow EXCEPT !.open = b[1] + by, !.high = b[2] + by, !.low = b[3] + by, !.close = b[4] + by,
                     !.volume = 100, !.ratio = 100, !.atr = 4]

(* The last rows of a run only fill orders; the others are bought on one   *)
(* day, held or sold on the next.                                          *)
MCRowsOf(kind, i, date) ==
    CASE kind = "trend" ->
           CASE date = 1 -> IF i = 1 THEN {TrendRow(10, 10, 1, 15), TrendRow(0, 10, 0, 15)} ELSE {}
             [] date = 2 -> {TrendRow(10, 10, 1, 10 * i - 5),
                             [TrendRow(12, 9, 1, 15) EXCEPT !.ratio = 100]}
             [] OTHER -> {TrendRow(11, 10, 1, -15)}
      [] kind = "mean_reversion" ->
           CASE date < 3 -> {ZscoreRow(10, 10, {20 * i - 280})}
             [] date = 3 -> {ZscoreRow(10, 10, {20 * i - 280}), ZscoreRow(8, 8, {})}
             [] OTHER -> IF i = 3 THEN {} ELSE {ZscoreRow(8, 8, {})}
      [] kind = "momentum_breakout" ->
           IF date % 2 = 1
           THEN {MomentumRow(10, 10, 9, 70, 200),
                 [MomentumRow(10, 10, 9, 50, 150) EXCEPT !.excluded = (i # 1)]}
           ELSE {MomentumRow(11, 9, IF i = 2 THEN 10 ELSE 9, 10, 100)}
      [] kind = "support_resistance" ->
           {SupportRow(i, date, b) : b \in {SupportTape[date]} \union
                                         IF i = 1 THEN SupportInstead(date) ELSE {}}
      [] OTHER ->
           IF i > 1 THEN {}
           ELSE {PatternRow(kind, b) : b \in {Tape(kind)[date]} \union Instead(kind, date)}

MCSplits == [d \in 1 .. 30 |-> IF d = 4 THEN [i \in {1} |-> 2] ELSE <<>>]
MCDelisted == [i \in 1 .. 3 |-> IF i = 3 THEN 3 ELSE 99]
MCStageTargets == <<20, 50, 100>>
=============================================================================

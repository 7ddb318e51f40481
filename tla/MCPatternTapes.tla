--------------------------- MODULE MCPatternTapes ---------------------------
(***************************************************************************)
(* A tape of bars for every pattern (open, high, low, close, volume), in   *)
(* which its three stages appear, the bars that may come instead on some   *)
(* dates, and parameters that fit the tapes.  The average volume is 100.   *)
(***************************************************************************)
EXTENDS Integers, Sequences

Flat == <<120, 121, 119, 120, 100>>

IslandTape == <<
    Flat, Flat, <<121, 122, 119, 120, 100>>, <<116, 117, 113, 114, 100>>,
    <<109, 110, 99, 100, 100>>, <<95, 96, 92, 93, 70>>, <<99, 104, 98, 102, 160>>,
    <<101, 102, 98, 99, 100>>, <<100, 103, 99, 102, 100>>, <<101, 103, 100, 102, 100>>>>

DoubleBottomTape == <<
    Flat, Flat, Flat, Flat, Flat, Flat,
    Flat, <<116, 117, 114, 115, 100>>, <<111, 112, 108, 110, 100>>, <<101, 102, 98, 100, 80>>,
    <<101, 108, 100, 106, 110>>, <<107, 112, 105, 109, 120>>, <<108, 109, 104, 106, 90>>,
    <<101, 102, 99, 100, 70>>, <<102, 105, 101, 104, 90>>, <<105, 109, 104, 108, 110>>,
    <<108, 110, 107, 109, 110>>, <<109, 110, 105, 107, 70>>, <<108, 115, 107, 114, 160>>,
    <<114, 116, 113, 115, 100>>>>

HeadShouldersTape == <<
    <<150, 160, 140, 150, 100>>, <<130, 140, 120, 130, 100>>, <<105, 110, 100, 100, 80>>,
    <<110, 130, 110, 120, 100>>, <<90, 100, 80, 85, 50>>, <<115, 135, 110, 120, 100>>,
    <<105, 110, 102, 104, 70>>, <<110, 120, 105, 115, 100>>, <<145, 160, 140, 155, 160>>,
    <<155, 160, 150, 158, 100>>>>

RoundedBottomTape == <<
    <<130, 131, 128, 130, 100>>, <<120, 121, 117, 118, 100>>, <<112, 113, 108, 109, 100>>,
    <<103, 104, 100, 101, 60>>, <<100, 101, 98, 99, 60>>, <<101, 105, 100, 104, 140>>,
    <<105, 110, 104, 109, 140>>, <<108, 109, 102, 104, 70>>, <<106, 112, 105, 111, 140>>,
    <<112, 118, 110, 117, 140>>, <<112, 113, 107, 109, 70>>, <<111, 119, 112, 118, 140>>,
    <<120, 126, 118, 124, 170>>, <<124, 126, 122, 125, 100>>>>

VReversalTape == <<
    Flat, <<115, 116, 112, 113, 100>>, <<106, 107, 104, 105, 100>>, <<91, 96, 90, 95, 220>>,
    <<95, 97, 94, 96, 120>>, <<96, 98, 95, 97, 120>>, <<97, 98, 96, 97, 100>>,
    <<97, 98, 96, 97, 100>>, <<97, 98, 96, 97, 100>>, <<99, 101, 98, 100, 160>>,
    <<100, 101, 99, 99, 100>>, <<100, 102, 99, 101, 100>>>>

Tape(kind) ==
    CASE kind = "island_reversal" -> IslandTape
      [] kind = "double_bottom" -> DoubleBottomTape
      [] kind = "head_shoulders_bottom" -> HeadShouldersTape
      [] kind = "rounded_bottom" -> RoundedBottomTape
      [] kind = "v_reversal" -> VReversalTape

TapeAtr(kind) ==
    CASE kind = "head_shoulders_bottom" -> 20
      [] kind = "rounded_bottom" -> 6
      [] kind = "v_reversal" -> 3
      [] OTHER -> 2

(* A breakout that fails, a retest that breaks the support, a weak peak.   *)
Instead(kind, date) ==
    CASE kind = "island_reversal" /\ date = 7 -> {<<95, 96, 94, 95, 90>>}
      [] kind = "island_reversal" /\ date = 8 -> {<<96, 97, 90, 91, 100>>}
      [] kind = "double_bottom" /\ date = 18 -> {<<104, 105, 100, 101, 120>>}
      [] kind = "double_bottom" /\ date = 19 -> {<<102, 103, 97, 98, 120>>, <<108, 115, 107, 114, 100>>}
      [] kind = "head_shoulders_bottom" /\ date = 8 -> {<<100, 102, 78, 79, 100>>}
      [] kind = "head_shoulders_bottom" /\ date = 9 -> {<<120, 130, 110, 125, 100>>}
      [] kind = "rounded_bottom" /\ date = 12 -> {<<110, 115, 109, 112, 100>>}
      [] kind = "rounded_bottom" /\ date = 13 -> {<<110, 111, 104, 105, 100>>}
      [] kind = "v_reversal" /\ date = 7 -> {<<97, 98, 93, 94, 220>>}
      [] kind = "v_reversal" /\ date = 10 -> {<<97, 98, 96, 97, 100>>}
      [] OTHER -> {}

MCIsland == [
    downtrend_lookback |-> 3, downtrend_min_drop_pct |-> 15, left_gap_min_pct |-> 2,
    left_volume_ratio_max |-> 80, previous_body_atr_min |-> 50, exhaustion_body_atr_max |-> 100,
    min_island_bars |-> 1, max_island_bars |-> 3, island_body_atr_max |-> 50,
    breakout_body_atr_min |-> 50, right_volume_ratio_min |-> 150, right_gap_min_pct |-> 2,
    retest_window |-> 3, retest_volume_ratio_max |-> 70, support_tolerance_pct |-> 1]

MCDoubleBottom == [
    downtrend_lookback |-> 3, downtrend_min_drop_pct |-> 15, downtrend_max_up_day_ratio |-> 35,
    downtrend_min_r_squared |-> 65, left_bottom_before_bars |-> 1, left_bottom_after_bars |-> 1,
    min_bottom_spacing |-> 2, max_bottom_spacing |-> 4, bottom_tolerance_pct |-> 3,
    second_bottom_volume_ratio_max |-> 90, neckline_min_rebound_pct |-> 5,
    rebound_up_day_ratio_min |-> 50, rebound_volume_ratio_min |-> 90,
    rebound_volume_ratio_max |-> 150, breakout_buffer_pct |-> 1,
    breakout_volume_ratio_min |-> 120, max_breakout_bars_after_right_bottom |-> 5,
    retest_window |-> 4, retest_volume_ratio_max |-> 80, support_tolerance_pct |-> 2]

MCHeadShoulders == [
    pivot_left_bars |-> 1, pivot_right_bars |-> 1, platform_bars |-> 3,
    platform_range_atr_max |-> 300, platform_drift_atr_max |-> 100, min_segment_bars |-> 2,
    max_segment_bars |-> 4, head_depth_min_pct |-> 5, downtrend_lookback |-> 2,
    downtrend_min_drop_pct |-> 20, head_volume_ratio_max |-> 80, shoulder_tolerance_pct |-> 5,
    right_shoulder_volume_ratio_max |-> 90, rebound_volume_ratio_min |-> 100,
    rebound_volume_ratio_max |-> 150, breakout_buffer_pct |-> 1,
    breakout_volume_ratio_min |-> 150]

MCRoundedBottom == [
    min_lookback |-> 8, max_lookback |-> 12, min_depth_pct |-> 15, pivot_left_bars |-> 1,
    pivot_right_bars |-> 1, pullback_volume_ratio_max |-> 80, right_volume_ratio_min |-> 130,
    min_pullback_spacing |-> 2, breakout_buffer_pct |-> 1, breakout_volume_ratio_min |-> 150,
    weakening_buffer_pct |-> 1]

MCVReversal == [
    downtrend_lookback |-> 3, downtrend_min_drop_pct |-> 20, pivot_max_bars |-> 3,
    pivot_volume_ratio_min |-> 200, reversal_min_return_pct |-> 5, reversal_min_atr |-> 150,
    continuation_window |-> 3, continuation_volume_ratio_min |-> 120,
    consolidation_min_bars |-> 3, consolidation_max_bars |-> 4,
    consolidation_range_atr_max |-> 300, consolidation_drift_atr_max |-> 100,
    breakout_volume_ratio_min |-> 150, breakout_buffer_pct |-> 1, retest_window |-> 2,
    retest_volume_ratio_max |-> 80, support_tolerance_pct |-> 2, bearish_body_atr_min |-> 50,
    bearish_reversal_volume_ratio_min |-> 200]

MCPatternRisk == [max_loss_pct |-> 8, stop_loss_atr |-> 150, take_profit_atr |-> 300]

(* Both ends of the window are well above its middle. *)
MCBowl(closes) ==
    LET n == Len(closes)
        middle == closes[(n + 1) \div 2]
    IN n >= 3 /\ closes[1] > middle /\ closes[n] > middle
=============================================================================

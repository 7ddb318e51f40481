-------------------------- MODULE PatternDetectors --------------------------
(***************************************************************************)
(* The five bottom patterns of pattern_core.cpp: what a detector keeps of  *)
(* the bars of one instrument, and what it decides at the close of a bar.  *)
(*                                                                         *)
(* Bars are numbered from 1; the current one is the last.  A bar has its   *)
(* date, prices, volume, the ratio of its volume to the 20-day average in  *)
(* percent, and its ATR; an open, a ratio or an ATR of 0 is missing.       *)
(* Thresholds are whole percents, compared without division.  A decision   *)
(* is a set: empty, a BUY with its setup, or a SELL.  The setup has the    *)
(* dates that identify it, its stage, the price (times 100) that           *)
(* invalidates it, and for a double bottom its right low, the close of the *)
(* breakout and the ATR there.  Scores and audit text are left out.        *)
(***************************************************************************)
EXTENDS Integers, Sequences, FiniteSets, SequencesExt, FiniteSetsExt

CONSTANTS
    Island, DoubleBottom, HeadShoulders, RoundedBottom, VReversal,
                     \* the "signal" parameters of each type, by their names
    PatternRisk,     \* max_loss_pct, stop_loss_atr, take_profit_atr
    Bowl(_),         \* closes |-> the quadratic fit of their logarithms is a bowl
    HistoryFloor,    \* 40 in the code: bars a detector keeps at least
    HistorySlack,    \* 10 in the code: bars it keeps beyond its windows
    AtrWindow        \* 20 in the code: bars of recent_atr

NoSetup == [id |-> <<>>, stage |-> 0, floor |-> 0, low |-> 0, close |-> 0, atr |-> 0]
NoBest == [left |-> 0, neck |-> 0, at |-> 0, breakout |-> 0]
NoDetector == [bars |-> <<>>, left |-> {}, right |-> {}, best |-> NoBest]

Setup(id, stage, floor) == [NoSetup EXCEPT !.id = id, !.stage = stage, !.floor = floor]
BuySetups(setups) == {[side |-> "BUY", setup |-> s] : s \in setups}
SellPosition == {[side |-> "SELL", setup |-> NoSetup]}

Distance(a, b) == IF a >= b THEN a - b ELSE b - a
Pick(S, Better(_, _)) == CHOOSE x \in S : \A y \in S : x = y \/ Better(x, y)

-----------------------------------------------------------------------------
(* Bars. *)

Rising(b) == b.open > 0 /\ b.close > b.open
Falling(b) == b.open > 0 /\ b.close < b.open
BodyAtMost(b, pct) == b.open > 0 /\ b.atr > 0 /\ Distance(b.close, b.open) * 100 <= pct * b.atr
BodyAtLeast(b, pct) == b.open > 0 /\ b.atr > 0 /\ Distance(b.close, b.open) * 100 >= pct * b.atr
VolumeAtMost(b, pct) == b.ratio > 0 /\ b.ratio <= pct
VolumeAtLeast(b, pct) == b.ratio > 0 /\ b.ratio >= pct

HighOf(bars, S) == Max({bars[k].high : k \in S})
LowOf(bars, S) == Min({bars[k].low : k \in S})
CloseOf(bars, S) == Max({bars[k].close : k \in S})

MeanVolumeWithin(bars, i, j, least, most) ==
    LET total == MapThenSumSet(LAMBDA k : bars[k].ratio, i .. j)
    IN /\ i <= j /\ \A k \in i .. j : bars[k].ratio > 0
       /\ least * (j - i + 1) <= total /\ total <= most * (j - i + 1)

(* price_platform *)
IsPlatform(bars, i, j, range, drift) ==
    /\ 1 <= i /\ i <= j /\ bars[j].atr > 0
    /\ (HighOf(bars, i .. j) - LowOf(bars, i .. j)) * 100 <= range * bars[j].atr
    /\ Distance(bars[j].close, bars[i].close) * 100 <= drift * bars[j].atr

TrueRange(bars, k) ==
    Max({bars[k].high - bars[k].low} \union
        IF k = 1 THEN {} ELSE {Distance(bars[k].high, bars[k - 1].close),
                               Distance(bars[k].low, bars[k - 1].close)})

(* recent_atr over the first n bars, times AtrWindow; 0 without enough. *)
RecentAtr(bars, n) ==
    IF n < AtrWindow THEN 0
    ELSE MapThenSumSet(LAMBDA k : TrueRange(bars, k), n - AtrWindow + 1 .. n)

(* confirmed_pivots of the lows; with Peaks, of the highs. *)
Pivots(values, before, after) ==
    {i \in before + 1 .. Len(values) - after :
       LET near == (i - before .. i + after) \ {i}
       IN /\ \A k \in near : values[i] <= values[k]
          /\ \E k \in near : values[i] < values[k]}
Troughs(bars) == [k \in DOMAIN bars |-> bars[k].low]
Peaks(bars) == [k \in DOMAIN bars |-> -bars[k].high]

DowntrendContext(bars, i, lookback, drop) ==
    LET before == Max({1, i - lookback}) .. i - 1
    IN before # {} /\ (CloseOf(bars, before) - bars[i].close) * 100 >= drop * CloseOf(bars, before)

(* The first of the highest bars. *)
HighestIndex(bars, i, j) == Pick(i .. j, LAMBDA p, q :
    bars[p].high > bars[q].high \/ (bars[p].high = bars[q].high /\ p < q))

(* The close of bar k is pct percent above the line through the highs of   *)
(* bars i and j.                                                           *)
AboveLine(bars, i, j, k, pct) ==
    bars[k].close * 100 * (j - i)
      > (100 + pct) * (bars[i].high * (j - i) + (bars[j].high - bars[i].high) * (k - i))

FellBy(bars, i, lookback, drop) ==
    /\ i > lookback
    /\ (bars[i].close - bars[i - lookback].close) * 100 <= -drop * bars[i - lookback].close

-----------------------------------------------------------------------------
(* common_position_exit: invalidation, maximum loss, ATR stop and target.  *)
LossExit(b, pos) == b.close * 100 <= pos.avg * (100 - PatternRisk.max_loss_pct)
AtrExit(b, pos, atr, window) ==
    /\ atr > 0
    /\ \/ b.close * 100 * window <= pos.avg * 100 * window - PatternRisk.stop_loss_atr * atr
       \/ b.close * 100 * window >= pos.avg * 100 * window + PatternRisk.take_profit_atr * atr
Invalidated(b, setup) == b.low * 100 < setup.floor

PositionExit(bars, pos) ==
    /\ pos.qty > 0
    /\ LET b == Last(bars)
       IN Invalidated(b, pos.setup) \/ LossExit(b, pos) \/ AtrExit(b, pos, b.atr, 1)

-----------------------------------------------------------------------------
(* island_reversal *)

(* A falling, quiet bar that gaps down at the end of a decline. *)
LeftGap(bars, i) ==
    /\ i > 1 /\ Falling(bars[i]) /\ Falling(bars[i - 1])
    /\ (bars[i - 1].low - bars[i].high) * 100 >= Island.left_gap_min_pct * bars[i - 1].low
    /\ VolumeAtMost(bars[i], Island.left_volume_ratio_max)
    /\ BodyAtLeast(bars[i - 1], Island.previous_body_atr_min)
    /\ BodyAtMost(bars[i], Island.exhaustion_body_atr_max)
    /\ FellBy(bars, i, Island.downtrend_lookback, Island.downtrend_min_drop_pct)

(* The bars left .. right - 1 are an island that bar right leaves upwards. *)
IsIsland(bars, left, right) ==
    LET island == left .. right - 1
    IN /\ right - left \in Island.min_island_bars .. Island.max_island_bars
       /\ Rising(bars[right]) /\ BodyAtLeast(bars[right], Island.breakout_body_atr_min)
       /\ VolumeAtLeast(bars[right], Island.right_volume_ratio_min)
       /\ LeftGap(bars, left)
       /\ \A k \in island \ {left} : BodyAtMost(bars[k], Island.island_body_atr_max)
       /\ HighOf(bars, island) < bars[left - 1].low
       /\ (bars[right].low - HighOf(bars, island)) * 100
            >= Island.right_gap_min_pct * HighOf(bars, island)

Islands(bars) ==
    IF Len(bars) < 4 THEN {}
    ELSE {p \in (DOMAIN bars) \X (DOMAIN bars) : p[1] < p[2] /\ IsIsland(bars, p[1], p[2])}
LatestIsland(bars) == Pick(Islands(bars), LAMBDA p, q :
    p[2] > q[2] \/ (p[2] = q[2] /\ p[1] > q[1]))

(* A quiet bar touches the upside gap and holds it. *)
GapRetest(bars, left, right) ==
    LET n == Len(bars)
        top == HighOf(bars, left .. right - 1)
        floor == top * (100 - Island.support_tolerance_pct)
    IN /\ n \in right + 1 .. right + Island.retest_window
       /\ \A k \in right + 1 .. n - 1 : bars[k].close * 100 >= floor
       /\ bars[n].low * 100 <= bars[right].low * (100 + Island.support_tolerance_pct)
       /\ bars[n].low * 100 >= floor /\ bars[n].close >= top
       /\ bars[n].volume * 100 <= bars[right].volume * Island.retest_volume_ratio_max

IslandSetup(bars, left, low, stage) ==
    Setup(<<bars[left].date>>, stage, low * (100 - Island.support_tolerance_pct))

IslandSetups(bars) ==
    IF Islands(bars) = {}
    THEN {IslandSetup(bars, n, bars[n].low, 1) : n \in {k \in {Len(bars)} : LeftGap(bars, k)}}
    ELSE LET p == LatestIsland(bars)
             stages == IF Len(bars) = p[2] THEN {2}
                       ELSE IF GapRetest(bars, p[1], p[2]) THEN {3} ELSE {}
         IN {IslandSetup(bars, p[1], LowOf(bars, p[1] .. p[2] - 1), s) : s \in stages}

IslandExit(bars, pos) ==
    LET b == Last(bars)
        atr == IF b.atr > 0 THEN b.atr * AtrWindow ELSE RecentAtr(bars, Len(bars))
    IN /\ pos.qty > 0 /\ pos.setup # NoSetup
       /\ Invalidated(b, pos.setup) \/ LossExit(b, pos) \/ AtrExit(b, pos, atr, AtrWindow)

EvaluateIsland(bars, pos) ==
    IF IslandExit(bars, pos) THEN SellPosition ELSE BuySetups(IslandSetups(bars))

-----------------------------------------------------------------------------
(* double_bottom: the detector keeps left bottoms, pairs of bottoms that   *)
(* wait for their breakout, and the last breakout, by their bar numbers.   *)

LocalMinimum(bars, i) ==
    LET near == i - DoubleBottom.left_bottom_before_bars .. i + DoubleBottom.left_bottom_after_bars
    IN near \subseteq DOMAIN bars /\ \A k \in near : bars[i].low <= bars[k].low

UpDays(bars, i, j) == Cardinality({k \in i + 1 .. j : bars[k].close > bars[k - 1].close})
MovingDays(bars, i, j) == Cardinality({k \in i + 1 .. j : bars[k].close # bars[k - 1].close})

(* linear_fit: a falling line that explains min_r_squared of the closes.   *)
FallsStraight(bars, i, j) ==
    LET n == j - i + 1
        Sum(F(_)) == MapThenSumSet(F, i .. j)
        x == Sum(LAMBDA k : k - i)
        y == Sum(LAMBDA k : bars[k].close)
        xy == n * Sum(LAMBDA k : (k - i) * bars[k].close) - x * y
        xx == n * Sum(LAMBDA k : (k - i) * (k - i)) - x * x
        yy == n * Sum(LAMBDA k : bars[k].close * bars[k].close) - y * y
    IN xy < 0 /\ xy * xy * 100 >= DoubleBottom.downtrend_min_r_squared * xx * yy

SmoothDowntrend(bars, i) ==
    LET from == i - DoubleBottom.downtrend_lookback
        moving == MovingDays(bars, from, i)
    IN /\ moving > 0
       /\ UpDays(bars, from, i) * 100 <= DoubleBottom.downtrend_max_up_day_ratio * moving
       /\ FallsStraight(bars, from, i)

IsLeftBottom(bars, i) ==
    /\ LocalMinimum(bars, i)
    /\ VolumeAtMost(bars[i], DoubleBottom.second_bottom_volume_ratio_max)
    /\ FellBy(bars, i, DoubleBottom.downtrend_lookback, DoubleBottom.downtrend_min_drop_pct)
    /\ SmoothDowntrend(bars, i)

IsRightBottom(bars, left, right) ==
    LET low == bars[left].low
        neck == HighestIndex(bars, left + 1, right - 1)
    IN /\ right - left \in DoubleBottom.min_bottom_spacing .. DoubleBottom.max_bottom_spacing
       /\ right - left > 1
       /\ VolumeAtMost(bars[right], DoubleBottom.second_bottom_volume_ratio_max)
       /\ bars[right].low >= low
       /\ bars[right].low * 100 <= low * (100 + DoubleBottom.bottom_tolerance_pct)
       /\ \A k \in left + 1 .. right - 1 : bars[k].low > low
       /\ bars[neck].high * 100 >= bars[right].low * (100 + DoubleBottom.neckline_min_rebound_pct)
       /\ MovingDays(bars, left, neck) > 0
       /\ UpDays(bars, left, neck) * 100
            >= DoubleBottom.rebound_up_day_ratio_min * MovingDays(bars, left, neck)
       /\ MeanVolumeWithin(bars, left + 1, neck, DoubleBottom.rebound_volume_ratio_min,
                           DoubleBottom.rebound_volume_ratio_max)

BreaksOut(bars, c, n) ==
    /\ n > c.at
    /\ bars[n].close * 100 > bars[c.neck].high * (100 + DoubleBottom.breakout_buffer_pct)
    /\ VolumeAtLeast(bars[n], DoubleBottom.breakout_volume_ratio_min)

(* advance_double_bottom, for the bar just appended. *)
Advance(s) ==
    LET bars == s.bars
        n == Len(bars)
        seen == n - DoubleBottom.left_bottom_after_bars
        found == {i \in {seen} : i > 0 /\ IsLeftBottom(bars, i)}
        left == {i \in s.left \union found : n <= i + DoubleBottom.max_bottom_spacing + 1}
        paired == IF seen > 0 /\ LocalMinimum(bars, seen)
                  THEN {i \in left : IsRightBottom(bars, i, seen)} ELSE {}
        pairs == {c \in s.right \union {[left |-> i, neck |-> HighestIndex(bars, i + 1, seen - 1),
                                         at |-> seen] : i \in paired} :
                    /\ n <= c.at + DoubleBottom.max_breakout_bars_after_right_bottom
                    /\ bars[n].low >= bars[c.at].low}
        broken == {c \in pairs : BreaksOut(bars, c, n)}
        first == Pick(broken, LAMBDA c, d : c.at > d.at \/ (c.at = d.at /\ c.left < d.left))
    IN IF n < 2 THEN s
       ELSE [bars |-> bars, left |-> left, right |-> pairs \ broken,
             best |-> IF broken = {} THEN s.best
                      ELSE [left |-> first.left, neck |-> first.neck, at |-> first.at,
                            breakout |-> n]]

(* prune_double_bottom: the oldest bar goes, and what rests on it. *)
Prune(s, limit) ==
    IF Len(s.bars) <= limit THEN s
    ELSE [bars |-> Tail(s.bars),
          left |-> {i - 1 : i \in s.left \ {1}},
          right |-> {[left |-> c.left - 1, neck |-> c.neck - 1, at |-> c.at - 1] :
                        c \in {d \in s.right : d.left > 1}},
          best |-> IF s.best.left <= 1 THEN NoBest
                   ELSE [k \in DOMAIN s.best |-> s.best[k] - 1]]

DoubleBottomSetup(bars, c, stage) ==
    [Setup(<<bars[c.left].date, bars[c.at].date>>, stage,
           bars[c.left].low * (100 - DoubleBottom.support_tolerance_pct))
       EXCEPT !.low = bars[c.at].low]

BreakoutSetup(bars, best) ==
    [DoubleBottomSetup(bars, best, 3)
       EXCEPT !.close = bars[best.breakout].close, !.atr = RecentAtr(bars, best.breakout)]

(* The first quiet bar that falls back and stays above the right bottom.   *)
FallsBack(bars, c, k) ==
    /\ bars[k].close < bars[k - 1].close
    /\ bars[k].low > bars[c.at].low /\ bars[k].close > bars[c.at].low
    /\ VolumeAtMost(bars[k], DoubleBottom.second_bottom_volume_ratio_max)

RightPullback(bars, c) ==
    LET n == Len(bars)
        start == c.at + DoubleBottom.left_bottom_after_bars + 1
    IN /\ n > start /\ n <= c.at + DoubleBottom.retest_window
       /\ CloseOf(bars, start .. n - 1) * 2 >= bars[c.at].low + bars[c.neck].high
       /\ MeanVolumeWithin(bars, c.at + 1, HighestIndex(bars, c.at + 1, n - 1),
                           DoubleBottom.rebound_volume_ratio_min,
                           DoubleBottom.rebound_volume_ratio_max)
       /\ bars[n].volume * 100 <= DoubleBottom.retest_volume_ratio_max
                                    * Max({bars[k].volume : k \in c.at + 1 .. n - 1})
       /\ FallsBack(bars, c, n) /\ \A k \in start .. n - 1 : ~FallsBack(bars, c, k)

DoubleBottomExit(bars, pos, setup) ==
    LET b == Last(bars)
        atr == RecentAtr(bars, Len(bars))
        anchor == IF setup.close > 0 THEN setup.close ELSE pos.avg
    IN /\ pos.qty > 0 /\ setup # NoSetup
       /\ \/ b.close < setup.low \/ LossExit(b, pos) \/ Invalidated(b, setup)
          \/ setup.close > 0 /\ setup.atr > 0
             /\ (b.close - setup.close) * 100 * AtrWindow >= PatternRisk.take_profit_atr * setup.atr
          \/ atr > 0 /\ (anchor - b.close) * 100 * AtrWindow > PatternRisk.stop_loss_atr * atr

DoubleBottomSetups(s) ==
    LET n == Len(s.bars)
        last == Pick(s.right, LAMBDA c, d : c.at > d.at \/ (c.at = d.at /\ c.left > d.left))
    IN CASE s.best.breakout = n -> {BreakoutSetup(s.bars, s.best)}
         [] s.best.breakout # n /\ s.right # {} ->
              {DoubleBottomSetup(s.bars, last, g) : g \in
                 {h \in {1, 2} : IF n = last.at + DoubleBottom.left_bottom_after_bars
                                 THEN h = 1 ELSE h = 2 /\ RightPullback(s.bars, last)}}
         [] OTHER -> {}

EvaluateDoubleBottom(s, pos) ==
    LET setup == IF pos.setup = NoSetup /\ s.best # NoBest
                 THEN BreakoutSetup(s.bars, s.best) ELSE pos.setup
    IN IF DoubleBottomExit(s.bars, pos, setup) THEN SellPosition
       ELSE BuySetups(DoubleBottomSetups(s))

-----------------------------------------------------------------------------
(* head_shoulders_bottom *)

HeadLows(bars) == Pivots(Troughs(bars), HeadShoulders.pivot_left_bars,
                         HeadShoulders.pivot_right_bars)
Consecutive(S, i, j) == i < j /\ \A k \in S : k <= i \/ j <= k

PlatformEnds(bars, left, head) ==
    {e \in left .. Min({head - 1, left + HeadShoulders.platform_bars - 1}) :
       IsPlatform(bars, e - HeadShoulders.platform_bars + 1, e,
                  HeadShoulders.platform_range_atr_max, HeadShoulders.platform_drift_atr_max)}

(* head_platform: a low-volume head well below a left shoulder that ends a *)
(* decline on a platform.                                                  *)
IsHead(bars, left, head) ==
    /\ head - left \in HeadShoulders.min_segment_bars .. HeadShoulders.max_segment_bars
    /\ bars[head].low * 100 <= bars[left].low * (100 - HeadShoulders.head_depth_min_pct)
    /\ DowntrendContext(bars, left, HeadShoulders.downtrend_lookback,
                        HeadShoulders.downtrend_min_drop_pct)
    /\ VolumeAtMost(bars[head], HeadShoulders.head_volume_ratio_max)
    /\ PlatformEnds(bars, left, head) # {}

IsShoulder(bars, left, head, shoulder) ==
    LET end == Max(PlatformEnds(bars, left, head))
        platform == end - HeadShoulders.platform_bars + 1 .. end
        peak == HighestIndex(bars, head + 1, shoulder - 1)
    IN /\ shoulder - head \in HeadShoulders.min_segment_bars .. HeadShoulders.max_segment_bars
       /\ Distance(bars[shoulder].low, bars[left].low) * 100
            <= HeadShoulders.shoulder_tolerance_pct * bars[left].low
       /\ bars[head].low * 100 <= bars[shoulder].low * (100 - HeadShoulders.head_depth_min_pct)
       /\ \A k \in head + 1 .. Len(bars) : bars[k].low >= bars[head].low
       /\ VolumeAtMost(bars[shoulder], HeadShoulders.right_shoulder_volume_ratio_max)
       /\ shoulder > head + 1
       /\ MeanVolumeWithin(bars, head + 1, peak, HeadShoulders.rebound_volume_ratio_min,
                           HeadShoulders.rebound_volume_ratio_max)
       /\ \E k \in head + 1 .. peak :
            bars[k].close \in LowOf(bars, platform) .. HighOf(bars, platform)

NecklineBroken(bars, left, head, shoulder) ==
    /\ AboveLine(bars, HighestIndex(bars, left, head - 1),
                 HighestIndex(bars, head + 1, shoulder - 1), Len(bars),
                 HeadShoulders.breakout_buffer_pct)
    /\ VolumeAtLeast(Last(bars), HeadShoulders.breakout_volume_ratio_min)

HeadSetup(bars, left, head, stage) ==
    Setup(<<bars[left].date, bars[head].date>>, stage, bars[head].low * 100)

(* The latest complete structure comes first, then a fresh head. *)
Heads(bars) ==
    LET lows == HeadLows(bars)
    IN {p \in lows \X lows : Consecutive(lows, p[1], p[2]) /\ IsHead(bars, p[1], p[2])}

(* A head that the last bar confirms. *)
FreshHeads(bars) ==
    {p \in Heads(bars) : p[2] = Len(bars) - HeadShoulders.pivot_right_bars}

HeadShouldersSetups(bars) ==
    LET lows == HeadLows(bars)
        n == Len(bars)
        right == HeadShoulders.pivot_right_bars
        Follows(p, k) == Consecutive(lows, p[2], k) /\ IsShoulder(bars, p[1], p[2], k)
        whole == {p \in Heads(bars) : \E k \in lows :
                    Follows(p, k) /\ (n = k + right \/ NecklineBroken(bars, p[1], p[2], k))}
        Later(p, q) == p[1] > q[1]
        last == Pick(whole, Later)
        broken == \E k \in lows : Follows(last, k) /\ NecklineBroken(bars, last[1], last[2], k)
    IN IF whole # {} THEN {HeadSetup(bars, last[1], last[2], IF broken THEN 3 ELSE 2)}
       ELSE {HeadSetup(bars, p[1], p[2], 1) : p \in FreshHeads(bars)}

EvaluateHeadShoulders(bars, pos) ==
    IF PositionExit(bars, pos) THEN SellPosition ELSE BuySetups(HeadShouldersSetups(bars))

-----------------------------------------------------------------------------
(* v_reversal *)

(* The low a rising, busy bar i turns from: bar i itself when none of the  *)
(* bars before it is lower, else the first of the lowest.                  *)
PivotOf(bars, i) ==
    LET near == Max({1, i - VReversal.pivot_max_bars + 1}) .. i
        low == LowOf(bars, near)
    IN IF bars[i].low = low THEN i ELSE Min({k \in near : bars[k].low = low})

Reverses(bars, i) ==
    LET b == bars[i]
        pivot == PivotOf(bars, i)
        low == bars[pivot].low
    IN /\ Rising(b) /\ b.atr > 0 /\ VolumeAtLeast(b, VReversal.pivot_volume_ratio_min)
       /\ (b.close - low) * 100 >= VReversal.reversal_min_return_pct * low
       /\ (b.close - low) * 100 >= VReversal.reversal_min_atr * b.atr
       /\ LET before == Max({1, pivot - VReversal.downtrend_lookback}) .. pivot - 1
          IN before # {} /\ (CloseOf(bars, before) - low) * 100
                              >= VReversal.downtrend_min_drop_pct * CloseOf(bars, before)
       /\ \A k \in pivot + 1 .. Len(bars) : bars[k].low >= low

(* v_anchor: the bars that reverse, each with its pivot; the latest pivot  *)
(* counts, with the first bar that reverses from it.                       *)
Reversals(bars) == {<<PivotOf(bars, i), i>> :
    i \in {k \in VReversal.downtrend_lookback .. Len(bars) : Reverses(bars, k)}}
VAnchor(bars) == Pick(Reversals(bars), LAMBDA p, q : p[1] > q[1] \/ (p[1] = q[1] /\ p[2] < q[2]))

IsVBreakout(bars, from, to) ==
    /\ IsPlatform(bars, from, to - 1, VReversal.consolidation_range_atr_max,
                  VReversal.consolidation_drift_atr_max)
    /\ VolumeAtLeast(bars[to], VReversal.breakout_volume_ratio_min)
    /\ bars[to].close * 100 > HighOf(bars, from .. to - 1) * (100 + VReversal.breakout_buffer_pct)

(* v_breakout: the latest one, with the longest consolidation. *)
VBreakouts(bars, reversal) ==
    {p \in (reversal + 1 .. Len(bars)) \X (reversal + 1 .. Len(bars)) :
       /\ p[2] - p[1] \in VReversal.consolidation_min_bars .. VReversal.consolidation_max_bars
       /\ IsVBreakout(bars, p[1], p[2])}
VBreakout(bars, reversal) == Pick(VBreakouts(bars, reversal), LAMBDA p, q :
    p[2] > q[2] \/ (p[2] = q[2] /\ p[1] < q[1]))

Continues(bars, i, j) ==
    /\ i > 1
    /\ \A k \in i .. j : /\ Rising(bars[k]) /\ bars[k].close > bars[k - 1].close
                         /\ VolumeAtLeast(bars[k], VReversal.continuation_volume_ratio_min)

TopRetest(bars, from, to) ==
    LET n == Len(bars)
        top == HighOf(bars, from .. to - 1)
        floor == top * (100 - VReversal.support_tolerance_pct)
    IN /\ n \in to + 1 .. to + VReversal.retest_window
       /\ \A k \in to + 1 .. n - 1 : bars[k].close * 100 >= floor
       /\ bars[n].low * 100 >= floor
       /\ bars[n].low * 100 <= top * (100 + VReversal.support_tolerance_pct)
       /\ bars[n].close >= top
       /\ bars[n].volume * 100 <= bars[to].volume * VReversal.retest_volume_ratio_max

(* A busy bearish bar right after a continuation, before any breakout. *)
BearishFailure(bars, pos, reversal) ==
    LET n == Len(bars) IN
    /\ pos.qty > 0 /\ pos.setup.stage \in {1, 2} /\ VBreakouts(bars, reversal) = {}
    /\ Falling(bars[n]) /\ BodyAtLeast(bars[n], VReversal.bearish_body_atr_min)
    /\ VolumeAtLeast(bars[n], VReversal.bearish_reversal_volume_ratio_min)
    /\ n >= reversal + 2 /\ Continues(bars, n - 2, n - 1)

VSetups(bars, pivot, reversal) ==
    LET n == Len(bars)
        retest == /\ VBreakouts(bars, reversal) # {}
                  /\ TopRetest(bars, VBreakout(bars, reversal)[1], VBreakout(bars, reversal)[2])
        continues == /\ n - reversal \in 2 .. VReversal.continuation_window
                     /\ Continues(bars, reversal + 1, n)
        stages == CASE retest -> {3}
                    [] ~retest /\ continues -> {2}
                    [] ~retest /\ ~continues /\ n = reversal -> {1}
                    [] OTHER -> {}
    IN {Setup(<<bars[pivot].date>>, s, bars[pivot].low * 100) : s \in stages}

EvaluateVReversal(bars, pos) ==
    LET anchor == VAnchor(bars) IN
    CASE PositionExit(bars, pos) -> SellPosition
      [] ~PositionExit(bars, pos) /\ Reversals(bars) # {} ->
           IF BearishFailure(bars, pos, anchor[2]) THEN SellPosition
           ELSE BuySetups(VSetups(bars, anchor[1], anchor[2]))
      [] OTHER -> {}

-----------------------------------------------------------------------------
(* rounded_bottom *)

RoundedPivots(values) == Pivots(values, RoundedBottom.pivot_left_bars,
                                RoundedBottom.pivot_right_bars)

(* rounded_weakness_exit: a lower high on the right side, and a close under*)
(* the pullback between the two highs, with no breakout since.             *)
WeaknessExit(bars, pos) ==
    LET highs == RoundedPivots(Peaks(bars))
        lows == RoundedPivots(Troughs(bars))
        weaker == 100 - RoundedBottom.weakening_buffer_pct
        close == Last(bars).close
    IN /\ pos.qty > 0 /\ pos.setup.stage \in {1, 2}
       /\ \E i, j \in highs :
            LET between == {k \in lows : i < k /\ k < j} IN
            /\ Consecutive(highs, i, j) /\ bars[i].date > pos.setup.id[1]
            /\ bars[j].high * 100 <= bars[i].high * weaker
            /\ between # {} /\ close * 100 <= bars[Max(between)].low * weaker
            /\ ~\E k \in i + 1 .. Len(bars) :
                  /\ bars[k].close * 100 > bars[i].high * (100 + RoundedBottom.breakout_buffer_pct)
                  /\ VolumeAtLeast(bars[k], RoundedBottom.breakout_volume_ratio_min)

(* The pullbacks of the right side, each quiet, after a busy rise, and     *)
(* above the one before it, with the peak it falls back from.              *)
WithPullback(bars, bottom, found, pivot) ==
    LET before == Len(found)
        from == IF before = 0 THEN bottom + 1 ELSE Last(found).low + 1
        peak == HighestIndex(bars, from, pivot - 1)
        quiet == /\ VolumeAtMost(bars[pivot], RoundedBottom.pullback_volume_ratio_max)
                 /\ \E k \in from .. peak : /\ bars[k].close > bars[k - 1].close
                      /\ VolumeAtLeast(bars[k], RoundedBottom.right_volume_ratio_min)
        higher == before > 0 =>
                    /\ pivot - Last(found).low >= RoundedBottom.min_pullback_spacing
                    /\ bars[pivot].low > bars[Last(found).low].low
                    /\ bars[peak].high > bars[Last(found).peak].high
    IN IF from < pivot /\ quiet /\ higher
       THEN Append(found, [low |-> pivot, peak |-> peak]) ELSE found

Pullbacks(bars, bottom) ==
    FoldLeft(LAMBDA found, pivot : WithPullback(bars, bottom, found, pivot), <<>>,
             SetToSortSeq({k \in RoundedPivots(Troughs(bars)) : k > bottom}, LAMBDA i, j : i < j))

RoundedSetups(bars) ==
    LET n == Len(bars)
        size == Min({n, RoundedBottom.max_lookback})
        window == n - size + 1 .. n
        bottom == Pick(window, LAMBDA i, j :
            bars[i].close < bars[j].close \/ (bars[i].close = bars[j].close /\ i < j))
        rim == HighOf(bars, n - size + 1 .. n - size + Max({3, size \div 10}))
        found == Pullbacks(bars, bottom)
        breakout == /\ Len(found) >= 2
                    /\ bars[n].close * 100 > rim * (100 + RoundedBottom.breakout_buffer_pct)
                    /\ VolumeAtLeast(bars[n], RoundedBottom.breakout_volume_ratio_min)
        fresh == {k \in DOMAIN found : n = found[k].low + RoundedBottom.pivot_right_bars}
        stages == IF breakout THEN {3} ELSE IF fresh = {} THEN {}
                  ELSE {IF fresh = {1} THEN 1 ELSE 2}
        shaped == /\ n >= RoundedBottom.min_lookback
                  /\ Bowl([k \in 1 .. size |-> bars[n - size + k].close])
                  /\ (rim - bars[bottom].close) * 100 >= RoundedBottom.min_depth_pct * rim
    IN IF shaped THEN {Setup(<<bars[bottom].date>>, s, bars[bottom].close * 100) : s \in stages}
       ELSE {}

EvaluateRoundedBottom(bars, pos) ==
    IF PositionExit(bars, pos) \/ WeaknessExit(bars, pos) THEN SellPosition
    ELSE BuySetups(RoundedSetups(bars))

-----------------------------------------------------------------------------
(* What a detector of each type keeps, and what it decides. *)

(* A mutant: a pair of bottoms need not be remembered until it breaks out. *)
DoubleBottomHistoryShort == DoubleBottom.downtrend_lookback
    + DoubleBottom.left_bottom_before_bars + DoubleBottom.retest_window + HistorySlack
DoubleBottomHistory == DoubleBottom.downtrend_lookback + DoubleBottom.max_bottom_spacing
    + DoubleBottom.left_bottom_before_bars + DoubleBottom.max_breakout_bars_after_right_bottom
    + DoubleBottom.retest_window + HistorySlack

HistoryLimit(kind) ==
    Max({HistoryFloor,
         CASE kind = "island_reversal" -> Island.downtrend_lookback + Island.max_island_bars
                + Island.retest_window + 2
           [] kind = "double_bottom" -> DoubleBottomHistory
           [] kind = "head_shoulders_bottom" -> HeadShoulders.downtrend_lookback
                + 2 * HeadShoulders.max_segment_bars + HeadShoulders.pivot_right_bars + HistorySlack
           [] kind = "rounded_bottom" -> RoundedBottom.max_lookback
                + RoundedBottom.pivot_right_bars + HistorySlack
           [] kind = "v_reversal" -> VReversal.downtrend_lookback + VReversal.continuation_window
                + VReversal.consolidation_max_bars + VReversal.retest_window + HistorySlack})

(* append_pattern_bar: a bar of the same date takes the place of the last. *)
AppendBar(kind, s, bar) ==
    LET limit == HistoryLimit(kind)
        grown == [s EXCEPT !.bars = Append(@, bar)]
    IN CASE s.bars # <<>> /\ Last(s.bars).date = bar.date ->
              [s EXCEPT !.bars[Len(s.bars)] = bar]
         [] ~(s.bars # <<>> /\ Last(s.bars).date = bar.date) /\ kind = "double_bottom" ->
              Prune(Advance(grown), limit)
         [] OTHER -> IF Len(grown.bars) > limit THEN [grown EXCEPT !.bars = Tail(@)] ELSE grown

EvaluatePattern(kind, s, pos) ==
    CASE kind = "island_reversal" -> EvaluateIsland(s.bars, pos)
      [] kind = "double_bottom" -> EvaluateDoubleBottom(s, pos)
      [] kind = "head_shoulders_bottom" -> EvaluateHeadShoulders(s.bars, pos)
      [] kind = "rounded_bottom" -> EvaluateRoundedBottom(s.bars, pos)
      [] kind = "v_reversal" -> EvaluateVReversal(s.bars, pos)

(* evaluate_pattern_day, which paper trading uses: a detector that is fed  *)
(* the recent bars from nothing.                                           *)
Replayed(kind, bars) ==
    LET fed[k \in 0 .. Len(bars)] ==
          IF k = 0 THEN NoDetector ELSE AppendBar(kind, fed[k - 1], bars[k])
    IN fed[Len(bars)]
=============================================================================

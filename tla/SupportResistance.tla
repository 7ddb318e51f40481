-------------------------- MODULE SupportResistance --------------------------
(***************************************************************************)
(* The support/resistance strategy of support_resistance_core.cpp: what is *)
(* kept of one instrument, and what one more bar makes of it.              *)
(*                                                                         *)
(* Swings confirmed SR.right bars late are pivots; lines fitted through    *)
(* pivots of one kind are zones, parallel bands that the sessions project. *)
(* Zones live in phases: when the close breaks one, or two would cross,    *)
(* all end and a new phase begins with no pivots.  Support and resistance  *)
(* next to the close are the entry channel, the slopes make the regime, a  *)
(* bounce off a support is a candidate.                                    *)
(*                                                                         *)
(* The zones and regimes a run has found can be stored and given to a      *)
(* later run as cached timelines; that run fits nothing itself.            *)
(*                                                                         *)
(* Bars and sessions are numbered from 1.  Prices are whole numbers, slopes*)
(* and intercepts are in 1/Grain of a price, ratios in percent; where the  *)
(* code divides doubles the quotient is rounded down.  Audit events, which *)
(* the code appends as it goes, are left out.                              *)
(***************************************************************************)
EXTENDS Integers, Sequences, FiniteSets, SequencesExt, FiniteSetsExt

CONSTANTS
    SR,          \* the parameters of the strategy, by short names of Config
    Decay(_),    \* twice an age in sessions |-> the weight it leaves
    Grain        \* parts of a price

NoChannel == [valid |-> FALSE, lower |-> 0, upper |-> 0, rise |-> 0, fall |-> 0,
              support |-> <<>>, resistance |-> <<>>]
NoFrozen == [key |-> <<>>, lower |-> 0, slope |-> 0, date |-> 0, atr |-> 0,
             stop |-> 0, target |-> 0, apart |-> TRUE]

NoSymbol ==
    [phase |-> 0, history |-> <<>>, pivots |-> {}, zones |-> {}, regimes |-> <<>>,
     versions |-> <<>>, channel |-> NoChannel, pending |-> {},
     stats |-> [wins |-> 0, losses |-> 0, censored |-> 0], stopped |-> <<>>,
     cachedZones |-> <<>>, cachedRegimes |-> <<>>, decision |-> {}]

Abs(x) == IF x < 0 THEN -x ELSE x
Clamp(x) == IF x < 0 THEN 0 ELSE IF x > 100 THEN 100 ELSE x
Positive(x) == IF x > 0 THEN x ELSE 0
Smaller(x, y) == IF x <= y THEN x ELSE y

(* Lexicographic order of ranks; equal ranks are ordered by key, which the *)
(* code hashes: an arbitrary order, always the same.                       *)
Precedes(a, b) == \E k \in DOMAIN a : a[k] < b[k] /\ \A j \in 1 .. k - 1 : a[j] = b[j]
Best(S, rank) ==
    LET top == {x \in S : \A y \in S : ~Precedes(rank[y], rank[x])}
        key == CHOOSE k \in {x.key : x \in top} : TRUE
    IN CHOOSE x \in top : x.key = key

-----------------------------------------------------------------------------
(* Lines through pivots. *)

(* weighted_median: the least value that half of the weight does not exceed. *)
WeightedMedian(S, value, weight) ==
    LET upTo(v) == MapThenSumSet(LAMBDA x : weight[x], {x \in S : value[x] <= v})
        values == {value[x] : x \in S}
    IN Min({v \in values : 2 * upTo(v) >= upTo(Max(values))})

Span(P) == Max({p.index : p \in P}) - Min({p.index : p \in P})
Enough(P) == P # {} /\ Cardinality(P) >= SR.minPivots /\ Span(P) >= SR.minSpan

FitLine(P, now) ==
    LET pairs == {pair \in P \X P : pair[2].index - pair[1].index >= SR.minSpan}
        steepness == [pair \in pairs |-> ((pair[2].price - pair[1].price) * Grain)
                                            \div (pair[2].index - pair[1].index)]
        slope == WeightedMedian(pairs, steepness,
                    [pair \in pairs |-> Decay(2 * now - pair[1].index - pair[2].index)])
        offset == [p \in P |-> p.price * Grain - slope * p.index]
    IN [slope |-> slope,
        offset |-> WeightedMedian(P, offset, [p \in P |-> Decay(2 * (now - p.index))])]

Residual(line, p) == Abs(p.price * Grain - line.offset - line.slope * p.index)
Near(line, p) == Residual(line, p) * 100 <= SR.inlier * p.atr * Grain

(* fit_pivot_line: at most one fit, its inliers, line, and quality. *)
Fit(inliers, line, now) ==
    LET weight == [p \in inliers |-> Decay(2 * (now - p.index))]
        atr == WeightedMedian(inliers, [p \in inliers |-> p.atr], weight)
        total == MapThenSumSet(LAMBDA p : weight[p], inliers)
        misfit(p) == (weight[p] * Residual(line, p) * 100) \div (p.atr * Grain)
    IN IF Abs(line.slope) * 100 <= SR.maxSlope * atr * Grain
       THEN {[inliers |-> inliers, slope |-> line.slope, offset |-> line.offset,
              center |-> (line.offset + line.slope * now) \div Grain,
              residual |-> MapThenSumSet(misfit, inliers) \div total, weight |-> total]}
       ELSE {}

Refit(inliers, now) ==
    IF Enough(inliers) THEN Fit(inliers, FitLine(inliers, now), now) ELSE {}

FitPivots(P, now) ==
    LET line == FitLine(P, now)
    IN IF Enough(P) THEN Refit({p \in P : Near(line, p)}, now) ELSE {}

(* The fits of a kind: through all its recent pivots, and through those    *)
(* near the line of any two that are far enough apart.                     *)
LineFits(P, now) ==
    LET through(a, b) ==
            LET slope == ((b.price - a.price) * Grain) \div (b.index - a.index)
            IN {p \in P : Near([slope |-> slope, offset |-> a.price * Grain - slope * a.index], p)}
        pairs == {pair \in P \X P : pair[2].index - pair[1].index >= SR.minSpan}
    IN UNION {FitPivots(M, now) : M \in {P} \union {through(pair[1], pair[2]) : pair \in pairs}}

-----------------------------------------------------------------------------
(* Zones. *)

Project(z, index) ==
    LET moved == (z.slope * (index - z.anchor.index)) \div Grain
    IN [z EXCEPT !.center = z.anchor.center + moved, !.lower = z.anchor.lower + moved,
                 !.upper = z.anchor.upper + moved]

ValidZone(z) == z.atr > 0 /\ 0 < z.lower /\ z.lower <= z.center /\ z.center <= z.upper

(* Bands that are ordered strictly and alike at two sessions do not meet   *)
(* between them.                                                           *)
Apart(a, b, i, j) ==
    LET below(x, y) == \A k \in {i, j} : Project(x, k).upper < Project(y, k).lower
    IN below(a, b) \/ below(b, a)

(* next_session_phase_geometry, and the first two reasons a phase ends for.*)
KeepsShape(zones, index) ==
    /\ \A z \in zones : ValidZone(Project(z, index))
    /\ \A a, b \in zones : a.key # b.key => Apart(a, b, index - 1, index)

Broken(z, close) ==
    IF z.role = "support" THEN close < z.lower ELSE close > z.upper

NewZone(s, bar, kind, fit) ==
    LET now == Len(s.history)
        half == Max({(SR.halfWidth * bar.atr) \div 100} \union
                    {(Abs(p.price * Grain - fit.offset - fit.slope * p.index)) \div Grain :
                       p \in fit.inliers})
        dates == {p.date : p \in fit.inliers}
    IN [key |-> <<kind, dates, s.phase>>, kind |-> kind,
        role |-> IF bar.close >= fit.center THEN "support" ELSE "resistance",
        center |-> fit.center, lower |-> fit.center - half, upper |-> fit.center + half,
        anchor |-> [index |-> now, center |-> fit.center, lower |-> fit.center - half,
                    upper |-> fit.center + half],
        slope |-> fit.slope, atr |-> bar.atr, residual |-> fit.residual,
        weight |-> fit.weight \div Cardinality(fit.inliers), count |-> Cardinality(fit.inliers),
        first |-> Min(dates), last |-> Max(dates), from |-> bar.date,
        touches |-> 0, inside |-> FALSE, since |-> 0]

(* record_zone_version: a zone is written when its status changes. *)
Record(versions, z, date, status) ==
    LET same == SelectSeq(versions, LAMBDA v : v.zone.key = z.key)
    IN IF same # <<>> /\ Last(same).status = status THEN versions
       ELSE Append(versions, [zone |-> z, from |-> date, status |-> status])

RecordAll(s, date, status) ==
    [s EXCEPT !.versions = FoldSet(LAMBDA z, v : Record(v, z, date, status), @, s.zones)]

(* confirm_pivots: SR.right bars after an extreme of the phase. *)
IsPivot(s, n, kind) ==
    LET value(k) == IF kind = "high" THEN s.history[k].high ELSE s.history[k].low
        near == n - SR.left .. n + SR.right
        extreme == IF kind = "high" THEN Max({value(k) : k \in near}) ELSE Min({value(k) : k \in near})
        reaches(k) == Abs(value(k) - extreme) * 100 <= SR.tolerance * s.history[n].atr
    IN reaches(n) /\ \A k \in near : k < n => ~reaches(k)

ConfirmPivots(s) ==
    LET n == Len(s.history) - SR.right
        bar == s.history[n]
        found == {[kind |-> kind, index |-> n, date |-> bar.date, atr |-> bar.atr,
                   price |-> IF kind = "high" THEN bar.high ELSE bar.low] :
                     kind \in {k \in {"low", "high"} : IsPivot(s, n, k)}}
    IN IF n > SR.left /\ bar.date >= s.phase THEN [s EXCEPT !.pivots = @ \union found] ELSE s

MeetsAny(s, zones, z) ==
    LET met(old) == CHOOSE k \in DOMAIN s.history :
                       /\ s.history[k].date >= Max({old.first, z.first})
                       /\ \A j \in 1 .. k - 1 : s.history[j].date < Max({old.first, z.first})
    IN \E old \in zones : ~Apart(old, z, met(old), Len(s.history))

(* The best fits of a kind become zones while there is room and they meet  *)
(* no zone.                                                                *)
AddZone(s, chosen, z) ==
    IF /\ Cardinality({x \in chosen : x.kind = z.kind}) < SR.maxZones
       /\ ValidZone(z) /\ ~MeetsAny(s, chosen, z)
    THEN chosen \union {z} ELSE chosen

AddZones(s, bar, kind, zones) ==
    LET now == Len(s.history)
        recent == {p \in s.pivots : p.kind = kind /\ now - p.index < SR.window}
        rank(f) == <<-Cardinality(f.inliers), -(f.weight \div Cardinality(f.inliers)), f.residual,
                     Abs(f.center - bar.close)>>
        ordered == SetToSortSeq(LineFits(recent, now), LAMBDA f, g : Precedes(rank(f), rank(g)))
    IN FoldLeft(LAMBDA chosen, fit : AddZone(s, chosen, NewZone(s, bar, kind, fit)), zones, ordered)

(* rebuild_zones: pivots out of the window go unless a zone rests on them. *)
RebuildZones(s, bar) ==
    LET now == Len(s.history)
        kept == {p \in s.pivots :
                   /\ p.date >= s.phase
                   /\ \/ now - p.index < SR.window
                      \/ \E z \in s.zones : z.kind = p.kind /\ p.date \in z.key[2]}
        pruned == [s EXCEPT !.pivots = kept]
        zones == FoldLeft(LAMBDA chosen, kind : AddZones(pruned, bar, kind, chosen),
                          {Project(z, now) : z \in s.zones}, <<"low", "high">>)
    IN RecordAll([pruned EXCEPT !.zones = zones], bar.date, "active")

(* apply_current_bar_zone_state: a band that is entered is touched. *)
Touched(z, bar) ==
    LET inside == bar.high >= z.lower /\ bar.low <= z.upper
    IN [z EXCEPT !.inside = inside, !.touches = IF inside /\ ~z.inside THEN @ + 1 ELSE @]

-----------------------------------------------------------------------------
(* The cached timelines. *)

(* activate_cached_zones: the last version of each zone that took effect   *)
(* before the date; what the bars have done to it is kept.                 *)
ActivateZones(s, date) ==
    LET past == {v \in ToSet(s.cachedZones) : v.from < date}
        current == {v \in past : \A w \in past : w.zone.key = v.zone.key => w.from <= v.from}
        known(v) == {z \in s.zones : z.key = v.zone.key /\ z.since = v.from}
        zone(v) == IF known(v) = {} THEN [v.zone EXCEPT !.since = v.from]
                   ELSE LET old == CHOOSE z \in known(v) : TRUE
                        IN [v.zone EXCEPT !.since = v.from, !.touches = old.touches,
                                          !.inside = old.inside]
    IN [s EXCEPT !.zones = {zone(v) : v \in {w \in current : w.status = "active"}}]

HasCache(s) == s.cachedZones # <<>> \/ s.cachedRegimes # <<>>

(* _zone_version_rows: what is stored of a zone.  An active version reaches*)
(* to the session before the next version of its zone, or to the end of the*)
(* coverage; the others describe the last session their zone was valid in. *)
SessionOf(s, date) == CHOOSE k \in DOMAIN s.history : s.history[k].date = date

ZoneRow(s, v) ==
    LET later == {w.from : w \in {x \in ToSet(s.versions) : x.zone.key = v.zone.key /\ x.from > v.from}}
        lastValid == SessionOf(s, v.from) - 1
        reach == IF later = {} THEN Len(s.history) ELSE SessionOf(s, Min(later)) - 1
    IN [from |-> v.from, status |-> v.status,
        zone |-> Project(v.zone, IF v.status = "active" THEN SessionOf(s, v.from) ELSE lastValid),
        end |-> Project(v.zone, IF v.status = "active" THEN reach ELSE lastValid)]

ZoneRows(s) == [k \in DOMAIN s.versions |-> ZoneRow(s, s.versions[k])]

(* What _zone_version_rows and _validate_persisted_zone_row insist on.     *)
ZonesStorable(rows, dates) ==
    /\ \A k \in DOMAIN rows : /\ rows[k].from \in dates
                              /\ ValidZone(rows[k].zone) /\ ValidZone(rows[k].end)
    /\ \A j, k \in DOMAIN rows :
         j # k /\ rows[j].zone.key = rows[k].zone.key => rows[j].from # rows[k].from

(* _validate_regime_versions *)
RegimesStorable(regimes, dates) ==
    /\ regimes # <<>> /\ Head(regimes).from = Min(dates)
    /\ \A k \in DOMAIN regimes : regimes[k].from \in dates
    /\ \A k \in 2 .. Len(regimes) :
         /\ regimes[k - 1].from < regimes[k].from
         /\ regimes[k - 1].regime # regimes[k].regime \/ regimes[k - 1].phase # regimes[k].phase

Storable(s, dates) == ZonesStorable(ZoneRows(s), dates) /\ RegimesStorable(s.regimes, dates)

(* hydrate_state_from_materialization: the timelines of what a run found,  *)
(* which a new symbol is given.                                            *)
StoredTimelines(found) == [zones |-> ZoneRows(found), regimes |-> found.regimes]
Hydrate(stored) ==
    [NoSymbol EXCEPT !.cachedZones = stored.zones, !.cachedRegimes = stored.regimes]
Hydrated(found) == Hydrate(StoredTimelines(found))

(* A bar meets the zones: the cached ones are activated, all are projected,*)
(* and unless they keep their shape and the close respects them all of     *)
(* them end, with their pivots, and a phase begins.                        *)
OpenPhase(s, bar) ==
    LET index == Len(s.history) + 1
        active == IF s.cachedZones = <<>> THEN s ELSE ActivateZones(s, bar.date)
        begun == IF s.phase # 0 THEN active
                 ELSE [active EXCEPT !.phase = IF s.history = <<>> THEN bar.date
                                               ELSE Head(s.history).date]
        zones == {Project(z, index) : z \in active.zones}
        ended == IF HasCache(s) THEN begun
                 ELSE RecordAll(begun, bar.date, "expired")
    IN IF KeepsShape(active.zones, index) /\ \A z \in zones : ~Broken(z, bar.close)
       THEN [begun EXCEPT !.zones = zones]
       ELSE [ended EXCEPT !.zones = {}, !.pivots = {}, !.phase = bar.date]

-----------------------------------------------------------------------------
(* The entry channel, and the regime. *)

EntryChannel(zones, close) ==
    LET supports == {z \in zones : ValidZone(z) /\ z.role = "support" /\ z.upper <= close}
        resistances == {z \in zones : ValidZone(z) /\ z.role = "resistance" /\ z.lower >= close}
        low == Best(supports, [z \in supports |-> <<close - z.upper, -z.count, -z.last, z.residual>>])
        high == Best(resistances,
                     [z \in resistances |-> <<z.lower - close, -z.count, -z.last, z.residual>>])
    IN IF supports = {} \/ resistances = {} \/ low.upper >= high.lower THEN NoChannel
       ELSE [valid |-> TRUE, lower |-> low.upper, upper |-> high.lower, rise |-> low.slope,
             fall |-> high.slope, support |-> low.key, resistance |-> high.key]

(* project_entry_channel, by one session. *)
NextChannel(channel) ==
    [channel EXCEPT !.lower = @ + channel.rise \div Grain, !.upper = @ + channel.fall \div Grain]

Direction(delta, tolerance) ==
    IF delta > tolerance THEN "up" ELSE IF delta < -tolerance THEN "down" ELSE "flat"

BoundaryDirection(z) ==
    Direction(z.slope * SR.minSpan * 100, SR.halfWidth * z.atr * Grain)

(* The latest four swings of a kind, and the median change between them.   *)
LatestSwings(s, kind) ==
    {p \in s.pivots : p.kind = kind
        /\ Cardinality({q \in s.pivots : q.kind = kind /\ q.index > p.index}) < 4}

SwingDirection(P) ==
    LET pairs == {pair \in P \X P : pair[1].index < pair[2].index}
        change == [pair \in pairs |-> ((pair[2].price - pair[1].price) * 200)
                                         \div (pair[1].atr + pair[2].atr)]
    IN Direction(WeightedMedian(pairs, change, [pair \in pairs |-> 1]), SR.halfWidth)

Boundary(zones, kind, close) ==
    LET valid == {z \in zones : z.kind = kind /\ ValidZone(z)}
    IN Best(valid, [z \in valid |-> <<-z.count, -z.weight, z.residual, Abs(z.center - close)>>])

(* classify_market_regime. *)
Structure(s, zones, bar) ==
    LET low == Boundary(zones, "low", bar.close)
        high == Boundary(zones, "high", bar.close)
        lows == {BoundaryDirection(low), SwingDirection(LatestSwings(s, "low"))}
        highs == {BoundaryDirection(high), SwingDirection(LatestSwings(s, "high"))}
        inside == low.lower <= bar.close /\ bar.close <= high.upper
        leaning(dirs, way) == way \in dirs /\ dirs \subseteq {way, "flat"}
    IN CASE lows \union highs = {"up"} -> IF bar.close < low.lower THEN "transition" ELSE "uptrend"
         [] lows \union highs = {"down"} -> IF bar.close > high.upper THEN "transition" ELSE "downtrend"
         [] \/ lows \union highs = {"flat"}
            \/ leaning(lows, "up") /\ leaning(highs, "down")
            \/ leaning(lows, "down") /\ leaning(highs, "up") -> IF inside THEN "range" ELSE "transition"
         [] OTHER -> "transition"

Regime(s, zones, bar) ==
    LET valid(kind) == {z \in zones : z.kind = kind /\ ValidZone(z)}
    IN IF \/ \E kind \in {"low", "high"} :
               valid(kind) = {} \/ Cardinality(LatestSwings(s, kind)) < 2
          \/ Boundary(zones, "low", bar.close).center >= Boundary(zones, "high", bar.close).center
       THEN "transition" ELSE Structure(s, zones, bar)

(* activate_cached_regime: the last version that took effect by the date.  *)
CachedRegime(s, date) ==
    LET past == SelectSeq(s.cachedRegimes, LAMBDA v : v.from <= date)
    IN IF past = <<>> THEN [regime |-> "transition", phase |-> s.phase]
       ELSE [regime |-> Last(past).regime, phase |-> Last(past).phase]

(* record_regime_version: one version per change of regime or phase. *)
WithRegime(s, bar) ==
    LET cached == CachedRegime(s, bar.date)
        regime == IF s.cachedRegimes # <<>> THEN cached.regime ELSE Regime(s, s.zones, bar)
        phase == IF s.cachedRegimes # <<>> THEN cached.phase ELSE s.phase
        version == [from |-> bar.date, regime |-> regime, phase |-> phase]
        same == s.regimes # <<>> /\ Last(s.regimes).regime = regime /\ Last(s.regimes).phase = phase
    IN [s EXCEPT !.phase = phase, !.regimes = IF same THEN @ ELSE Append(@, version)]

RegimeNow(s) == Last(s.regimes).regime

-----------------------------------------------------------------------------
(* Exits, of positions and of the outcomes the statistics follow. *)

(* entry_stop: the stop of a decision, on the day after it. *)
EntryStop(frozen) == Max({frozen.stop, frozen.lower + Positive(frozen.slope) \div Grain})

(* The frozen support rises with its slope; a bar that closed far enough   *)
(* above the entry moves the stop to the entry.                            *)
ExitStop(s, pos) ==
    LET frozen == pos.frozen
        after == SelectSeq(s.history, LAMBDA b : b.date > frozen.date)
        risk == pos.avg - frozen.stop
        ahead == risk > 0 /\ \E k \in DOMAIN after :
                    (after[k].close - pos.avg) * 100 >= SR.breakEven * risk
    IN Max({pos.avg - (SR.stopAtr * frozen.atr) \div 100,
            (pos.avg * (100 - SR.maxLoss)) \div 100,
            frozen.lower + (Positive(frozen.slope) * (1 + Len(after))) \div Grain,
            frozen.stop} \union IF ahead THEN {pos.avg} ELSE {})

(* resolve_exit: the reason to sell, if there is one. *)
ExitReason(s, pos, bar) ==
    IF pos.frozen = NoFrozen THEN ""
    ELSE IF bar.close < ExitStop(s, pos) THEN "stop"
    ELSE IF bar.close >= pos.frozen.target THEN "target"
    ELSE IF RegimeNow(s) = "downtrend" THEN "downtrend"
    ELSE IF pos.holding >= SR.maxHolding THEN "max_holding" ELSE ""

(* resolve_prior_outcomes: an outcome enters at the open after its signal  *)
(* unless the open is unfit, and settles at the open after its exit.       *)
EntryUnfit(o, open) ==
    LET stop == EntryStop(o.frozen)
    IN open < o.lower \/ open > o.upper \/ open <= stop
       \/ (o.frozen.target - open) * 100 < SR.minReward * (open - stop)

Settled(stats, o, open) ==
    IF o.exit = "max_holding" THEN [stats EXCEPT !.censored = @ + 1]
    ELSE IF open > o.entry THEN [stats EXCEPT !.wins = @ + 1]
    ELSE [stats EXCEPT !.losses = @ + 1]

ResolveOutcomes(s, bar) ==
    LET index == Len(s.history) + 1
        entered(o) == IF o.entry = 0 THEN [o EXCEPT !.entry = bar.open] ELSE o
        held(o) == [avg |-> entered(o).entry, holding |-> index - o.index - 1, frozen |-> o.frozen]
        stays == {o \in s.pending : o.exit = "" /\ (o.entry = 0 => ~EntryUnfit(o, bar.open))}
    IN [s EXCEPT
         !.stats = FoldSet(LAMBDA o, stats : Settled(stats, o, bar.open), @,
                           {o \in s.pending : o.exit # ""}),
         !.pending = {[entered(o) EXCEPT !.exit = ExitReason(s, held(o), bar)] : o \in stays}]

-----------------------------------------------------------------------------
(* Candidates. *)

(* strength_component and build_strength. *)
Rise(x, gate, cap) == Clamp((100 * (x - gate)) \div (cap - gate))
Fall(x, gate, ideal) == Clamp((100 * (gate - x)) \div (gate - ideal))

Strength(z, bar, reward) ==
    LET confirmation == ((bar.close - z.upper) * 100) \div bar.atr
    IN (25 * Rise(reward, SR.minReward, 2 * SR.minReward)
        + 15 * Rise(z.count, SR.minPivots - 1, SR.minPivots + 3)
        + 10 * Rise(z.touches, 0, 3)
        + 15 * Fall(z.residual, SR.inlier, 0)
        + 20 * Fall(confirmation, SR.bounce + 200, SR.bounce)
        + 15 * Rise(bar.ratio, 50, 150)) \div 100

(* candidate_payload: the stop, the target and what they promise. *)
Candidate(zones, z, bar) ==
    LET entry == bar.close
        stop == Max({z.lower, entry - (SR.stopAtr * bar.atr) \div 100,
                     (entry * (100 - SR.maxLoss)) \div 100})
        overhead == {x.lower : x \in {y \in zones : y.key # z.key /\ y.lower > entry}}
        target == IF overhead = {} THEN entry + (SR.profitAtr * bar.atr) \div 100 ELSE Min(overhead)
        reward == IF entry > stop THEN ((target - entry) * 100) \div (entry - stop) ELSE 0
    IN [key |-> z.key, zone |-> z, stop |-> stop, target |-> target,
        strength |-> Strength(z, bar, reward),
        worthwhile |-> z.slope >= 0 /\ reward >= SR.minReward]

(* detect_candidates: a bounce off a support found before today. *)
Bounces(s, z, bar) ==
    /\ SR.enabled /\ s.history # <<>>
    /\ z.role = "support" /\ z.from < bar.date
    /\ Last(s.history).close > z.upper /\ bar.low <= z.upper
    /\ (bar.close - z.upper) * 100 >= SR.bounce * bar.atr

Cooling(s, key, index) ==
    key \in DOMAIN s.stopped
      /\ s.stopped[key] <= index /\ index - s.stopped[key] <= SR.cooldown

MarketAllows(bar) == SR.marketFilter => bar.market = "above"

Eligible(s, c, bar) ==
    /\ c.worthwhile /\ RegimeNow(s) \in {"uptrend", "range"} /\ s.channel.valid
    /\ ~Cooling(s, c.key, Len(s.history) + 1) /\ MarketAllows(bar)

Frozen(c, bar) ==
    [key |-> c.key, lower |-> c.zone.lower, slope |-> c.zone.slope, date |-> bar.date,
     atr |-> bar.atr, stop |-> c.stop, target |-> c.target, apart |-> TRUE]

(* One episode at a time is followed, from the first strong candidate. *)
FollowOne(s, eligible, bar) ==
    LET strong == {c \in eligible : c.strength >= SR.minStrength}
        c == Best(strong, [x \in strong |-> <<0>>])
        next == NextChannel(s.channel)
    IN IF s.pending # {} \/ strong = {} THEN s
       ELSE [s EXCEPT !.pending = {[index |-> Len(s.history) + 1, entry |-> 0, exit |-> "",
                                    lower |-> next.lower, upper |-> next.upper,
                                    frozen |-> Frozen(c, bar)]}]

-----------------------------------------------------------------------------
(* One bar. *)

Usable(bar) == bar.open > 0 /\ bar.high > 0 /\ bar.low > 0 /\ bar.close > 0 /\ bar.atr > 0

(* The end of the bar: touches, the bar joins the history, zones are found *)
(* anew or taken from the cache as of the close.                           *)
CloseBar(s, bar) ==
    LET grown == [s EXCEPT !.zones = {Touched(z, bar) : z \in @}, !.history = Append(@, bar)]
    IN IF ~HasCache(s) THEN RebuildZones(ConfirmPivots(grown), bar)
       ELSE IF s.cachedZones # <<>> THEN ActivateZones(grown, bar.date + 1) ELSE grown

(* The channel and the regime of the bar. *)
Classified(opened, bar) ==
    [WithRegime(opened, bar) EXCEPT !.channel = EntryChannel(opened.zones, bar.close)]

(* The bar is weighed: the exit of the position, the eligible candidates.  *)
WithStop(s, pos, exit) ==
    IF exit = "stop" THEN [s EXCEPT !.stopped = (pos.frozen.key :> Len(s.history) + 1) @@ @] ELSE s

Candidates(s, bar) ==
    {c \in {Candidate(s.zones, z, bar) : z \in {x \in s.zones : Bounces(s, x, bar)}} :
       Eligible(s, c, bar)}

(* The decision is a set: empty, a SELL with the reason, or the BUY of the *)
(* strongest eligible candidate.  It is made before the bar is closed, but *)
(* whether the zones stay apart is asked of those of the close.            *)
Decision(s, zones, exit, eligible, pos, bar) ==
    LET best == Best(eligible, [x \in eligible |-> <<-x.strength>>])
        apart == KeepsShape(zones, Len(s.history) + 2)
    IN IF exit # "" THEN {[side |-> "SELL", reason |-> exit]}
       ELSE IF pos.qty > 0 \/ eligible = {} THEN {}
       ELSE {[side |-> "BUY", strength |-> best.strength, channel |-> s.channel, stats |-> s.stats,
              frozen |-> [Frozen(best, bar) EXCEPT !.apart = apart]]}

Deciding(s, decision) ==
    [field \in DOMAIN NoSymbol |-> IF field = "decision" THEN decision ELSE s[field]]

WithDecision(closed, s, exit, eligible, pos, bar, emit) ==
    Deciding(closed, IF emit THEN Decision(s, closed.zones, exit, eligible, pos, bar) ELSE {})

Weigh(s, pos, bar, emit) ==
    LET exit == IF pos.qty > 0 THEN ExitReason(s, pos, bar) ELSE ""
        stopped == WithStop(s, pos, exit)
        eligible == Candidates(stopped, bar)
    IN WithDecision(CloseBar(FollowOne(ResolveOutcomes(stopped, bar), eligible, bar), bar),
                    stopped, exit, eligible, pos, bar, emit)

(* advance_market_symbol with a position. *)
AdvanceSymbol(s, bar, pos, emit) ==
    IF Usable(bar) THEN Weigh(Classified(OpenPhase(s, bar), bar), pos, bar, emit)
    ELSE Deciding(s, {})

-----------------------------------------------------------------------------
(* The entry at the next open. *)

InChannel(channel, price) ==
    LET next == NextChannel(channel)
    IN /\ channel.valid /\ 0 < next.lower /\ next.lower < next.upper
       /\ next.lower <= price /\ price <= next.upper

(* size_entry: the most that the cash and the risk budget allow with the   *)
(* fees of both ends, or 0 when that does not pay.                         *)
Affordable(price, cash, costs) ==
    Smaller((cash * 100) \div (price * (100 + costs.pct)), (cash - costs.min) \div price)

SizeEntry(frozen, price, equity, cash, cap, costs) ==
    LET stop == EntryStop(frozen)
        exitStop == (stop * (100 - costs.slippage)) \div 100
        exitTarget == (frozen.target * (100 - costs.slippage)) \div 100
        loss == price - exitStop
        budget == (equity * SR.riskPct) \div 100
        bearable == Min({
            (equity * cap) \div (100 * price),
            (budget * 100) \div (100 * loss + costs.pct * (price + exitStop)),
            ((budget - costs.min) * 100) \div (100 * loss + costs.pct * price),
            ((budget - costs.min) * 100) \div (100 * loss + costs.pct * exitStop),
            (budget - 2 * costs.min) \div loss})
        quantity == Positive(Smaller(Affordable(price, cash, costs), bearable))
        fee(price_) == Max({(quantity * price_ * costs.pct) \div 100, costs.min})
        planned == quantity * loss + fee(price) + fee(exitStop)
        gain == quantity * (exitTarget - price) - fee(price) - fee(exitTarget)
    IN IF ~frozen.apart \/ price <= stop \/ gain * 100 < SR.minReward * planned
       THEN 0 ELSE quantity

-----------------------------------------------------------------------------
(* evaluate_support_resistance_day, which paper trading calls with the bars*)
(* it has: a symbol that starts from nothing, or from the cached timelines,*)
(* with the stops of earlier days, and is fed all the bars at once.        *)
NoView == [qty |-> 0, avg |-> 0, holding |-> 0, frozen |-> NoFrozen]

ReplayedFrom(start, bars, pos) ==
    LET advance(s, bar) == AdvanceSymbol(s, bar, IF bar = Last(bars) THEN pos ELSE NoView,
                                         bar = Last(bars))
    IN FoldLeft(advance, start, bars)

(* What two runs over the same bars must have in common. *)
Gist(s) == [zones |-> {[Project(z, Len(s.history)) EXCEPT !.since = 0] : z \in s.zones},
            phase |-> s.phase, regimes |-> s.regimes, channel |-> s.channel,
            pending |-> s.pending, stats |-> s.stats, decision |-> s.decision]
=============================================================================

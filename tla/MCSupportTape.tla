--------------------------- MODULE MCSupportTape ---------------------------
(***************************************************************************)
(* A tape of bars for the support/resistance strategy (open, high, low,    *)
(* close): two swings between 100 and 120, a bounce off the support, and   *)
(* two bounces more.  Instrument 1 ranges, instrument 2 is the same tape   *)
(* rising, instrument 3 the same tape falling.                             *)
(***************************************************************************)
EXTENDS Integers, Sequences

SupportTape == <<
    <<110, 112, 108, 110>>, <<108, 109, 100, 104>>, <<106, 114, 105, 113>>,
    <<114, 120, 112, 116>>, <<114, 115, 106, 107>>, <<106, 107, 100, 104>>,
    <<106, 114, 105, 113>>, <<114, 120, 112, 116>>, <<114, 115, 106, 108>>,
    <<107, 108, 101, 104>>, <<104, 111, 104, 110>>, <<110, 118, 109, 118>>,
    <<108, 110, 103, 106>>, <<106, 107, 101, 104>>, <<104, 108, 103, 107>>,
    <<106, 107, 101, 104>>, <<105, 110, 104, 109>>, <<109, 112, 108, 110>>>>

(* Opens that are too dear and below the channel; a close that stops the  *)
(* position, one that breaks the support too, and one that does nothing.   *)
SupportInstead(date) ==
    CASE date = 11 -> {<<106, 111, 104, 110>>, <<100, 111, 100, 110>>}
      [] date = 12 -> {<<117, 118, 98, 98>>, <<104, 105, 95, 96>>, <<110, 112, 108, 110>>}
      [] OTHER -> {}

Tilt(i) == CASE i = 2 -> 2 [] i = 3 -> -2 [] OTHER -> 0

MCSupport == [
    left |-> 1, right |-> 1, window |-> 20, minPivots |-> 2, minSpan |-> 4, maxZones |-> 2,
    tolerance |-> 5, inlier |-> 75, maxSlope |-> 75, halfWidth |-> 50, bounce |-> 25,
    enabled |-> TRUE, minStrength |-> 5, maxHolding |-> 4, minReward |-> 120, stopAtr |-> 125,
    maxLoss |-> 8, profitAtr |-> 300, riskPct |-> 5, cooldown |-> 2, breakEven |-> 100,
    marketFilter |-> FALSE]

MCDecay(age) == IF age >= 40 THEN 60 ELSE 100 - age
=============================================================================

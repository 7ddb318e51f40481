--------------------------- MODULE MCBacktestRuns ---------------------------
(* Instances of BacktestRuns for TLC.                                       *)
EXTENDS BacktestRuns, TLC

CONSTANTS r1, r2, p1

\* Which run is which matters to no definition.
RunsAlike == Permutations(Runs)
=============================================================================

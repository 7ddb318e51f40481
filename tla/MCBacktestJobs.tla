--------------------------- MODULE MCBacktestJobs ---------------------------
(* Instances of BacktestJobs for TLC.                                       *)
EXTENDS BacktestJobs, TLC

CONSTANTS j1, j2, j3, e1, e2, w1, w2, s1, s2

\* One research job.
ResearchOnly == [j \in Jobs |-> "research"]
\* Two verification jobs of a candidate beside a research job.
Mixed == [j \in Jobs |-> IF j = j3 THEN "research" ELSE "verification"]

\* Two slots of one coordinator: they share a worker id.
OneCoordinator == [e \in Children |-> w1]
\* One slot in each of two worker groups.
TwoCoordinators == [e \in Children |-> IF e = e1 THEN w1 ELSE w2]

\* The two verification jobs are interchangeable.
SameKind == Permutations({j1, j2})
=============================================================================

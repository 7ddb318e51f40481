----------------------- MODULE MCResearchExperiments -----------------------
(* Instances of ResearchExperiments for TLC.                                *)
EXTENDS ResearchExperiments, TLC

CONSTANTS t1, t2, t3, c1, c2

\* The first round has two trials, the second one.
TwoRounds == [t \in Trials |-> IF t = t3 THEN 2 ELSE 1]

Threads == Permutations(Controllers)
=============================================================================

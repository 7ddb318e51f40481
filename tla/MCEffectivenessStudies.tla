------------------------ MODULE MCEffectivenessStudies ------------------------
(* Instances of EffectivenessStudies for TLC.                               *)
EXTENDS EffectivenessStudies

CONSTANTS st, d0, f0, a1, a2, u1
=============================================================================

--------------------------- MODULE MCWorkerManager ---------------------------
(* An instance of WorkerManager for TLC.                                    *)
EXTENDS WorkerManager

CONSTANTS m1, m2, j1, j2
=============================================================================

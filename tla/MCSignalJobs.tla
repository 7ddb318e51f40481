---------------------------- MODULE MCSignalJobs ----------------------------
(* Instances of SignalJobs for TLC.                                         *)
EXTENDS SignalJobs, TLC

CONSTANTS s1, r1, d1, d2, v1, w1, w2

\* Every report is of the one scan, every delivery and export of the one report.
OneScan   == [r \in Reports |-> s1]
OneReport == [j \in Deliveries \cup Renders |-> r1]

\* Workers are interchangeable, and so are the recipients.
Interchangeable == Permutations({w1, w2}) \cup Permutations({d1, d2})
=============================================================================

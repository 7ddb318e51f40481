-------------------------- MODULE MCPaperEntries --------------------------
(* An instance of PaperEntries for TLC: two runs of one day asked for the   *)
(* first symbol, one of them for a second one.                              *)
EXTENDS PaperEntries, TLC

CONSTANTS i1, i2, i3, a, b

RunsOf  == (i1 :> 1) @@ (i2 :> 1) @@ (i3 :> 2)
Sequence == <<i1, i2, i3>>
Lots    == (a :> 2) @@ (b :> 1)
NameOf  == (i1 :> a) @@ (i2 :> b) @@ (i3 :> a)
=============================================================================

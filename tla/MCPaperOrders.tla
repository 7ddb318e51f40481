--------------------------- MODULE MCPaperOrders ---------------------------
(* Instances of PaperOrders for TLC.                                        *)
EXTENDS PaperOrders

CONSTANTS s1, s2, a, b, sch, req

InOrder == <<s1, s2>>
Alone   == <<s1>>
=============================================================================

----------------------------- MODULE OrderBook -----------------------------
(***************************************************************************)
(* What a strategy may rely on, whoever acts for it: an instruction is     *)
(* asked of the broker once, the broker fills no more of it than was       *)
(* asked, and the books follow the broker and never run ahead of it. An    *)
(* entry of the books may fall back to an older answer, but it is never    *)
(* dropped, and one held for closed is exact.                              *)
(***************************************************************************)
EXTENDS Integers, Sequences

VARIABLES
  asked,    \* what was asked: [intent, qty, filled, closed], in the order asked
  booked    \* index in asked -> what the books show of it: [filled, closed]

vars == <<asked, booked>>

Init == asked = <<>> /\ booked = <<>>

\* The broker may do all of it at once.
Ask ==
  /\ Len(asked') = Len(asked) + 1 /\ SubSeq(asked', 1, Len(asked)) = asked
  /\ LET new == asked'[Len(asked')] IN
     /\ \A k \in DOMAIN asked : asked[k].intent # new.intent
     /\ new.filled \in 0 .. new.qty /\ (new.closed <=> new.filled = new.qty)
  /\ UNCHANGED booked

Work(k) ==
  /\ ~asked[k].closed
  /\ asked' = [asked EXCEPT ![k].filled = asked'[k].filled, ![k].closed = asked'[k].closed]
  /\ asked'[k].filled \in asked[k].filled .. asked[k].qty
  /\ UNCHANGED booked

Note ==
  /\ DOMAIN booked \subseteq DOMAIN booked' /\ DOMAIN booked' \subseteq DOMAIN asked
  /\ \A k \in DOMAIN booked' :
       /\ booked'[k].filled \in 0 .. asked[k].filled
       /\ booked'[k].closed => asked[k].closed /\ booked'[k].filled = asked[k].filled
  /\ UNCHANGED asked

Next == Note \/ Ask \/ \E k \in DOMAIN asked : Work(k)

Spec == Init /\ [][Next]_vars
=============================================================================

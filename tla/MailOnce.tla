------------------------------- MODULE MailOnce -------------------------------
(***************************************************************************)
(* What the signal centre promises about one e-mail per delivery: a message *)
(* is handed to the server at most once, nothing is claimed that did not    *)
(* happen, and a doubtful attempt is never followed by another one          *)
(* (signal_report_delivery.py: "ambiguous acceptance is never blindly       *)
(* retried").                                                               *)
(***************************************************************************)
EXTENDS Naturals

CONSTANT Deliveries

VARIABLES
  phase,   \* "open", "underway", "sent" or "doubtful"
  mails    \* messages the server has accepted

vars == <<phase, mails>>

Init ==
  /\ phase = [d \in Deliveries |-> "open"]
  /\ mails = [d \in Deliveries |-> 0]

Become(d, p) == phase' = [phase EXCEPT ![d] = p]

\* An attempt announces itself before the server can accept anything.
Begin(d) == phase[d] = "open" /\ mails[d] = 0 /\ Become(d, "underway") /\ UNCHANGED mails

\* The server accepts the message.
Accept(d) ==
  /\ phase[d] = "underway" /\ mails[d] = 0
  /\ mails' = [mails EXCEPT ![d] = 1]
  /\ UNCHANGED phase

\* The attempt ends: confirmed, refused, or nobody knows.  Doubt can settle
\* several attempts at once: one recovery takes all the crashed ones.
Confirm(d) == phase[d] = "underway" /\ mails[d] = 1 /\ Become(d, "sent") /\ UNCHANGED mails
Refuse(d)  == phase[d] = "underway" /\ mails[d] = 0 /\ Become(d, "open") /\ UNCHANGED mails
Doubt(lost) ==
  /\ \A d \in lost : phase[d] = "underway"
  /\ phase' = [d \in Deliveries |-> IF d \in lost THEN "doubtful" ELSE phase[d]]
  /\ UNCHANGED mails

Next ==
  \/ \E d \in Deliveries : Begin(d) \/ Accept(d) \/ Confirm(d) \/ Refuse(d)
  \/ \E lost \in SUBSET Deliveries : Doubt(lost)

Spec == Init /\ [][Next]_vars
=============================================================================

--------------------------- MODULE NextOpenLedger ---------------------------
(***************************************************************************)
(* What a backtest promises about its orders, whatever the strategy: a     *)
(* decision of one session can trade only at the open of the next one, at  *)
(* most once; sales come before purchases; a position is closed as a whole;*)
(* a purchase opens a position while there is a slot, or adds to one of the*)
(* same setup at the same or a later stage.  Sessions are counted from the *)
(* first one of the backtest, however the data is cut into chunks.         *)
(***************************************************************************)
EXTENDS Integers, FiniteSets

CONSTANTS Instruments, MaxPositions

Free == [setup |-> <<>>, stage |-> 0, since |-> 0]

VARIABLES
    phase,    \* "sell", "buy", "decide" within a session, or "over"
    session,  \* sessions that have been decided
    wanted,   \* orders that may still trade in this session
    held      \* held[i]: Free, or the setup, stage and first session

vars == <<phase, session, wanted, held>>

Init ==
    /\ phase = "sell" /\ session = 0 /\ wanted = {}
    /\ held = [i \in Instruments |-> Free]

Holds(h, i) == h[i] # Free
Positions(h) == {i \in Instruments : Holds(h, i)}

(* Delisted positions are written off before anything trades. *)
WriteOff ==
    /\ phase = "sell"
    /\ \E gone \in SUBSET Positions(held) :
         held' = [i \in Instruments |-> IF i \in gone THEN Free ELSE held[i]]
    /\ UNCHANGED <<phase, session, wanted>>

Sell ==
    /\ phase = "sell"
    /\ \E o \in wanted :
         /\ o.side = "SELL" /\ Holds(held, o.i)
         /\ held' = [held EXCEPT ![o.i] = Free]
         /\ wanted' = wanted \ {o}
    /\ UNCHANGED <<phase, session>>

(* A purchase adds to a position of its setup, or opens one.               *)
Add ==
    /\ phase = "buy"
    /\ \E o \in wanted :
         /\ o.side = "BUY" /\ Holds(held, o.i)
         /\ o.setup # <<>> /\ o.setup = held[o.i].setup
         /\ o.stage >= held[o.i].stage
         /\ held' = [held EXCEPT ![o.i].stage = o.stage]
         /\ wanted' = wanted \ {o}
    /\ UNCHANGED <<phase, session>>

Open ==
    /\ phase = "buy"
    /\ \E o \in wanted :
         /\ o.side = "BUY" /\ ~Holds(held, o.i)
         /\ Cardinality(Positions(held)) < MaxPositions
         /\ held' = [held EXCEPT ![o.i] =
                      [setup |-> o.setup, stage |-> o.stage, since |-> session + 1]]
         /\ wanted' = wanted \ {o}
    /\ UNCHANGED <<phase, session>>

Drop ==
    /\ phase \in {"sell", "buy"}
    /\ \E o \in wanted : wanted' = wanted \ {o}
    /\ UNCHANGED <<phase, session, held>>

Advance ==
    /\ phase = "sell" /\ \A o \in wanted : o.side = "BUY"
    /\ phase' = "buy"
    /\ UNCHANGED <<session, wanted, held>>

Close ==
    /\ phase = "buy" /\ wanted = {}
    /\ phase' = "decide"
    /\ UNCHANGED <<session, wanted, held>>

Decide ==
    /\ phase = "decide"
    /\ phase' = "sell" /\ session' = session + 1
    /\ \A o, p \in wanted' : o.i = p.i => o = p
    /\ UNCHANGED held

Over ==
    /\ phase' = "over" /\ wanted' = {}
    /\ UNCHANGED <<session, held>>

Next == WriteOff \/ Sell \/ Add \/ Open \/ Drop \/ Advance \/ Close \/ Decide \/ Over

Spec == Init /\ [][Next]_vars
=============================================================================

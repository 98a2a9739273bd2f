------------------------------- MODULE Ledger -------------------------------
(***************************************************************************)
(* What the storage of the game promises: every thing is in one place at a *)
(* time.  It may pass to another place, with others that were where it     *)
(* was; a coin may be paid; and things may be lost, by a fault, and are    *)
(* then lost for good.                                                     *)
(***************************************************************************)
EXTENDS Integers

CONSTANTS Thing, Coin, Place, Nowhere

VARIABLES place, faults

vars == <<place, faults>>

Moved(S, y) == [t \in Thing |-> IF t \in S THEN y ELSE place[t]]

Pass(S, x, y) ==
    /\ \A t \in S : place[t] = x
    /\ place' = Moved(S, y)
    /\ faults' \in {faults, faults + 1}

Pay(c) == /\ place' = Moved({c}, Nowhere)
          /\ faults' \in {faults, faults + 1}

Lose(S) == /\ place' = Moved(S, Nowhere)
           /\ faults' = faults + 1

Init == place \in [Thing -> Place] /\ faults = 0

Next ==
    \/ \E x, y \in Place : \E S \in SUBSET Thing : Pass(S, x, y)
    \/ \E c \in Coin : Pay(c)
    \/ \E S \in SUBSET Thing : Lose(S)

Spec == Init /\ [][Next]_vars
=============================================================================

------------------------------- MODULE MCLogin -------------------------------
(* Logins with small constants for TLC. *)
EXTENDS Login, TLC

CONSTANTS plain, other, premium, master

\* Three connections for one character; or those who wait, and two who share an
\* account, on two connections.
MCCasts == {[clients |-> 3, names |-> {plain}, states |-> {"normal"},
             replace |-> TRUE],
            [clients |-> 2, names |-> {plain, other, premium, master},
             states |-> {"normal", "closing", "closed", "shutdown"}, replace |-> FALSE]}

MCAccountOf == (plain :> 1) @@ (other :> 2) @@ (premium :> 3) @@ (master :> 1)

LoginSymmetry == Permutations(Client) \cup Permutations(Body)
=============================================================================

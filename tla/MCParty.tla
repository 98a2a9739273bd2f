------------------------------- MODULE MCParty -------------------------------
(* Parties with small constants for TLC. *)
EXTENDS Party, TLC

\* Two parties, or one that shares experience.
MCScenes == {[addresses |-> Address, sharing |-> FALSE]}
            \cup {[addresses |-> {CHOOSE a \in Address : TRUE}, sharing |-> TRUE]}

\* Players are interchangeable.
PartySymmetry == Permutations(Player)
=============================================================================

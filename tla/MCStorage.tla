------------------------------ MODULE MCStorage ------------------------------
(* Storage with small constants for TLC. *)
EXTENDS Storage, TLC

CONSTANTS p1, p2, h1, coin, bag

MCPlayer == {p1, p2}
MCHouse == {h1}
MCThing == {coin, bag}
MCCoin == {coin}

MCSymmetry == Permutations(MCPlayer)
=============================================================================

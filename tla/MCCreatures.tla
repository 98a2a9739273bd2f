----------------------------- MODULE MCCreatures -----------------------------
(* Creatures with small constants for TLC. *)
EXTENDS Creatures, TLC

CONSTANTS p1, m1, m2

MCPlayer == {p1}
MCMonster == {m1, m2}
MCOrder == <<m1, p1, m2>>
MCPlaces == <<1>>

\* Two spots, out of sight of each other.
MCSight == <<{1}, {2}>>
=============================================================================

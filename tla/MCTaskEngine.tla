---------------------------- MODULE MCTaskEngine ----------------------------
(* The task engine with small constants for TLC. *)
EXTENDS TaskEngine, TLC

\* The ordinary tasks are interchangeable (only safety is checked under it).
OrdinarySymmetry == Permutations(Ordinary)
=============================================================================

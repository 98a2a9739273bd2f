--------------------------- MODULE MCClientSession ---------------------------
(* A client's session with small constants for TLC. *)
EXTENDS ClientSession, TLC

\* The messages are interchangeable (only safety is checked under it).
MsgSymmetry == Permutations(Msg)
=============================================================================

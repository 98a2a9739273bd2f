----------------------------- MODULE MCSafeTrade -----------------------------
(* Safe trades with small constants for TLC. *)
EXTENDS SafeTrade, TLC

\* Players without a premium account, items of a kind, and houses are
\* interchangeable.
TradeSymmetry ==
    Permutations(Player) \cup Permutations(Bag) \cup Permutations(Item \ Bag)
=============================================================================

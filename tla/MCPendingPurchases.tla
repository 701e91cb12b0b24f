------------------------- MODULE MCPendingPurchases -------------------------
(* Finite instances of PendingPurchases for TLC. *)
EXTENDS PendingPurchases, TLC

Interchangeable ==
  Permutations(Calls) \union Permutations(Tokens) \union Permutations(Products)
=============================================================================

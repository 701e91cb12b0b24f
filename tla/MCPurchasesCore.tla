-------------------------- MODULE MCPurchasesCore --------------------------
(* Finite instances of PurchasesCore for TLC. *)
EXTENDS PurchasesCore, TLC

Interchangeable == Permutations(Callers) \union Permutations(Transactions)
=============================================================================

-------------------------- MODULE MCPurchasesReturns --------------------------
(* PurchasesCore for the run about its liveness: two users who take turns      *)
(* while the store sells nothing, and one user's receipts.  The store's        *)
(* answers are narrowed in the first part, the calls in the second; a call     *)
(* can be answered in either.  No symmetry is declared.                      *)
EXTENDS PurchasesCore, TLC

VARIABLE part

ReturnsInit == /\ Init
               /\ part \in {"switching", "receipts"}
               /\ part = "receipts" => user \in Anonymous

ReturnsNext ==
  /\ Next
  /\ part' = part
  /\ \/ part = "switching" /\ stage' = stage
     \/ part = "receipts" /\ \A c \in Callers : call'[c].target \in Anonymous \union {NoUser}

ReturnsSpec == ReturnsInit /\ [][ReturnsNext]_<<part, vars>> /\ Fairness
=============================================================================

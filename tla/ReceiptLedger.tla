--------------------------- MODULE ReceiptLedger ---------------------------
(***************************************************************************)
(* What the SDK promises about store transactions, without saying how:     *)
(* a transaction handed to the purchase call of user u is owned by u; it   *)
(* is credited to u and to nobody else until it is closed (acknowledged or *)
(* consumed in the store), and it is closed only once u has it.  A         *)
(* transaction that reached the SDK without such a call (a renewal, a      *)
(* promotion, a payment that completed later) has no owner: whoever posts  *)
(* it is credited, but somebody is before it is closed.                    *)
(***************************************************************************)
CONSTANTS Transactions, Users, NoUser

VARIABLES owner,     \* the user whose purchase call received it, or NoUser
          credited,  \* the users for whom the backend accepted its receipt
          closed     \* the transactions finished in the store

ledgerVars == <<owner, credited, closed>>

LedgerInit ==
  /\ owner = [tx \in Transactions |-> NoUser]
  /\ credited = [tx \in Transactions |-> {}]
  /\ closed = {}

\* The purchase call of u receives tx, which nobody was credited with before.
Deliver(tx, u) ==
  /\ owner[tx] = NoUser
  /\ tx \notin closed
  /\ credited[tx] = {}
  /\ owner' = [owner EXCEPT ![tx] = u]
  /\ UNCHANGED <<credited, closed>>

\* The backend accepts the receipt of tx for u.
Credit(tx, u) ==
  /\ tx \in closed \/ owner[tx] \in {NoUser, u}
  /\ credited' = [credited EXCEPT ![tx] = @ \union {u}]
  /\ UNCHANGED <<owner, closed>>

\* The store acknowledges or consumes tx.
Close(tx) ==
  /\ credited[tx] # {}
  /\ owner[tx] = NoUser \/ owner[tx] \in credited[tx]
  /\ closed' = closed \union {tx}
  /\ UNCHANGED <<owner, credited>>

LedgerNext ==
  \E tx \in Transactions :
    \/ \E u \in Users : Deliver(tx, u) \/ Credit(tx, u)
    \/ Close(tx)

LedgerSpec == LedgerInit /\ [][LedgerNext]_ledgerVars
=============================================================================

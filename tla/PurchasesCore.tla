--------------------------- MODULE PurchasesCore ---------------------------
(***************************************************************************)
(* The Rust facade `Purchases` (crates/revenuecat/src/purchases.rs and     *)
(* purchases/identity_operations.rs): concurrent callers run purchases,    *)
(* the three kinds of store synchronization, logIn, logOut and customer    *)
(* info reads over one shared state.  Every `.await` is a place where      *)
(* other callers run; between two awaits a call is one step.               *)
(*                                                                         *)
(* Customer info is abstracted to the set of transactions the backend      *)
(* has credited to the user.  A native store error, a lost reply and a     *)
(* future dropped at an await point look the same from here: the call      *)
(* returns, its locks are released, its flags stay.                        *)
(***************************************************************************)
CONSTANTS
  Callers,        \* tasks that call the SDK concurrently
  Users,          \* App User IDs
  Anonymous,      \* those of the $RCAnonymousID form
  Transactions,   \* store transactions
  Nobody,         \* no holder of a lock
  NoUser, NoTransaction, NoInfo, NoTransition

ASSUME CallersAssumption == Nobody \notin Callers
ASSUME UsersAssumption == Anonymous # {} /\ Anonymous \subseteq Users /\ NoUser \notin Users
ASSUME TransactionsAssumption == NoTransaction \notin Transactions

VARIABLES
  user,            \* IdentityManager: the current App User ID
  pending,         \* pending_identity_transition (and its _pending flag)
  recovery,        \* native_purchase_recovery_required
  storeHolder,     \* who holds store_transaction_operation
  identityHolder,  \* who holds identity_operation
  cache,           \* DeviceCache: customer info per user
  call,            \* the local state of each caller's call
  stage,           \* store: where each transaction stands
  launcher,        \* store: the user whose purchase launched it
  delivered,       \* history: the launching call was awaiting it when it was bought
  credited         \* backend: users whose receipt post was accepted

sdkVars == <<user, pending, recovery, storeHolder, identityHolder, cache, call>>
storeVars == <<stage, launcher, delivered>>
vars == <<user, pending, recovery, storeHolder, identityHolder, cache, call,
          stage, launcher, delivered, credited>>

-----------------------------------------------------------------------------
(* Types *)

SyncModes == {"ExplicitRestore", "PendingQueue", "FullQueue"}
Transitions == {"LogIn", "LogOut"}
Modes == SyncModes \union Transitions \union {"none", "purchase", "read"}
StoreSteps == {"inStoreUI", "querying", "posting", "finishing"}
Steps == {"idle", "awaitStore", "awaitIdentity", "fetching", "answered", "switching"}
           \union StoreSteps

PendingTransition == [kind : Transitions, target : Users]

Calls == [at : Steps, mode : Modes, target : Users \union {NoUser}, tracked : BOOLEAN,
          user : Users \union {NoUser}, queue : SUBSET Transactions,
          tx : Transactions \union {NoTransaction}, info : SUBSET Transactions]

IdleCall == [at |-> "idle", mode |-> "none", target |-> NoUser, tracked |-> FALSE,
             user |-> NoUser, queue |-> {}, tx |-> NoTransaction, info |-> {}]

TypeOK ==
  /\ user \in Users
  /\ pending \in PendingTransition \union {NoTransition}
  /\ recovery \in BOOLEAN
  /\ storeHolder \in Callers \union {Nobody}
  /\ identityHolder \in Callers \union {Nobody}
  /\ cache \in [Users -> (SUBSET Transactions) \union {NoInfo}]
  /\ call \in [Callers -> Calls]
  /\ stage \in [Transactions -> {"absent", "deferred", "unfinished", "finished"}]
  /\ launcher \in [Transactions -> Users \union {NoUser}]
  /\ delivered \in [Transactions -> BOOLEAN]
  /\ credited \in [Transactions -> SUBSET Users]

-----------------------------------------------------------------------------
(* Helpers *)

\* The CustomerInfo the backend answers for u.
Info(u) == {tx \in Transactions : u \in credited[tx]}

Unfinished == {tx \in Transactions : stage[tx] = "unfinished"}
Finished == {tx \in Transactions : stage[tx] = "finished"}

At(c, step) == call[c].at = step

\* Faulty variant of Return: the guard of the identity outlives its call.
ReturnKeepingIdentity(c) ==
  /\ call' = [call EXCEPT ![c] = IdleCall]
  /\ storeHolder' = IF storeHolder = c THEN Nobody ELSE storeHolder
  /\ UNCHANGED identityHolder

\* The call of c returns: its guards are dropped, its locals are gone.
Return(c) ==
  /\ call' = [call EXCEPT ![c] = IdleCall]
  /\ storeHolder' = IF storeHolder = c THEN Nobody ELSE storeHolder
  /\ identityHolder' = IF identityHolder = c THEN Nobody ELSE identityHolder

\* The call of c goes on with its locks, in the local state `local`.
Continue(c, local) ==
  /\ call' = [call EXCEPT ![c] = local]
  /\ UNCHANGED <<storeHolder, identityHolder>>

\* The same, once identity_operation was granted to c.
ContinueWithIdentity(c, local) ==
  /\ call' = [call EXCEPT ![c] = local]
  /\ identityHolder' = c
  /\ UNCHANGED storeHolder

\* Faulty variant of StoreInfo: the answer is filed under the current user.
StoreInfoForCurrentUser(u, info) == cache' = [cache EXCEPT ![user] = info]

\* store_and_notify_for_user: the answer lands in the cache of the user it
\* was requested for.
StoreInfo(u, info) == cache' = [cache EXCEPT ![u] = info]

\* clear_identity_scoped_state, then store_and_notify_for_user.
ResetCacheTo(u, info) ==
  cache' = [v \in Users |-> IF v = u THEN info ELSE NoInfo]

\* Faulty variant of TransitionAllowed: any target of the same kind will do.
TransitionAllowedSameKind(kind, target, tracked) ==
  pending = NoTransition \/ (tracked /\ pending \in [kind : {kind}, target : Users])

\* ensure_identity_transition_allowed
TransitionAllowed(kind, target, tracked) ==
  \/ pending = NoTransition
  \/ tracked /\ pending = [kind |-> kind, target |-> target]

\* mark_durable_identity_transition
MarkTransition(kind, target, tracked) ==
  pending' = IF tracked THEN [kind |-> kind, target |-> target] ELSE pending

\* clear_durable_identity_transition
ClearTransition(tracked) ==
  pending' = IF tracked THEN NoTransition ELSE pending

\* Faulty variant of ReceiptOperationsReady: only recovery is looked at.
NoRecoveryPending == ~recovery

\* ensure_receipt_operations_ready
ReceiptOperationsReady == pending = NoTransition /\ ~recovery

\* The anonymous ids log_out_internal may take: the one it is told to resume,
\* the one it is already switching to, or a new one.
LogOutTargets(local) ==
  IF local.target # NoUser THEN {local.target}
  ELSE IF local.tracked /\ pending # NoTransition /\ pending.kind = "LogOut"
       THEN {pending.target}
       ELSE Anonymous

\* c is next to take identity_operation.
GrantedIdentity(c, modes) ==
  /\ At(c, "awaitIdentity")
  /\ call[c].mode \in modes
  /\ identityHolder = Nobody

-----------------------------------------------------------------------------
(* Calls begin *)

\* purchase_package, purchase_product: try_lock, an error if it is taken.
StartPurchase(c) ==
  /\ At(c, "idle")
  /\ storeHolder = Nobody
  /\ storeHolder' = c
  /\ call' = [call EXCEPT ![c] = [IdleCall EXCEPT !.at = "awaitIdentity", !.mode = "purchase"]]
  /\ UNCHANGED <<user, pending, recovery, identityHolder, cache, storeVars, credited>>

\* restore_purchases, sync_pending_purchases, sync_purchases
StartSync(c, mode) ==
  /\ At(c, "idle")
  /\ Continue(c, [IdleCall EXCEPT !.at = "awaitStore", !.mode = mode])
  /\ UNCHANGED <<user, pending, recovery, cache, storeVars, credited>>

SyncHoldsStore(c) ==
  /\ At(c, "awaitStore")
  /\ storeHolder = Nobody
  /\ storeHolder' = c
  /\ call' = [call EXCEPT ![c].at = "awaitIdentity"]
  /\ UNCHANGED <<user, pending, recovery, identityHolder, cache, storeVars, credited>>

\* log_in, log_in_with_identity_transaction; NoUser stands for an invalid id.
StartLogIn(c, target, tracked) ==
  /\ At(c, "idle")
  /\ Continue(c, [IdleCall EXCEPT !.at = "awaitIdentity", !.mode = "LogIn",
                                  !.target = target, !.tracked = tracked])
  /\ UNCHANGED <<user, pending, recovery, cache, storeVars, credited>>

\* log_out, log_out_with_identity_transaction; a resumed logout is tracked and
\* names its anonymous target.
StartLogOut(c, target, tracked) ==
  /\ At(c, "idle")
  /\ target \in Anonymous \/ target = NoUser
  /\ target # NoUser => tracked
  /\ Continue(c, [IdleCall EXCEPT !.at = "awaitIdentity", !.mode = "LogOut",
                                  !.target = target, !.tracked = tracked])
  /\ UNCHANGED <<user, pending, recovery, cache, storeVars, credited>>

\* get_customer_info
StartRead(c) ==
  /\ At(c, "idle")
  /\ Continue(c, [IdleCall EXCEPT !.at = "awaitIdentity", !.mode = "read"])
  /\ UNCHANGED <<user, pending, recovery, cache, storeVars, credited>>

-----------------------------------------------------------------------------
(* Calls that obtain identity_operation *)

\* The purchase passes its guards, arms recovery and crosses into the store.
PurchaseEntersStore(c) ==
  /\ GrantedIdentity(c, {"purchase"})
  /\ ReceiptOperationsReady
  /\ ContinueWithIdentity(c, [call[c] EXCEPT !.at = "inStoreUI", !.user = user])
  /\ recovery' = TRUE
  /\ UNCHANGED <<user, pending, cache, storeVars, credited>>

\* Faulty variant of SyncQueries: the pending transition is not looked at.
SyncQueriesInTransition(c) ==
  /\ GrantedIdentity(c, SyncModes)
  /\ ContinueWithIdentity(c, [call[c] EXCEPT !.at = "querying", !.user = user])
  /\ recovery' = (recovery \/ call[c].mode # "ExplicitRestore")
  /\ UNCHANGED <<user, pending, cache, storeVars, credited>>

\* A synchronization other than an explicit restore arms recovery even before
\* it knows what the store holds.
SyncQueries(c) ==
  /\ GrantedIdentity(c, SyncModes)
  /\ pending = NoTransition
  /\ ContinueWithIdentity(c, [call[c] EXCEPT !.at = "querying", !.user = user])
  /\ recovery' = (recovery \/ call[c].mode # "ExplicitRestore")
  /\ UNCHANGED <<user, pending, cache, storeVars, credited>>

\* Faulty variant of LogInPrepares: purchases to recover are not looked at.
LogInPreparesDespiteRecovery(c) ==
  LET local == call[c] IN
  /\ GrantedIdentity(c, {"LogIn"})
  /\ local.target \in Users \ {user}
  /\ TransitionAllowed("LogIn", local.target, local.tracked)
  /\ MarkTransition("LogIn", local.target, local.tracked)
  /\ ContinueWithIdentity(c, [local EXCEPT !.at = "switching", !.user = user])
  /\ UNCHANGED <<user, recovery, cache, storeVars, credited>>

\* logIn to another user: the transition is marked, `prepare` may fail.
LogInPrepares(c) ==
  LET local == call[c] IN
  /\ GrantedIdentity(c, {"LogIn"})
  /\ local.target \in Users \ {user}
  /\ TransitionAllowed("LogIn", local.target, local.tracked)
  /\ ~recovery
  /\ MarkTransition("LogIn", local.target, local.tracked)
  /\ \/ ContinueWithIdentity(c, [local EXCEPT !.at = "switching", !.user = user])
     \/ Return(c)
  /\ UNCHANGED <<user, recovery, cache, storeVars, credited>>

\* logIn to the current user: committed again, then read through the cache.
LogInAgain(c) ==
  LET local == call[c] IN
  /\ GrantedIdentity(c, {"LogIn"})
  /\ TransitionAllowed("LogIn", local.target, local.tracked)
  /\ local.target = user
  /\ ClearTransition(local.tracked)
  /\ IF cache[user] # NoInfo
       THEN Return(c)
       ELSE ContinueWithIdentity(c, [local EXCEPT !.at = "fetching", !.user = user])
  /\ UNCHANGED <<user, recovery, cache, storeVars, credited>>

LogOutPrepares(c) ==
  LET local == call[c] IN
  /\ GrantedIdentity(c, {"LogOut"})
  /\ user \notin Anonymous
  /\ ~recovery
  /\ \E target \in LogOutTargets(local) :
       /\ TransitionAllowed("LogOut", target, local.tracked)
       /\ MarkTransition("LogOut", target, local.tracked)
       /\ \/ ContinueWithIdentity(c, [local EXCEPT !.at = "switching", !.user = user,
                                                   !.target = target])
          \/ Return(c)
  /\ UNCHANGED <<user, recovery, cache, storeVars, credited>>

\* A closed gate, invalid purchase input, or (logIn to the current user) a
\* failed commit: the call returns before it changed anything.
Refused(c) ==
  LET local == call[c] IN
  /\ \/ GrantedIdentity(c, {"purchase"})
     \/ GrantedIdentity(c, SyncModes) /\ pending # NoTransition
     \/ /\ GrantedIdentity(c, {"LogIn"})
        /\ \/ recovery
           \/ local.target \in {user, NoUser}
           \/ ~TransitionAllowed("LogIn", local.target, local.tracked)
     \/ /\ GrantedIdentity(c, {"LogOut"})
        /\ \/ user \in Anonymous \/ recovery
           \/ \E target \in LogOutTargets(local) :
                ~TransitionAllowed("LogOut", target, local.tracked)
  /\ Return(c)
  /\ UNCHANGED <<user, pending, recovery, cache, storeVars, credited>>

\* get_customer_info takes the lock only to read the settled user; the fetch
\* policy and the cache then decide between an answer now and a request.
ReadSettles(c) ==
  /\ GrantedIdentity(c, {"read"})
  /\ \/ Return(c)
     \/ Continue(c, [call[c] EXCEPT !.at = "fetching", !.user = user])
  /\ UNCHANGED <<user, pending, recovery, cache, storeVars, credited>>

-----------------------------------------------------------------------------
(* Store and backend answer *)

\* The store returns a purchased transaction: a new one, one whose payment was
\* pending since an earlier launch, or one that was bought before.  If the
\* native layer fails after the purchase was made (journal, IPC), the call
\* returns an error instead.
StoreDelivers(c, tx) ==
  LET buyer == call[c].user
      isNew == stage[tx] \in {"absent", "deferred"}
  IN
  /\ At(c, "inStoreUI")
  /\ stage' = [stage EXCEPT ![tx] = IF isNew THEN "unfinished" ELSE @]
  /\ launcher' = [launcher EXCEPT ![tx] = IF stage[tx] = "absent" THEN buyer ELSE @]
  /\ delivered' = [delivered EXCEPT ![tx] = @ \/ (isNew /\ launcher'[tx] = buyer)]
  /\ \/ Continue(c, [call[c] EXCEPT !.at = "posting", !.queue = {tx}])
     \/ Return(c)
  /\ UNCHANGED <<user, pending, recovery, cache, credited>>

\* The payment is pending, or the caller is gone while the store UI is open:
\* the call returns, the transaction may still be bought later.
StoreDefers(c, tx) ==
  /\ At(c, "inStoreUI")
  /\ stage[tx] = "absent"
  /\ stage' = [stage EXCEPT ![tx] = "deferred"]
  /\ launcher' = [launcher EXCEPT ![tx] = call[c].user]
  /\ Return(c)
  /\ UNCHANGED <<user, pending, recovery, cache, delivered, credited>>

\* Faulty variant of StoreAnswersQuery: a restore that finds transactions does
\* not arm recovery.
StoreAnswersQueryUnarmed(c) ==
  /\ At(c, "querying")
  /\ \E owned \in SUBSET Finished :
       LET found == Unfinished \union owned IN
       Continue(c, [call[c] EXCEPT !.at = IF found = {} THEN "fetching" ELSE "posting",
                                   !.queue = found])
  /\ UNCHANGED <<user, pending, recovery, cache, storeVars, credited>>

\* The query answers everything unfinished, and owned transactions that are
\* finished already (a pending query may answer them too: the trait's default).
StoreAnswersQuery(c) ==
  /\ At(c, "querying")
  /\ \E owned \in SUBSET Finished :
       LET found == Unfinished \union owned IN
       IF found = {}
         THEN /\ Continue(c, [call[c] EXCEPT !.at = "fetching"])
              /\ UNCHANGED recovery
         ELSE /\ Continue(c, [call[c] EXCEPT !.at = "posting", !.queue = found])
              /\ recovery' = TRUE
  /\ UNCHANGED <<user, pending, cache, storeVars, credited>>

\* Faulty variant of ReceiptAccepted: a failed post is taken for an accepted one.
ReceiptPostUnchecked(c, tx) ==
  /\ At(c, "posting")
  /\ tx \in call[c].queue
  /\ credited' \in {credited, [credited EXCEPT ![tx] = @ \union {call[c].user}]}
  /\ Continue(c, [call[c] EXCEPT !.at = "finishing", !.tx = tx])
  /\ UNCHANGED <<user, pending, recovery, cache, storeVars>>

\* The backend accepts the receipt of the next transaction; its answer may be
\* lost on the way back.
ReceiptAccepted(c, tx) ==
  LET buyer == call[c].user IN
  /\ At(c, "posting")
  /\ tx \in call[c].queue
  /\ credited' = [credited EXCEPT ![tx] = @ \union {buyer}]
  /\ \/ Continue(c, [call[c] EXCEPT !.at = "finishing", !.tx = tx,
                                    !.info = Info(buyer) \union {tx}])
     \/ Return(c)
  /\ UNCHANGED <<user, pending, recovery, cache, storeVars>>

\* Faulty variant of TransactionFinished: recovery is over after the first one.
TransactionFinishedEarly(c) ==
  LET local == call[c]
      left == local.queue \ {local.tx}
  IN
  /\ At(c, "finishing")
  /\ stage' = [stage EXCEPT ![local.tx] = "finished"]
  /\ StoreInfo(local.user, local.info)
  /\ recovery' = FALSE
  /\ IF left = {} THEN Return(c)
     ELSE Continue(c, [local EXCEPT !.at = "posting", !.queue = left])
  /\ UNCHANGED <<user, pending, launcher, delivered, credited>>

\* finish_transaction succeeds: the info is stored; after the last
\* transaction recovery is over and the call returns.
TransactionFinished(c) ==
  LET local == call[c]
      left == local.queue \ {local.tx}
  IN
  /\ At(c, "finishing")
  /\ stage' = [stage EXCEPT ![local.tx] = "finished"]
  /\ StoreInfo(local.user, local.info)
  /\ IF left = {}
       THEN recovery' = FALSE /\ Return(c)
       ELSE /\ Continue(c, [local EXCEPT !.at = "posting", !.queue = left])
            /\ UNCHANGED recovery
  /\ UNCHANGED <<user, pending, launcher, delivered, credited>>

\* finish_transaction took effect but its result did not come back.
FinishReplyLost(c) ==
  /\ At(c, "finishing")
  /\ stage' = [stage EXCEPT ![call[c].tx] = "finished"]
  /\ Return(c)
  /\ UNCHANGED <<user, pending, recovery, cache, launcher, delivered, credited>>

\* The backend answers a customer info request...
BackendAnswersFetch(c) ==
  /\ At(c, "fetching")
  /\ Continue(c, [call[c] EXCEPT !.at = "answered", !.info = Info(call[c].user)])
  /\ UNCHANGED <<user, pending, recovery, cache, storeVars, credited>>

\* ... and the SDK stores the answer, which may be old by now.
FetchStored(c) ==
  /\ At(c, "answered")
  /\ StoreInfo(call[c].user, call[c].info)
  /\ recovery' = (recovery /\ call[c].mode \notin SyncModes)
  /\ Return(c)
  /\ UNCHANGED <<user, pending, storeVars, credited>>

\* The backend accepts the switch and `commit` succeeds.
SwitchCommitted(c) ==
  LET local == call[c] IN
  /\ At(c, "switching")
  /\ user' = local.target
  /\ ClearTransition(local.tracked)
  /\ ResetCacheTo(local.target, Info(local.target))
  /\ Return(c)
  /\ UNCHANGED <<recovery, storeVars, credited>>

\* A request, the query, the purchase, finishing or `commit` fails: `?`.
CallFails(c) ==
  /\ call[c].at \in StoreSteps \union {"fetching", "switching"}
  /\ Return(c)
  /\ UNCHANGED <<user, pending, recovery, cache, storeVars, credited>>

\* The host drops the future at an await point.
CallDropped(c) ==
  /\ ~At(c, "idle")
  /\ Return(c)
  /\ UNCHANGED <<user, pending, recovery, cache, storeVars, credited>>

-----------------------------------------------------------------------------
(* The world outside a call *)

\* invalidate_customer_info_cache
InvalidateCache ==
  /\ cache' = [cache EXCEPT ![user] = NoInfo]
  /\ UNCHANGED <<user, pending, recovery, storeHolder, identityHolder, call,
                 storeVars, credited>>

\* A transaction reaches the device without a purchase call.
OutOfBandPurchase(tx) ==
  /\ stage[tx] = "absent"
  /\ stage' = [stage EXCEPT ![tx] = "unfinished"]
  /\ UNCHANGED <<sdkVars, launcher, delivered, credited>>

\* A pending payment goes through, or does not.
DeferredPaymentSettles(tx) ==
  /\ stage[tx] = "deferred"
  /\ \/ /\ stage' = [stage EXCEPT ![tx] = "unfinished"]
        /\ UNCHANGED launcher
     \/ /\ stage' = [stage EXCEPT ![tx] = "absent"]
        /\ launcher' = [launcher EXCEPT ![tx] = NoUser]
  /\ UNCHANGED <<sdkVars, delivered, credited>>

-----------------------------------------------------------------------------
Init ==
  /\ user \in Users
  /\ pending = NoTransition
  /\ recovery = FALSE
  /\ storeHolder = Nobody
  /\ identityHolder = Nobody
  /\ cache = [u \in Users |-> NoInfo]
  /\ call = [c \in Callers |-> IdleCall]
  /\ stage = [tx \in Transactions |-> "absent"]
  /\ launcher = [tx \in Transactions |-> NoUser]
  /\ delivered = [tx \in Transactions |-> FALSE]
  /\ credited = [tx \in Transactions |-> {}]

Begin(c) ==
  \/ StartPurchase(c)
  \/ \E mode \in SyncModes : StartSync(c, mode)
  \/ \E target \in Users \union {NoUser}, tracked \in BOOLEAN :
       StartLogIn(c, target, tracked)
  \/ \E target \in Anonymous \union {NoUser}, tracked \in BOOLEAN :
       StartLogOut(c, target, tracked)
  \/ StartRead(c)

\* A caller whose turn on identity_operation has come.
IdentityGranted(c) ==
  \/ PurchaseEntersStore(c)
  \/ SyncQueries(c)
  \/ LogInPrepares(c)
  \/ LogInAgain(c)
  \/ LogOutPrepares(c)
  \/ Refused(c)
  \/ ReadSettles(c)

\* The store, the backend or the host answers what the call awaits.
Answered(c) ==
  \/ \E tx \in Transactions :
       StoreDelivers(c, tx) \/ StoreDefers(c, tx) \/ ReceiptAccepted(c, tx)
  \/ StoreAnswersQuery(c)
  \/ TransactionFinished(c)
  \/ FinishReplyLost(c)
  \/ BackendAnswersFetch(c)
  \/ FetchStored(c)
  \/ SwitchCommitted(c)
  \/ CallFails(c)

Environment ==
  \/ InvalidateCache
  \/ \E tx \in Transactions : OutOfBandPurchase(tx) \/ DeferredPaymentSettles(tx)

Next ==
  \/ \E c \in Callers :
       \/ Begin(c)
       \/ SyncHoldsStore(c)
       \/ IdentityGranted(c)
       \/ Answered(c)
       \/ CallDropped(c)
  \/ Environment

Spec == Init /\ [][Next]_vars

\* Every request is answered or times out and the user leaves the store UI
\* (weak fairness); tokio's mutexes serve their waiters first come, first
\* served, so a lock that keeps being released reaches every waiter (strong).
Fairness ==
  \A c \in Callers :
    /\ WF_vars(Answered(c))
    /\ SF_vars(SyncHoldsStore(c))
    /\ SF_vars(IdentityGranted(c))

FairSpec == Spec /\ Fairness

-----------------------------------------------------------------------------
(* Properties *)

\* A transaction bought while its purchase call waited for it is credited to
\* nobody but the user who launched it until it is finished, and to that user
\* by then (purchases.rs:304, "must never attribute user A's transaction to
\* user B", across failed posts, later synchronizations and identity changes).
PurchaseCreditedToItsUser ==
  \A tx \in Transactions : delivered[tx] =>
    /\ tx \in Unfinished => credited[tx] \subseteq {launcher[tx]}
    /\ tx \in Finished => launcher[tx] \in credited[tx]

\* Such a transaction keeps recovery armed until it is finished, and the user
\* who launched it stays the current one (purchases.rs:112): no path that
\* clears the flag, explicit restore included, may overlook one.
RecoveryArmed ==
  \A tx \in Unfinished : delivered[tx] => recovery /\ launcher[tx] = user

\* The two gates are never closed together.  A pending transition refuses
\* every synchronization, and an armed recovery refuses every identity change
\* but a no-op: with both set neither could ever be cleared.
GatesNeverDeadlock == ~(recovery /\ pending # NoTransition)

\* What is cached for u was credited to u, however late the answer arrived
\* and whoever is the current user by then.
CachedInfoIsOwn ==
  \A u \in Users : cache[u] # NoInfo => cache[u] \subseteq Info(u)

\* A marked transition is resolved only by switching to its own target: it is
\* not replaced by another request and not dropped by an error
\* (purchases.rs:108), and meanwhile no other switch happens.
TransitionOnlyCompletes ==
  [][pending # NoTransition =>
       \/ pending' = pending /\ user' = user
       \/ pending' = NoTransition /\ user' = pending.target]_vars

\* Receipt-bearing operations fail closed while a transition is marked
\* (purchases.rs:106): nothing is posted for the user about to be left.
NoReceiptDuringTransition ==
  [][pending # NoTransition => credited' = credited]_vars

\* The ledger of ReceiptLedger, read off the state of the SDK and the store.
Ledger ==
  INSTANCE ReceiptLedger WITH
    owner <- [tx \in Transactions |-> IF delivered[tx] THEN launcher[tx] ELSE NoUser],
    closed <- Finished

\* The SDK keeps the promises of ReceiptLedger: in particular finishing comes
\* after the backend accepted the receipt (purchases.rs:443).
ImplementsReceiptLedger == Ledger!LedgerSpec

\* No call waits forever: the two locks are always taken in the same order
\* and released on every way out.
EveryCallReturns == \A c \in Callers : ~At(c, "idle") ~> At(c, "idle")

-----------------------------------------------------------------------------
(* The inductive invariant behind the safety properties *)

\* Where a call holds identity_operation, and where it works on receipts (the
\* synchronization of an empty store included).
HoldsIdentity(c) ==
  \/ call[c].at \in StoreSteps \union {"switching"}
  \/ call[c].at \in {"fetching", "answered"} /\ call[c].mode # "read"

HandlesReceipts(c) ==
  \/ call[c].at \in StoreSteps
  \/ call[c].at \in {"fetching", "answered"} /\ call[c].mode \in SyncModes

\* The user cannot change under a call that holds the lock.
IdentityIsHeld ==
  \A c \in Callers :
    /\ HoldsIdentity(c) => identityHolder = c /\ call[c].user = user
    /\ HandlesReceipts(c) => pending = NoTransition

\* Transactions whose purchase call was told about them and that still have
\* to be finished.
Owed == {tx \in Unfinished : delivered[tx]}

\* What a call knows of the store between its steps: it clears recovery only
\* when nothing is owed any more.
CallsKnowWhatIsOwed ==
  \A c \in Callers :
    LET local == call[c] IN
    /\ local.at = "inStoreUI" => recovery /\ Owed = {}
    /\ local.at \in {"posting", "finishing"} =>
         recovery /\ Owed \subseteq local.queue /\ local.queue \subseteq Unfinished \union Finished
    /\ local.at = "finishing" => local.tx \in local.queue /\ local.user \in credited[local.tx]
    /\ local.at \in {"fetching", "answered"} /\ local.mode \in SyncModes => Owed = {}

\* A switch in flight was prepared with recovery over.
SwitchesArePrepared ==
  \A c \in Callers : At(c, "switching") =>
    /\ ~recovery
    /\ call[c].target \in Users
    /\ pending = IF call[c].tracked
                    THEN [kind |-> call[c].mode, target |-> call[c].target]
                    ELSE NoTransition

\* What is not bought is neither credited nor delivered.
NothingBeforePurchase ==
  \A tx \in Transactions \ (Unfinished \union Finished) :
    credited[tx] = {} /\ ~delivered[tx]

\* Answers in flight show the user's own transactions.
AnswersAreOwn ==
  \A c \in Callers : call[c].at \in {"answered", "finishing"} =>
    call[c].user \in Users /\ call[c].info \subseteq Info(call[c].user)

FetchesHaveAUser ==
  \A c \in Callers : At(c, "fetching") => call[c].user \in Users

IInv ==
  /\ TypeOK
  /\ IdentityIsHeld
  /\ CallsKnowWhatIsOwed
  /\ SwitchesArePrepared
  /\ NothingBeforePurchase
  /\ AnswersAreOwn
  /\ FetchesHaveAUser
  /\ PurchaseCreditedToItsUser
  /\ RecoveryArmed
  /\ GatesNeverDeadlock
  /\ CachedInfoIsOwn
=============================================================================

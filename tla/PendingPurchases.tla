---------------------------- MODULE PendingPurchases ----------------------------
(***************************************************************************)
(* Purchases on Android: the callback of the purchase whose Play sheet is  *)
(* open, the journal that remembers by purchase token which flow bought    *)
(* what (PendingPurchaseStore.kt), and the plugin commands around them     *)
(* (RevenueCatPlugin.kt).                                                  *)
(*                                                                         *)
(* Every method of the store is one synchronized step.  Play answers and   *)
(* announces whenever it likes: a snapshot of the owned purchases may be   *)
(* old when it is used, and an announcement may be late.  With Prompt,     *)
(* Play does nothing between its snapshot and the opening of the sheet,    *)
(* nothing else happens before an announcement is heard, and a sheet left  *)
(* over by a process that died closes before the next purchase.            *)
(*                                                                         *)
(* What a purchase context holds (base plan, offer, attribution) matters   *)
(* only in that it belongs to one call: the call itself stands for it.     *)
(***************************************************************************)
EXTENDS Naturals, FiniteSets, Functions

CONSTANTS
  Calls,          \* invocations of the purchase command
  Products,
  Tokens,         \* the purchase tokens Play may issue
  MaxCorrelated,  \* MAX_CORRELATED_PURCHASES
  Prompt,         \* Play's answers and announcements are fresh
  MaxFaults,      \* bounds the journal writes that fail
  MaxCrashes,     \* bounds the restarts of the app
  MaxGifts,       \* bounds the purchases made outside the app
  NONE

ASSUME NoneAssumption == NONE \notin Calls \union Products \union Tokens
ASSUME RefusalAssumption == {"rejected", "lost"} \intersect (Tokens \union {NONE}) = {}
ASSUME CapacityAssumption == MaxCorrelated \in Nat \ {0}
ASSUME TokensAssumption == IsFiniteSet(Tokens)
ASSUME PromptAssumption == Prompt \in BOOLEAN
ASSUME BoundsAssumption == MaxFaults \in Nat /\ MaxCrashes \in Nat /\ MaxGifts \in Nat

VARIABLES
  purchases,              \* the pending purchase with its callback, at most one
  deferredPurchases,      \* by token: payments Play reports as pending
  completedCorrelations,  \* by token: purchases not finished yet
  metadataPersistenceFailed,
  disk,                   \* the journal in the shared preferences, by token
  corrupt,                \* the journal cannot be read
  call,                   \* the calls of purchase
  owned,                  \* the snapshot a query of the app works on, or NONE
  finishing,              \* tokens whose correlation is removed, Play to be told
  play,                   \* what Play knows of each token
  updates,                \* announcements of Play not yet heard
  faults,                 \* how many writes have failed
  handed,                 \* tokens of purchased transactions the app was given
  history                 \* what the bounds count and the properties refer to

store == <<purchases, deferredPurchases, completedCorrelations>>
journal == <<metadataPersistenceFailed, disk, corrupt, faults>>
vars == <<store, journal, call, owned, finishing, play, updates, handed, history>>

OwnedStates == {"pending", "purchased", "acknowledged"}
PlayStates == {"none", "consumed", "cancelled"} \union OwnedStates
Stages == {"idle", "querying", "answered", "prepared", "registered", "open", "done"}
Correlation == [products : (SUBSET Products) \ {{}}, context : Calls \union {NONE},
                durable : BOOLEAN]
Observation == [products : (SUBSET Products) \ {{}}, state : {"pending", "purchased"}]
Partial(S, T) == UNION {[D -> T] : D \in SUBSET S}
Correlations == Partial(Tokens, Correlation)
Snapshotted == Partial(Tokens, Observation)

Registration == [call : Calls, product : Products, context : Calls \union {NONE}]
ASSUME RegistrationAssumption == NONE \notin Registration
Command == [at : Stages, product : Products \union {NONE}, context : Calls \union {NONE},
            snapshot : Snapshotted, answer : Tokens \union {NONE, "rejected", "lost"}]
Payment == [state : PlayStates, products : SUBSET Products, buyer : Calls \union {NONE}]
Update == [token : Tokens \union {NONE}, state : {"pending", "purchased", "unspecified", "failed"},
           products : SUBSET Products]

TypeOK ==
  /\ purchases \in Registration \union {NONE}
  /\ deferredPurchases \in Correlations
  /\ completedCorrelations \in Correlations
  /\ metadataPersistenceFailed \in BOOLEAN
  /\ disk \in Correlations
  /\ corrupt \in BOOLEAN
  /\ call \in [Calls -> Command]
  /\ owned \in Snapshotted \union {NONE}
  /\ finishing \subseteq Tokens
  /\ play \in [Tokens -> Payment]
  /\ updates \subseteq Update
  /\ faults \in 0..MaxFaults
  /\ handed \subseteq Tokens
  /\ history \in [crashes : 0..MaxCrashes, gifts : 0..MaxGifts, cleared : SUBSET Tokens,
                  older : [Calls -> SUBSET Tokens]]

-----------------------------------------------------------------------------
(* The journal *)

\* Tokens the store knows; no token is in both maps.
Correlated == DOMAIN deferredPurchases \union DOMAIN completedCorrelations

\* deferredPurchases[token] ?: completedCorrelations[token]
Existing(t) == IF t \in DOMAIN deferredPurchases THEN deferredPurchases[t]
               ELSE completedCorrelations[t]

\* The durable part of the two maps (completed ones override).
Durable(deferred, completed) ==
  LET all == [t \in DOMAIN deferred \union DOMAIN completed |->
                IF t \in DOMAIN completed THEN completed[t] ELSE deferred[t]]
  IN Restrict(all, {t \in DOMAIN all : all[t].durable})

\* Faulty variant of NothingToWrite: the last correlation is never deleted.
NothingToWriteEver(metadata, force) == DOMAIN metadata = {}

\* An empty journal is written only when a deletion must be.
NothingToWrite(metadata, force) == DOMAIN metadata = {} /\ ~force

\* Faulty variant of FailedAfter: a failed write is not remembered.
FailedBefore(ok) == metadataPersistenceFailed

\* metadataPersistenceFailed after a write
FailedAfter(ok) == ~ok

\* persistDurableCorrelations, and whether it returns true.  The maps never
\* hold more than MaxCorrelated tokens (SlotIsReserved), so all are written.
Persist(deferred, completed, force, ok) ==
  LET metadata == Durable(deferred, completed)
  IN \/ /\ NothingToWrite(metadata, force)
        /\ ok = ~metadataPersistenceFailed
        /\ UNCHANGED journal
     \/ /\ ~NothingToWrite(metadata, force)
        /\ metadataPersistenceFailed' = FailedAfter(ok)
        /\ \/ ok /\ disk' = metadata /\ corrupt' = FALSE /\ UNCHANGED faults
           \/ ~ok /\ faults < MaxFaults /\ faults' = faults + 1 /\ UNCHANGED <<disk, corrupt>>

\* validatedAgainst: a context is kept only for exactly its products.
Validated(correlation, products) ==
  [correlation EXCEPT !.context = IF correlation.products = products THEN @ ELSE NONE]

\* A correlation made for the active purchase
Fresh(products, context) ==
  [products |-> products, context |-> context, durable |-> context # NONE]

With(map, t, correlation) ==
  [s \in DOMAIN map \union {t} |-> IF s = t THEN correlation ELSE map[s]]
Without(map, tokens) == Restrict(map, DOMAIN map \ tokens)

-----------------------------------------------------------------------------
(* The purchase command *)

Nothing == [t \in {} |-> NONE]
Unsettled == {"registered", "open"}

\* The callback of call c is called; the command itself may still go on.
Answered(calls, c, answer) ==
  [calls EXCEPT ![c].answer = answer, ![c].snapshot = Nothing,
                ![c].at = IF @ \in Unsettled THEN @ ELSE "done"]
Reject(c) == call' = Answered(call, c, "rejected")

\* With Prompt, nothing happens but the step that is due.
Settled ==
  /\ updates = {} /\ owned = NONE
  /\ \A c \in Calls : call[c].at \notin {"answered", "prepared", "registered"}
Quiet == Prompt => Settled

\* purchase: the product details are asked for and then what the user owns.
Purchase(c) ==
  /\ call[c].at = "idle" /\ Quiet
  /\ Prompt => ~\E d \in Calls : call[d].at = "open" /\ call[d].answer = "lost"
  /\ \E p \in Products, context \in {c, NONE} :
       call' = [call EXCEPT ![c].at = "querying", ![c].product = p, ![c].context = context]
  /\ UNCHANGED <<store, journal, owned, finishing, play, updates, handed, history>>

\* Faulty variant of Snapshot: Play's state is passed on as it is.
SnapshotRaw ==
  [t \in {s \in Tokens : play[s].state \in OwnedStates} |->
     [products |-> play[t].products, state |-> play[t].state]]

\* What Play answers to a query of the owned purchases
Snapshot ==
  [t \in {s \in Tokens : play[s].state \in OwnedStates} |->
     [products |-> play[t].products,
      state |-> IF play[t].state = "pending" THEN "pending" ELSE "purchased"]]

\* Play takes the snapshot, or one of the two queries fails.
Snapshots(c) ==
  /\ call[c].at = "querying" /\ Quiet
  /\ \/ call' = [call EXCEPT ![c].at = "answered", ![c].snapshot = Snapshot]
     \/ Reject(c)
  /\ UNCHANGED <<store, journal, owned, finishing, play, updates, handed, history>>

\* Faulty variant of PreparedMaps: only tokens known already are correlated.
PreparedMapsUnaware(p, snapshot) ==
  LET paying == {t \in Correlated \intersect DOMAIN snapshot :
                   p \in snapshot[t].products /\ snapshot[t].state = "pending"}
      Now(t) == IF t \in DOMAIN snapshot THEN Validated(Existing(t), snapshot[t].products)
                ELSE Existing(t)
  IN [deferred |-> [t \in paying |-> Now(t)],
      completed |-> [t \in Correlated \ paying |-> Now(t)]]

\* The two maps after prepareForPurchase: correlations of the product follow
\* the snapshot, those of other products and the durable ones stay.
PreparedMaps(p, snapshot) ==
  LET relevant == {t \in DOMAIN snapshot : p \in snapshot[t].products}
      paying == {t \in relevant : snapshot[t].state = "pending"}
      Observed(t) == IF t \in Correlated THEN Validated(Existing(t), snapshot[t].products)
                     ELSE Fresh(snapshot[t].products, NONE)
      Others(map) == {t \in DOMAIN map : p \notin map[t].products}
      deferred == (Others(deferredPurchases) \ relevant) \union paying
      durable == {t \in Correlated : Existing(t).durable}
  IN [deferred |-> [t \in deferred |-> IF t \in paying THEN Observed(t)
                                       ELSE deferredPurchases[t]],
      completed |-> [t \in (Others(completedCorrelations) \ relevant)
                           \union (relevant \ paying) \union (durable \ deferred) |->
                       IF t \in relevant THEN Observed(t) ELSE Existing(t)]]

\* The only tokens kept when the store is full: the durable ones first, then
\* the deferred ones.
Retained(deferred, completed) ==
  LET durable == DOMAIN Durable(deferred, completed)
      all == DOMAIN deferred \union DOMAIN completed
  IN {kept \in SUBSET all :
        /\ Cardinality(kept) = MaxCorrelated
        /\ durable \subseteq kept
        /\ DOMAIN deferred \subseteq kept \/ kept \subseteq durable \union DOMAIN deferred}

\* Faulty variant of NoFlow: an active purchase is not cared for.
NoFlowNeeded == TRUE

\* No purchase is active: the store may take up correlations.
NoFlow == purchases = NONE

\* prepareForPurchase, and the rejections that follow from its answer.
PrepareForPurchase(c) ==
  /\ call[c].at = "answered"
  /\ \/ /\ ~NoFlow
        /\ call' = [call EXCEPT ![c].at = "prepared", ![c].snapshot = Nothing]
        /\ UNCHANGED <<deferredPurchases, completedCorrelations, journal>>
     \/ /\ NoFlow
        /\ LET p == call[c].product
               next == PreparedMaps(p, call[c].snapshot)
               full == Cardinality(DOMAIN next.deferred \union DOMAIN next.completed)
                         >= MaxCorrelated
           IN \E kept \in IF full THEN Retained(next.deferred, next.completed)
                           ELSE {Tokens} :
                /\ deferredPurchases'
                     = Restrict(next.deferred, DOMAIN next.deferred \intersect kept)
                /\ completedCorrelations'
                     = Restrict(next.completed, DOMAIN next.completed \intersect kept)
                /\ \E ok \in BOOLEAN :
                     /\ Persist(deferredPurchases', completedCorrelations', FALSE, ok)
                     /\ IF ~ok \/ full \/ \E t \in DOMAIN next.deferred :
                                             p \in next.deferred[t].products
                        THEN Reject(c)
                        ELSE call' = [call EXCEPT ![c].at = "prepared", ![c].snapshot = Nothing]
  /\ UNCHANGED <<purchases, owned, finishing, play, updates, handed, history>>

\* The condition under which register accepts the purchase
MayRegister(p) ==
  /\ ~metadataPersistenceFailed
  /\ purchases = NONE
  /\ \A t \in DOMAIN deferredPurchases : p \notin deferredPurchases[t].products
  /\ Cardinality(Correlated) < MaxCorrelated

\* beginPurchase up to register
Register(c) ==
  /\ call[c].at = "prepared"
  /\ IF MayRegister(call[c].product)
     THEN /\ purchases' = [call |-> c, product |-> call[c].product, context |-> NONE]
          /\ call' = [call EXCEPT ![c].at = "registered"]
          /\ history' = [history EXCEPT !.older[c] = {t \in Tokens : play[t].state # "none"}]
     ELSE Reject(c) /\ UNCHANGED <<purchases, history>>
  /\ UNCHANGED <<deferredPurchases, completedCorrelations, journal, owned, finishing, play,
                 updates, handed>>

Active(products) == purchases # NONE /\ purchases.product \in products

\* The rest of beginPurchase: the sheet opens, or failPendingPurchase.
Launch(c) ==
  /\ call[c].at = "registered"
  /\ LET mine == Active({call[c].product})
     IN \/ /\ purchases' = IF mine THEN [purchases EXCEPT !.context = call[c].context]
                           ELSE purchases
           /\ call' = [call EXCEPT ![c].at = "open"]
        \/ LET over == [call EXCEPT ![c].at = "done"]
           IN IF mine
              THEN /\ purchases' = NONE
                   /\ call' = Answered(over, purchases.call, "rejected")
              ELSE call' = over /\ UNCHANGED purchases
  /\ UNCHANGED <<deferredPurchases, completedCorrelations, journal, owned, finishing, play,
                 updates, handed, history>>

-----------------------------------------------------------------------------
(* What Play does *)

Announce(token, state, products) ==
  updates' = updates \union {[token |-> token, state |-> state, products |-> products]}

\* The sheet closes: the product is bought, or a payment is pending, and Play
\* says so or reports an error all the same (a lost connection); or nothing is
\* bought; or the purchase announced has no token or no state.
SheetCloses(c) ==
  /\ call[c].at = "open" /\ Quiet
  /\ call' = [call EXCEPT ![c].at = "done"]
  /\ LET p == call[c].product
     IN \/ \E t \in Tokens, state \in {"pending", "purchased"} :
             /\ play[t].state = "none"
             /\ play' = [play EXCEPT ![t] = [state |-> state, products |-> {p}, buyer |-> c]]
             /\ Announce(t, state, {p}) \/ Announce(NONE, "failed", {})
        \/ \E state \in {"pending", "purchased", "unspecified"} :
             Announce(NONE, state, {p}) /\ UNCHANGED play
        \/ Announce(NONE, "failed", {}) /\ UNCHANGED play
  /\ UNCHANGED <<store, journal, owned, finishing, handed, history>>

\* A purchase from elsewhere: a promotion code, another device.  With Prompt
\* it is not of the product whose sheet is open, the app could not tell them
\* apart.
Gift(t, p) ==
  /\ play[t].state = "none" /\ Quiet /\ history.gifts < MaxGifts
  /\ Prompt => \A c \in Calls : call[c].at = "open" => call[c].product # p
  /\ \E state \in {"pending", "purchased"} :
       /\ play' = [play EXCEPT ![t] = [state |-> state, products |-> {p}, buyer |-> NONE]]
       /\ Announce(t, state, {p})
  /\ history' = [history EXCEPT !.gifts = @ + 1]
  /\ UNCHANGED <<store, journal, call, owned, finishing, handed>>

\* The pending payment succeeds; the purchase may turn out to hold more products
\* (with Prompt, none whose sheet is open).
PaymentCompletes(t) ==
  /\ play[t].state = "pending" /\ Quiet
  /\ \E products \in {play[t].products, Products} :
       /\ Prompt => \A c \in Calls :
            call[c].at = "open" => call[c].product \notin products \ play[t].products
       /\ play' = [play EXCEPT ![t].state = "purchased", ![t].products = products]
       /\ Announce(t, "purchased", products)
  /\ UNCHANGED <<store, journal, call, owned, finishing, handed, history>>

\* The pending payment is given up; Play does not mention the token again.
PaymentCancelled(t) ==
  /\ play[t].state = "pending" /\ Quiet
  /\ play' = [play EXCEPT ![t].state = "cancelled"]
  /\ UNCHANGED <<store, journal, call, owned, finishing, updates, handed, history>>

-----------------------------------------------------------------------------
(* onPurchasesUpdated *)

Heard(u) == u \in updates /\ updates' = updates \ {u}

\* The active purchase, if it is one of the products, is rejected.
Release(products) ==
  /\ IF Active(products)
     THEN purchases' = NONE /\ Reject(purchases.call)
     ELSE UNCHANGED <<purchases, call>>
  /\ UNCHANGED <<deferredPurchases, completedCorrelations, journal>>

\* Persists the maps unless the correlation is not durable.
PersistFor(correlation, ok) ==
  IF correlation.durable
  THEN Persist(deferredPurchases', completedCorrelations', FALSE, ok)
  ELSE ok /\ UNCHANGED journal

\* Faulty variant of Removed: the callback stays registered.
NotRemoved == purchases

\* The pending purchase, once its callback is taken
Removed == NONE

\* resolvePendingPurchase with routePurchased
HearPurchased(u) ==
  /\ Heard(u) /\ u.state = "purchased"
  /\ \/ u.token = NONE /\ Release(u.products) /\ UNCHANGED handed
     \/ /\ u.token # NONE /\ u.token \in Correlated
        /\ LET validated == Validated(Existing(u.token), u.products)
           IN /\ IF u.token \in DOMAIN deferredPurchases
                 THEN /\ deferredPurchases' = With(deferredPurchases, u.token, validated)
                      /\ UNCHANGED completedCorrelations
                 ELSE /\ completedCorrelations'
                           = With(completedCorrelations, u.token, validated)
                      /\ UNCHANGED deferredPurchases
              /\ \E ok \in BOOLEAN : PersistFor(validated, ok)
        /\ UNCHANGED <<purchases, call, handed>>
     \/ /\ u.token # NONE /\ u.token \notin Correlated /\ Active(u.products)
        /\ LET correlation == Fresh(u.products, purchases.context)
           IN /\ purchases' = Removed
              /\ completedCorrelations' = With(completedCorrelations, u.token, correlation)
              /\ UNCHANGED deferredPurchases
              /\ \E ok \in BOOLEAN :
                   /\ PersistFor(correlation, ok)
                   /\ call' = Answered(call, purchases.call,
                                       IF ok THEN u.token ELSE "rejected")
                   /\ handed' = IF ok THEN handed \union {u.token} ELSE handed
     \/ /\ u.token # NONE /\ u.token \notin Correlated /\ ~Active(u.products)
        /\ UNCHANGED <<store, journal, call, handed>>
  /\ UNCHANGED <<owned, finishing, play, history>>

\* rejectPendingPurchase with defer
HearPending(u) ==
  /\ Heard(u) /\ u.state = "pending"
  /\ IF u.token = NONE \/ ~Active(u.products)
     THEN Release(u.products)
     ELSE LET context == purchases.context
              correlation ==
                IF u.token \notin Correlated THEN Fresh(u.products, context)
                ELSE [products |-> Existing(u.token).products \union u.products,
                      context |-> NONE,
                      durable |-> Existing(u.token).durable \/ context # NONE]
          IN /\ purchases' = NONE
             /\ Reject(purchases.call)
             /\ deferredPurchases' = With(deferredPurchases, u.token, correlation)
             /\ completedCorrelations' = Without(completedCorrelations, {u.token})
             /\ \E ok \in BOOLEAN : PersistFor(correlation, ok)
  /\ UNCHANGED <<owned, finishing, play, handed, history>>

\* Faulty variant of RejectedProducts: an error rejects what it names.
RejectedByName(u) == u.products

\* An unspecified state rejects the purchase of the product, an error every one.
RejectedProducts(u) == IF u.state = "failed" THEN Products ELSE u.products

\* The rest of onPurchasesUpdated: takeForProducts or drain
HearFailure(u) ==
  /\ Heard(u) /\ u.state \in {"unspecified", "failed"}
  /\ Release(RejectedProducts(u))
  /\ UNCHANGED <<owned, finishing, play, handed, history>>

-----------------------------------------------------------------------------
(* Queries, finishing, restarts *)

\* executePurchaseQuery: Play's answer, which may for a moment be empty.
QueryPurchases ==
  /\ owned = NONE /\ Quiet
  /\ owned' \in {Snapshot, Nothing}
  /\ UNCHANGED <<store, journal, call, finishing, play, updates, handed, history>>

\* Faulty variant of ReconciledMaps: what Play does not report is forgotten.
ReconciledMapsForgetful(snapshot) ==
  LET seen == Correlated \intersect DOMAIN snapshot
      paying == {t \in seen : snapshot[t].state = "pending"}
      Now(t) == Validated(Existing(t), snapshot[t].products)
  IN [deferred |-> [t \in paying |-> Now(t)], completed |-> [t \in seen \ paying |-> Now(t)]]

\* The two maps after reconcile
ReconciledMaps(snapshot) ==
  LET seen == Correlated \intersect DOMAIN snapshot
      paying == {t \in seen : snapshot[t].state = "pending"}
      retried == {t \in Correlated \ seen :
                    t \in DOMAIN completedCorrelations \/ Existing(t).durable}
      Now(t) == IF t \in seen THEN Validated(Existing(t), snapshot[t].products)
                ELSE Existing(t)
  IN [deferred |-> [t \in paying |-> Now(t)],
      completed |-> [t \in (seen \ paying) \union retried |-> Now(t)]]

Bought(snapshot) == {t \in DOMAIN snapshot : snapshot[t].state = "purchased"}

\* ... and reconcileOwnedPurchases.  A persistence failure rejects the query.
QueryAnswers ==
  /\ owned # NONE
  /\ LET next == ReconciledMaps(owned)
     IN /\ deferredPurchases' = next.deferred
        /\ completedCorrelations' = next.completed
        /\ \E ok \in BOOLEAN :
             /\ Persist(next.deferred, next.completed, FALSE, ok)
             /\ handed' = IF ok THEN handed \union Bought(owned) ELSE handed
  /\ owned' = NONE
  /\ UNCHANGED <<purchases, call, finishing, play, updates, history>>

\* finishTransaction, of a transaction the app was given and the backend has
\* accepted: the correlation is removed first.
FinishTransaction(t) ==
  /\ t \in handed \ finishing /\ Quiet
  /\ LET deferred == Without(deferredPurchases, {t})
         completed == Without(completedCorrelations, {t})
     IN \E ok \in BOOLEAN :
          /\ IF t \in Correlated /\ Existing(t).durable
             THEN Persist(deferred, completed, TRUE, ok)
             ELSE ok /\ UNCHANGED journal
          /\ IF ok
             THEN /\ deferredPurchases' = deferred
                  /\ completedCorrelations' = completed
                  /\ finishing' = finishing \union {t}
                  /\ history' = [history EXCEPT !.cleared = @ \union {t}]
             ELSE UNCHANGED <<deferredPurchases, completedCorrelations, finishing, history>>
  /\ UNCHANGED <<purchases, call, owned, play, updates, handed>>

\* Play consumes or acknowledges the purchase, or the request fails.
PlayFinishes(t) ==
  /\ t \in finishing /\ Quiet
  /\ finishing' = finishing \ {t}
  /\ \/ /\ play[t].state \in {"purchased", "acknowledged"}
        /\ \E state \in {"consumed", "acknowledged"} : play' = [play EXCEPT ![t].state = state]
     \/ UNCHANGED play
  /\ UNCHANGED <<store, journal, call, owned, updates, handed, history>>

\* Faulty variant of Unreadable: a journal that cannot be read counts as empty.
UnreadableIgnored == FALSE

\* restoreDurableCorrelations fails closed when the journal cannot be read.
Unreadable == TRUE

\* The process dies and the app starts again.  An open sheet belongs to Play
\* and stays; the journal may have become unreadable.
Restart ==
  /\ history.crashes < MaxCrashes
  /\ history' = [history EXCEPT !.crashes = @ + 1]
  /\ purchases' = NONE /\ deferredPurchases' = Nothing
  /\ \/ /\ completedCorrelations' = disk
        /\ ~corrupt
        /\ metadataPersistenceFailed' = FALSE
        /\ UNCHANGED <<disk, corrupt, faults>>
     \/ /\ \/ corrupt /\ UNCHANGED faults
           \/ ~corrupt /\ faults < MaxFaults /\ faults' = faults + 1
        /\ completedCorrelations' = Nothing /\ disk' = Nothing
        /\ metadataPersistenceFailed' = Unreadable /\ corrupt' = TRUE
  /\ call' = [c \in Calls |->
       IF call[c].at = "idle" \/ (call[c].answer # NONE /\ call[c].at # "registered")
       THEN call[c]
       ELSE [call[c] EXCEPT !.at = IF @ = "open" THEN @ ELSE "done",
                            !.answer = IF @ = NONE THEN "lost" ELSE @,
                            !.snapshot = Nothing]]
  /\ owned' = NONE /\ finishing' = {} /\ updates' = {}
  /\ UNCHANGED <<play, handed>>

-----------------------------------------------------------------------------
Init ==
  /\ purchases = NONE
  /\ deferredPurchases = Nothing /\ completedCorrelations = Nothing
  /\ metadataPersistenceFailed = FALSE /\ disk = Nothing /\ corrupt = FALSE
  /\ faults = 0
  /\ call = [c \in Calls |-> [at |-> "idle", product |-> NONE, context |-> NONE,
                             snapshot |-> Nothing, answer |-> NONE]]
  /\ owned = NONE /\ finishing = {} /\ handed = {} /\ updates = {}
  /\ play = [t \in Tokens |-> [state |-> "none", products |-> {}, buyer |-> NONE]]
  /\ history = [crashes |-> 0, gifts |-> 0, cleared |-> {}, older |-> [c \in Calls |-> {}]]

Hears(u) == HearPurchased(u) \/ HearPending(u) \/ HearFailure(u)

Next ==
  \/ \E c \in Calls : \/ Purchase(c) \/ Snapshots(c) \/ PrepareForPurchase(c)
                      \/ Register(c) \/ Launch(c) \/ SheetCloses(c)
  \/ \E t \in Tokens : \/ \E p \in Products : Gift(t, p)
                       \/ PaymentCompletes(t) \/ PaymentCancelled(t)
                       \/ FinishTransaction(t) \/ PlayFinishes(t)
  \/ \E u \in updates : Hears(u)
  \/ QueryPurchases \/ QueryAnswers \/ Restart

Spec == Init /\ [][Next]_vars

\* The plugin goes on with what it began, Play closes its sheets, says what
\* it announces and answers queries.
Fairness ==
  /\ \A c \in Calls : /\ WF_vars(Snapshots(c)) /\ WF_vars(PrepareForPurchase(c))
                      /\ WF_vars(Register(c)) /\ WF_vars(Launch(c))
                      /\ WF_vars(SheetCloses(c))
  /\ WF_vars(\E u \in updates : Hears(u))
  /\ WF_vars(QueryAnswers)

FairSpec == Spec /\ Fairness

-----------------------------------------------------------------------------
(* Properties *)

\* The place an active purchase will take in the bounded store stays free
\* for it: nothing that happens while its sheet is open uses it up
\* (PendingPurchaseStore.kt:257), and a token is in one map only.
SlotIsReserved ==
  /\ DOMAIN deferredPurchases \intersect DOMAIN completedCorrelations = {}
  /\ Cardinality(Correlated) + (IF purchases = NONE THEN 0 ELSE 1) <= MaxCorrelated

\* Unless a write has failed since, the preferences hold exactly the durable
\* correlations: no path changes one without writing it.  And a failure can be
\* made good by the next write: something durable is there to be written, so
\* the store is closed for good only over an unreadable journal.
JournalIsCurrent ==
  IF metadataPersistenceFailed
  THEN corrupt \/ DOMAIN Durable(deferredPurchases, completedCorrelations) # {}
  ELSE ~corrupt /\ disk = Durable(deferredPurchases, completedCorrelations)

\* What is in the preferences was written by the store: it fits its maps again.
JournalFits ==
  /\ Cardinality(DOMAIN disk) <= MaxCorrelated
  /\ \A t \in DOMAIN disk : disk[t].durable

\* Over an unreadable journal the store is closed: it takes no purchase, so nothing
\* durable comes up that would be written over it.
ClosedIfUnreadable ==
  corrupt => purchases = NONE /\ \A t \in Correlated : ~Existing(t).durable

\* The callback that is registered was not called, nor was that of a command that
\* has not come that far.
BeforeRegister == {"idle", "querying", "answered", "prepared"}
CallbacksAreDue ==
  /\ purchases # NONE => /\ call[purchases.call].answer = NONE
                         /\ call[purchases.call].at \notin BeforeRegister
  /\ \A c \in Calls : call[c].at \in BeforeRegister => call[c].answer = NONE

\* A command that has begun names its product.
CommandsNameProducts == \A c \in Calls : call[c].at # "idle" => call[c].product \in Products

\* Play names the products of every token it issued.
ProductsAreNamed == \A t \in Tokens : play[t].state # "none" => play[t].products # {}

\* The inductive invariant.
StoreIInv ==
  /\ TypeOK
  /\ SlotIsReserved
  /\ JournalIsCurrent
  /\ JournalFits
  /\ ClosedIfUnreadable
  /\ CallbacksAreDue
  /\ CommandsNameProducts
  /\ ProductsAreNamed

\* An unreadable journal is not overwritten: it stays what it is until the
\* app's data is cleared (PendingPurchaseStore.kt:522).
UnreadableJournalIsKept == [][corrupt => corrupt']_vars

\* The callback of a call is called once.
AnsweredOnce ==
  [][\A c \in Calls : call[c].answer # NONE => call'[c].answer = call[c].answer]_vars

\* An older transaction never consumes the callback of a newer call
\* (PendingPurchaseStore.kt:314): a call is not resolved with a token Play had
\* issued before the call was registered.
OlderNeverConsumesNewer ==
  \A c \in Calls : call[c].answer \notin history.older[c]

\* What the app reports of an offer or attribution is true: a context is kept,
\* in memory or on disk, only with a token that the context's own call bought,
\* and a call is resolved only with what it bought.
ContextIsTrue ==
  /\ \A t \in Correlated : Existing(t).context \in {NONE, play[t].buyer}
  /\ \A t \in DOMAIN disk : disk[t].context \in {NONE, play[t].buyer}
  /\ \A c \in Calls, t \in Tokens : call[c].answer = t => play[t].buyer = c

\* A purchase that was reported as successful keeps its context, over failed
\* writes, queries and restarts, until the app finishes it
\* (SharedPreferencesLocalTransactionMetadataStore.kt:57).
ResolvedContextSurvives ==
  \A c \in Calls, t \in Tokens :
    call[c].answer = t /\ call[c].context # NONE /\ t \notin history.cleared
      => corrupt \/ (t \in DOMAIN disk /\ disk[t].context = c)

\* A transaction Play has finished leaves nothing behind in the journal
\* (PendingPurchaseStore.kt:392).
NothingOrphaned ==
  \A t \in Tokens : play[t].state \in {"consumed", "acknowledged"} => t \notin DOMAIN disk

\* No sheet opens for a product whose payment is pending at Play.
NoSecondPayment ==
  [][\A c \in Calls : call[c].at = "registered" /\ call'[c].at = "open" =>
       ~\E t \in Tokens : play[t].state = "pending" /\ call[c].product \in play[t].products]_vars

\* "Too many unprocessed Play purchases; query or restore purchases first"
\* (RevenueCatPlugin.kt:142): after a successful query that finds Play to own
\* nothing, there is room again.
QueryMakesRoom ==
  [][owned # NONE /\ owned' = NONE /\ ~metadataPersistenceFailed' /\ purchases = NONE
     /\ DOMAIN Snapshot = {} /\ history' = history
       => Cardinality(Correlated') < MaxCorrelated]_vars

\* Every purchase call is answered, or dies with the process.
EveryCallIsAnswered ==
  \A c \in Calls : (call[c].at # "idle") ~> (call[c].answer # NONE)
=============================================================================

------------------------ MODULE PurchasesCoreProofs ------------------------
(***************************************************************************)
(* Proofs about PurchasesCore, for any callers, users and transactions.    *)
(* The invariant IInv is shown to be inductive action by action; the       *)
(* safety properties, the two action properties and the refinement of      *)
(* ReceiptLedger follow from it.                                           *)
(***************************************************************************)
EXTENDS PurchasesCore, TLAPS

\* What the shared helpers do to the state of the callers.

LEMMA IdleCallType == IdleCall \in Calls
  BY DEF IdleCall, Calls, Steps, Modes

LEMMA CallType ==
  ASSUME TypeOK, NEW c \in Callers
  PROVE  call[c] \in Calls
  BY DEF TypeOK

LEMMA ReturnFacts ==
  ASSUME TypeOK, NEW c \in Callers, Return(c)
  PROVE  /\ call'[c] = IdleCall
         /\ \A d \in Callers \ {c} : call'[d] = call[d]
         /\ call' \in [Callers -> Calls]
         /\ storeHolder' \in Callers \union {Nobody}
         /\ identityHolder' \in Callers \union {Nobody}
         /\ \A d \in Callers \ {c} : identityHolder = d => identityHolder' = d
  BY IdleCallType DEF TypeOK, Return

LEMMA ContinueFacts ==
  ASSUME TypeOK, NEW c \in Callers, NEW local \in Calls, Continue(c, local)
  PROVE  /\ call'[c] = local
         /\ \A d \in Callers \ {c} : call'[d] = call[d]
         /\ call' \in [Callers -> Calls]
         /\ storeHolder' \in Callers \union {Nobody}
         /\ identityHolder' \in Callers \union {Nobody}
         /\ identityHolder' = identityHolder
  BY DEF TypeOK, Continue

\* Nobody holds identity_operation when c obtains it: no other call is in a
\* section it protects.
LEMMA GrantedFacts ==
  ASSUME IInv, NEW c \in Callers, identityHolder = Nobody,
         NEW local \in Calls, ContinueWithIdentity(c, local)
  PROVE  /\ call'[c] = local
         /\ \A d \in Callers \ {c} : call'[d] = call[d] /\ ~HoldsIdentity(d)
         /\ call' \in [Callers -> Calls]
         /\ storeHolder' \in Callers \union {Nobody}
         /\ identityHolder' = c
  BY CallersAssumption DEF IInv, TypeOK, ContinueWithIdentity, IdentityIsHeld

\* A call that only starts, waits or returns, and leaves the rest alone,
\* preserves the invariant.
LEMMA QuietStep ==
  ASSUME IInv, NEW c \in Callers,
         UNCHANGED <<user, pending, recovery, cache, storeVars, credited>>,
         call' \in [Callers -> Calls],
         \A d \in Callers \ {c} : call'[d] = call[d],
         call'[c].at \in {"idle", "awaitStore", "awaitIdentity"},
         storeHolder' \in Callers \union {Nobody},
         identityHolder' \in Callers \union {Nobody},
         \A d \in Callers \ {c} : identityHolder = d => identityHolder' = d
  PROVE  IInv'
<1> USE DEF IInv, storeVars
<1>1. TypeOK'
  BY DEF TypeOK
<1>2. IdentityIsHeld'
  BY DEF IdentityIsHeld, HoldsIdentity, HandlesReceipts, StoreSteps
<1>3. CallsKnowWhatIsOwed'
  BY DEF CallsKnowWhatIsOwed, Owed, Unfinished, Finished
<1>4. SwitchesArePrepared' /\ AnswersAreOwn' /\ FetchesHaveAUser'
  BY DEF SwitchesArePrepared, AnswersAreOwn, FetchesHaveAUser, Info, At
<1>5. NothingBeforePurchase' /\ PurchaseCreditedToItsUser' /\ RecoveryArmed'
  BY DEF NothingBeforePurchase, PurchaseCreditedToItsUser, RecoveryArmed, Unfinished, Finished
<1>6. GatesNeverDeadlock' /\ CachedInfoIsOwn'
  BY DEF GatesNeverDeadlock, CachedInfoIsOwn, Info
<1>7. QED
  BY <1>1, <1>2, <1>3, <1>4, <1>5, <1>6

LEMMA QuietReturn ==
  ASSUME IInv, NEW c \in Callers, Return(c),
         UNCHANGED <<user, pending, recovery, cache, storeVars, credited>>
  PROVE  IInv'
<1>1. TypeOK
  BY DEF IInv
<1>2. QED
  BY <1>1, ReturnFacts, QuietStep DEF IdleCall

LEMMA QuietContinue ==
  ASSUME IInv, NEW c \in Callers, NEW local \in Calls, Continue(c, local),
         local.at \in {"awaitStore", "awaitIdentity"},
         UNCHANGED <<user, pending, recovery, cache, storeVars, credited>>
  PROVE  IInv'
<1>1. TypeOK
  BY DEF IInv
<1>2. QED
  BY <1>1, ContinueFacts, QuietStep

-----------------------------------------------------------------------------
(* Calls begin and wait *)

LEMMA BeginStep ==
  ASSUME IInv, NEW c \in Callers, Begin(c)
  PROVE  IInv'
<1> USE DEF Calls, IdleCall, Steps, Modes
<1>1. CASE StartPurchase(c)
  <2>1. /\ call' \in [Callers -> Calls]
        /\ \A d \in Callers \ {c} : call'[d] = call[d]
        /\ call'[c].at = "awaitIdentity"
    BY <1>1 DEF StartPurchase, IInv, TypeOK
  <2>2. QED
    BY <1>1, <2>1, QuietStep DEF StartPurchase, IInv, TypeOK
<1>2. ASSUME NEW mode \in SyncModes, StartSync(c, mode)
      PROVE  IInv'
  BY <1>2, QuietContinue DEF StartSync
<1>3. ASSUME NEW target \in Users \union {NoUser}, NEW tracked \in BOOLEAN, StartLogIn(c, target, tracked)
      PROVE  IInv'
  BY <1>3, QuietContinue DEF StartLogIn, Transitions
<1>4. ASSUME NEW target \in Anonymous \union {NoUser}, NEW tracked \in BOOLEAN,
             StartLogOut(c, target, tracked)
      PROVE  IInv'
  BY <1>4, QuietContinue, UsersAssumption DEF StartLogOut, Transitions
<1>5. CASE StartRead(c)
  BY <1>5, QuietContinue DEF StartRead
<1>6. QED
  BY <1>1, <1>2, <1>3, <1>4, <1>5 DEF Begin

LEMMA SyncHoldsStoreStep ==
  ASSUME IInv, NEW c \in Callers, SyncHoldsStore(c)
  PROVE  IInv'
<1>1. call \in [Callers -> Calls]
  BY DEF IInv, TypeOK
<1>2. [call[c] EXCEPT !.at = "awaitIdentity"] \in Calls
  BY <1>1 DEF Calls, Steps
<1>3. /\ call' \in [Callers -> Calls]
      /\ \A d \in Callers \ {c} : call'[d] = call[d]
      /\ call'[c].at = "awaitIdentity"
  BY <1>1, <1>2 DEF SyncHoldsStore, Calls
<1>4. QED
  BY <1>3, QuietStep DEF SyncHoldsStore, IInv, TypeOK

-----------------------------------------------------------------------------
(* Calls obtain identity_operation *)

LEMMA PurchaseEntersStoreStep ==
  ASSUME IInv, NEW c \in Callers, PurchaseEntersStore(c)
  PROVE  IInv'
<1> DEFINE local == [call[c] EXCEPT !.at = "inStoreUI", !.user = user]
<1> USE DEF PurchaseEntersStore, GrantedIdentity, ReceiptOperationsReady, storeVars
<1>1. local \in Calls /\ local.at = "inStoreUI" /\ local.user = user
  <2>1. call[c] \in Calls /\ user \in Users
    BY CallType DEF IInv, TypeOK
  <2>2. QED
    BY <2>1 DEF Calls, Steps, StoreSteps
<1> HIDE DEF local
<1>2. /\ call'[c] = local
      /\ \A d \in Callers \ {c} : call'[d] = call[d] /\ ~HoldsIdentity(d)
      /\ call' \in [Callers -> Calls]
      /\ storeHolder' \in Callers \union {Nobody}
      /\ identityHolder' = c
  BY <1>1, GrantedFacts DEF local
<1>3. TypeOK'
  BY <1>2 DEF IInv, TypeOK
<1>4. IdentityIsHeld'
  BY <1>1, <1>2 DEF IInv, IdentityIsHeld, HoldsIdentity, HandlesReceipts, StoreSteps
<1>5. CallsKnowWhatIsOwed'
  BY <1>1, <1>2 DEF IInv, CallsKnowWhatIsOwed, HoldsIdentity, StoreSteps, SyncModes,
                    RecoveryArmed, Owed, Unfinished, Finished
<1>6. SwitchesArePrepared'
  BY <1>1, <1>2 DEF SwitchesArePrepared, HoldsIdentity, At
<1>7. AnswersAreOwn' /\ FetchesHaveAUser'
  BY <1>1, <1>2 DEF IInv, AnswersAreOwn, FetchesHaveAUser, Info, At
<1>8. NothingBeforePurchase' /\ PurchaseCreditedToItsUser' /\ RecoveryArmed'
  BY DEF IInv, NothingBeforePurchase, PurchaseCreditedToItsUser, RecoveryArmed, Unfinished, Finished
<1>9. GatesNeverDeadlock' /\ CachedInfoIsOwn'
  BY DEF IInv, GatesNeverDeadlock, CachedInfoIsOwn, Info
<1>10. QED
  BY <1>3, <1>4, <1>5, <1>6, <1>7, <1>8, <1>9 DEF IInv

LEMMA SyncQueriesStep ==
  ASSUME IInv, NEW c \in Callers, SyncQueries(c)
  PROVE  IInv'
<1> DEFINE local == [call[c] EXCEPT !.at = "querying", !.user = user]
<1> USE DEF SyncQueries, GrantedIdentity, storeVars
<1>1. local \in Calls /\ local.at = "querying" /\ local.user = user
  <2>1. call[c] \in Calls /\ user \in Users
    BY CallType DEF IInv, TypeOK
  <2>2. QED
    BY <2>1 DEF Calls, Steps, StoreSteps
<1> HIDE DEF local
<1>2. /\ call'[c] = local
      /\ \A d \in Callers \ {c} : call'[d] = call[d] /\ ~HoldsIdentity(d)
      /\ call' \in [Callers -> Calls]
      /\ storeHolder' \in Callers \union {Nobody}
      /\ identityHolder' = c
  BY <1>1, GrantedFacts DEF local
<1>3. TypeOK'
  BY <1>2 DEF IInv, TypeOK
<1>4. IdentityIsHeld'
  BY <1>1, <1>2 DEF IInv, IdentityIsHeld, HoldsIdentity, HandlesReceipts, StoreSteps
<1>5. CallsKnowWhatIsOwed'
  BY <1>1, <1>2 DEF IInv, CallsKnowWhatIsOwed, HoldsIdentity, StoreSteps, SyncModes,
                    Owed, Unfinished, Finished
<1>6. SwitchesArePrepared'
  BY <1>1, <1>2 DEF SwitchesArePrepared, HoldsIdentity, At
<1>7. AnswersAreOwn' /\ FetchesHaveAUser'
  BY <1>1, <1>2 DEF IInv, AnswersAreOwn, FetchesHaveAUser, Info, At
<1>8. NothingBeforePurchase' /\ PurchaseCreditedToItsUser' /\ RecoveryArmed'
  BY DEF IInv, NothingBeforePurchase, PurchaseCreditedToItsUser, RecoveryArmed, Unfinished, Finished
<1>9. GatesNeverDeadlock' /\ CachedInfoIsOwn'
  BY DEF IInv, GatesNeverDeadlock, CachedInfoIsOwn, Info
<1>10. QED
  BY <1>3, <1>4, <1>5, <1>6, <1>7, <1>8, <1>9 DEF IInv

\* A logIn or logOut that was prepared for `target` waits for the backend.
LEMMA PreparedSwitch ==
  ASSUME IInv, NEW c \in Callers, identityHolder = Nobody, ~recovery,
         NEW kind \in Transitions, call[c].mode = kind,
         NEW target \in Users,
         TransitionAllowed(kind, target, call[c].tracked),
         MarkTransition(kind, target, call[c].tracked),
         \/ ContinueWithIdentity(c, [call[c] EXCEPT !.at = "switching", !.user = user,
                                                    !.target = target])
         \/ Return(c),
         UNCHANGED <<user, recovery, cache, storeVars, credited>>
  PROVE  IInv'
<1> DEFINE local == [call[c] EXCEPT !.at = "switching", !.user = user, !.target = target]
<1> USE DEF storeVars
<1>1. /\ call[c] \in Calls
      /\ local \in Calls /\ local.at = "switching" /\ local.user = user
      /\ local.target = target /\ local.mode = kind /\ local.tracked = call[c].tracked
  <2>1. call[c] \in Calls /\ user \in Users
    BY CallType DEF IInv, TypeOK
  <2>2. QED
    BY <2>1 DEF Calls, Steps
<1>2. /\ \A d \in Callers : ~HoldsIdentity(d)
      /\ \A d \in Callers : ~At(d, "switching")
  BY CallersAssumption DEF IInv, IdentityIsHeld, HoldsIdentity, At
<1>3. /\ pending' = IF call[c].tracked THEN [kind |-> kind, target |-> target] ELSE NoTransition
      /\ pending' \in PendingTransition \union {NoTransition}
  BY <1>1 DEF MarkTransition, TransitionAllowed, PendingTransition, Calls
<1>4. \A d \in Callers : ~HandlesReceipts(d)
  BY <1>2 DEF HandlesReceipts, HoldsIdentity, SyncModes
<1>5. NothingBeforePurchase' /\ PurchaseCreditedToItsUser' /\ RecoveryArmed'
  BY DEF IInv, NothingBeforePurchase, PurchaseCreditedToItsUser, RecoveryArmed, Unfinished, Finished
<1>6. GatesNeverDeadlock' /\ CachedInfoIsOwn'
  BY DEF IInv, GatesNeverDeadlock, CachedInfoIsOwn, Info
<1>7. CASE Return(c)
  <2>1. /\ call'[c] = IdleCall
        /\ \A d \in Callers \ {c} : call'[d] = call[d]
        /\ call' \in [Callers -> Calls]
        /\ storeHolder' \in Callers \union {Nobody}
        /\ identityHolder' \in Callers \union {Nobody}
    BY <1>7, ReturnFacts DEF IInv
  <2>2. TypeOK'
    BY <1>3, <2>1 DEF IInv, TypeOK
  <2>3. IdentityIsHeld'
    BY <1>2, <1>4, <2>1 DEF IdentityIsHeld, HoldsIdentity, HandlesReceipts, IdleCall, StoreSteps
  <2>4. CallsKnowWhatIsOwed'
    BY <1>2, <2>1 DEF IInv, CallsKnowWhatIsOwed, IdleCall, Owed, Unfinished, Finished
  <2>5. SwitchesArePrepared' /\ AnswersAreOwn' /\ FetchesHaveAUser'
    BY <1>2, <2>1 DEF IInv, SwitchesArePrepared, AnswersAreOwn, FetchesHaveAUser, IdleCall, Info, At
  <2>6. QED
    BY <1>5, <1>6, <2>2, <2>3, <2>4, <2>5 DEF IInv
<1>8. CASE ContinueWithIdentity(c, local)
  <2> HIDE DEF local
  <2>1. /\ call'[c] = local
        /\ \A d \in Callers \ {c} : call'[d] = call[d]
        /\ call' \in [Callers -> Calls]
        /\ storeHolder' \in Callers \union {Nobody}
        /\ identityHolder' = c
    BY <1>1, <1>8, GrantedFacts
  <2>2. TypeOK'
    BY <1>3, <2>1 DEF IInv, TypeOK
  <2>3. IdentityIsHeld'
    BY <1>1, <1>2, <1>4, <2>1 DEF IdentityIsHeld, HoldsIdentity, HandlesReceipts, StoreSteps
  <2>4. CallsKnowWhatIsOwed'
    BY <1>1, <1>2, <2>1 DEF IInv, CallsKnowWhatIsOwed, Owed, Unfinished, Finished
  <2>5. SwitchesArePrepared'
    BY <1>1, <1>2, <1>3, <2>1 DEF SwitchesArePrepared, At
  <2>6. AnswersAreOwn' /\ FetchesHaveAUser'
    BY <1>1, <1>2, <2>1 DEF IInv, AnswersAreOwn, FetchesHaveAUser, Info, At
  <2>7. QED
    BY <1>5, <1>6, <2>2, <2>3, <2>4, <2>5, <2>6 DEF IInv
<1>9. QED
  BY <1>7, <1>8

LEMMA LogInPreparesStep ==
  ASSUME IInv, NEW c \in Callers, LogInPrepares(c)
  PROVE  IInv'
<1>1. call[c] \in Calls /\ user \in Users
  BY CallType DEF IInv, TypeOK
<1>2. call[c].mode = "LogIn" /\ call[c].target \in Users
  BY DEF LogInPrepares, GrantedIdentity
<1>3. [call[c] EXCEPT !.at = "switching", !.user = user]
        = [call[c] EXCEPT !.at = "switching", !.user = user, !.target = call[c].target]
  BY <1>1 DEF Calls
<1>4. QED
  BY <1>2, <1>3, PreparedSwitch DEF LogInPrepares, GrantedIdentity, Transitions

LEMMA LogOutPreparesStep ==
  ASSUME IInv, NEW c \in Callers, LogOutPrepares(c)
  PROVE  IInv'
<1>1. call[c] \in Calls /\ pending \in PendingTransition \union {NoTransition}
  BY CallType DEF IInv, TypeOK
<1>2. call[c].mode = "LogOut"
  BY DEF LogOutPrepares, GrantedIdentity
<1>3. PICK target \in LogOutTargets(call[c]) :
        /\ TransitionAllowed("LogOut", target, call[c].tracked)
        /\ MarkTransition("LogOut", target, call[c].tracked)
        /\ \/ ContinueWithIdentity(c, [call[c] EXCEPT !.at = "switching", !.user = user,
                                                      !.target = target])
           \/ Return(c)
  BY DEF LogOutPrepares
<1>4. target \in Users
  BY <1>1, <1>3, UsersAssumption DEF LogOutTargets, Calls, PendingTransition
<1>5. QED
  BY <1>2, <1>3, <1>4, PreparedSwitch DEF LogOutPrepares, GrantedIdentity, Transitions

LEMMA LogInAgainStep ==
  ASSUME IInv, NEW c \in Callers, LogInAgain(c)
  PROVE  IInv'
<1> USE DEF LogInAgain, GrantedIdentity, storeVars
<1>1. /\ call[c] \in Calls /\ user \in Users
      /\ call[c].mode = "LogIn" /\ identityHolder = Nobody
  BY CallType DEF IInv, TypeOK
<1>2. pending' \in {pending, NoTransition} /\ (pending = NoTransition => pending' = NoTransition)
  BY DEF ClearTransition
<1>3. \A d \in Callers : ~HoldsIdentity(d) /\ ~HandlesReceipts(d) /\ ~At(d, "switching")
  BY <1>1, CallersAssumption DEF IInv, IdentityIsHeld, HoldsIdentity, HandlesReceipts, SyncModes, At
<1>4. /\ call' \in [Callers -> Calls]
      /\ \A d \in Callers \ {c} : call'[d] = call[d]
      /\ call'[c].at = "fetching" => identityHolder' = c
      /\ call'[c].at = "idle" \/ (call'[c].at = "fetching" /\ call'[c].user = user
                                   /\ call'[c].mode = "LogIn")
      /\ storeHolder' \in Callers \union {Nobody}
      /\ identityHolder' \in Callers \union {Nobody}
  <2> DEFINE local == [call[c] EXCEPT !.at = "fetching", !.user = user]
  <2>1. local \in Calls /\ local.at = "fetching" /\ local.user = user /\ local.mode = "LogIn"
    BY <1>1 DEF Calls, Steps
  <2> HIDE DEF local
  <2>2. CASE Return(c)
    BY <2>2, ReturnFacts DEF IInv, IdleCall
  <2>3. CASE ContinueWithIdentity(c, local)
    BY <1>1, <2>1, <2>3, GrantedFacts
  <2>4. QED
    BY <2>2, <2>3 DEF local
<1>5. TypeOK'
  BY <1>2, <1>4 DEF IInv, TypeOK
<1>6. IdentityIsHeld'
  BY <1>3, <1>4 DEF IdentityIsHeld, HoldsIdentity, HandlesReceipts, StoreSteps, SyncModes
<1>7. CallsKnowWhatIsOwed'
  BY <1>4 DEF IInv, CallsKnowWhatIsOwed, SyncModes, Owed, Unfinished, Finished
<1>8. SwitchesArePrepared' /\ AnswersAreOwn' /\ FetchesHaveAUser'
  BY <1>1, <1>3, <1>4 DEF IInv, SwitchesArePrepared, AnswersAreOwn, FetchesHaveAUser, Info, At
<1>9. NothingBeforePurchase' /\ PurchaseCreditedToItsUser' /\ RecoveryArmed'
  BY DEF IInv, NothingBeforePurchase, PurchaseCreditedToItsUser, RecoveryArmed, Unfinished, Finished
<1>10. GatesNeverDeadlock' /\ CachedInfoIsOwn'
  BY <1>2 DEF IInv, GatesNeverDeadlock, CachedInfoIsOwn, Info
<1>11. QED
  BY <1>5, <1>6, <1>7, <1>8, <1>9, <1>10 DEF IInv

LEMMA ReadSettlesStep ==
  ASSUME IInv, NEW c \in Callers, ReadSettles(c)
  PROVE  IInv'
<1> DEFINE local == [call[c] EXCEPT !.at = "fetching", !.user = user]
<1> USE DEF storeVars
<1>1. /\ local \in Calls /\ local.at = "fetching" /\ local.user = user
      /\ local.mode = "read" /\ user \in Users
  <2>1. call[c] \in Calls /\ user \in Users /\ call[c].mode = "read"
    BY CallType DEF IInv, TypeOK, ReadSettles, GrantedIdentity
  <2>2. QED
    BY <2>1 DEF Calls, Steps
<1>2. CASE Return(c)
  BY <1>2, QuietReturn DEF ReadSettles
<1>3. CASE Continue(c, local)
  <2> HIDE DEF local
  <2>1. /\ call'[c] = local
        /\ \A d \in Callers \ {c} : call'[d] = call[d]
        /\ call' \in [Callers -> Calls]
        /\ storeHolder' \in Callers \union {Nobody}
        /\ identityHolder' \in Callers \union {Nobody}
        /\ identityHolder' = identityHolder
    BY <1>1, <1>3, ContinueFacts DEF IInv
  <2> USE DEF ReadSettles
  <2>2. TypeOK'
    BY <2>1 DEF IInv, TypeOK
  <2>3. IdentityIsHeld'
    BY <1>1, <2>1 DEF IInv, IdentityIsHeld, HoldsIdentity, HandlesReceipts, StoreSteps, SyncModes
  <2>4. CallsKnowWhatIsOwed'
    BY <1>1, <2>1 DEF IInv, CallsKnowWhatIsOwed, SyncModes, Owed, Unfinished, Finished
  <2>5. SwitchesArePrepared' /\ AnswersAreOwn' /\ FetchesHaveAUser'
    BY <1>1, <2>1 DEF IInv, SwitchesArePrepared, AnswersAreOwn, FetchesHaveAUser, Info, At
  <2>6. NothingBeforePurchase' /\ PurchaseCreditedToItsUser' /\ RecoveryArmed'
    BY DEF IInv, NothingBeforePurchase, PurchaseCreditedToItsUser, RecoveryArmed, Unfinished, Finished
  <2>7. GatesNeverDeadlock' /\ CachedInfoIsOwn'
    BY DEF IInv, GatesNeverDeadlock, CachedInfoIsOwn, Info
  <2>8. QED
    BY <2>2, <2>3, <2>4, <2>5, <2>6, <2>7 DEF IInv
<1>4. QED
  BY <1>2, <1>3 DEF ReadSettles

LEMMA IdentityGrantedStep ==
  ASSUME IInv, NEW c \in Callers, IdentityGranted(c)
  PROVE  IInv'
<1>1. CASE Refused(c)
  BY <1>1, QuietReturn DEF Refused
<1>2. QED
  BY <1>1, PurchaseEntersStoreStep, SyncQueriesStep, LogInPreparesStep, LogInAgainStep,
     LogOutPreparesStep, ReadSettlesStep DEF IdentityGranted

-----------------------------------------------------------------------------
(* The store, the backend or the host answers *)

\* While c holds identity_operation no other call is in a protected section.
LEMMA OthersWait ==
  ASSUME IInv, NEW c \in Callers, HoldsIdentity(c)
  PROVE  \A d \in Callers \ {c} :
           ~HoldsIdentity(d) /\ ~HandlesReceipts(d) /\ ~At(d, "switching")
  BY CallersAssumption DEF IInv, IdentityIsHeld, HoldsIdentity, HandlesReceipts, SyncModes, At

\* A step of a call inside the store section: it stays in the section or
\* returns.  Only the store, the credits, recovery and the cache may change.
LEMMA SectionStep ==
  ASSUME IInv, NEW c \in Callers, call[c].at \in StoreSteps,
         UNCHANGED <<user, pending>>, TypeOK',
         \A d \in Callers \ {c} : call'[d] = call[d],
         \A tx \in Transactions : credited[tx] \subseteq credited'[tx],
         \/ call'[c].at = "idle"
         \/ /\ call'[c].at \in StoreSteps \union {"fetching"}
            /\ call'[c].user = call[c].user
            /\ identityHolder' = identityHolder
  PROVE  IdentityIsHeld' /\ SwitchesArePrepared' /\ FetchesHaveAUser'
         /\ \A d \in Callers \ {c} :
              /\ ~HoldsIdentity(d)'
              /\ call'[d].at = "answered" =>
                   call'[d].user \in Users /\ call'[d].info \subseteq Info(call[d].user)'
<1>1. /\ HoldsIdentity(c) /\ HandlesReceipts(c)
      /\ identityHolder = c /\ call[c].user = user /\ pending = NoTransition
      /\ user \in Users
  BY DEF IInv, TypeOK, IdentityIsHeld, HoldsIdentity, HandlesReceipts
<1>2. \A d \in Callers \ {c} :
         ~HoldsIdentity(d) /\ ~HandlesReceipts(d) /\ ~At(d, "switching")
  BY <1>1, OthersWait
<1>3. IdentityIsHeld'
  BY <1>1, <1>2 DEF IdentityIsHeld, HoldsIdentity, HandlesReceipts, StoreSteps, SyncModes
<1>4. SwitchesArePrepared'
  BY <1>2 DEF SwitchesArePrepared, StoreSteps, At
<1>5. FetchesHaveAUser'
  BY <1>1 DEF IInv, FetchesHaveAUser, At, StoreSteps
<1>6. \A d \in Callers \ {c} :
         /\ ~HoldsIdentity(d)'
         /\ call'[d].at = "answered" =>
              call'[d].user \in Users /\ call'[d].info \subseteq Info(call[d].user)'
  <2> TAKE d \in Callers \ {c}
  <2>1. ~HoldsIdentity(d)'
    BY <1>2 DEF HoldsIdentity, StoreSteps
  <2>2. ASSUME call'[d].at = "answered"
        PROVE  call'[d].user \in Users /\ call'[d].info \subseteq Info(call[d].user)'
    <3>1. call[d].user \in Users /\ call[d].info \subseteq Info(call[d].user)
      BY <2>2 DEF IInv, AnswersAreOwn
    <3>2. QED
      BY <3>1 DEF Info
  <2>3. QED
    BY <2>1, <2>2
<1>7. QED
  BY <1>3, <1>4, <1>5, <1>6

LEMMA StoreDeliversStep ==
  ASSUME IInv, NEW c \in Callers, NEW tx \in Transactions, StoreDelivers(c, tx)
  PROVE  IInv'
<1> DEFINE local == [call[c] EXCEPT !.at = "posting", !.queue = {tx}]
<1>1. /\ call[c] \in Calls /\ call[c].at = "inStoreUI" /\ call[c].user = user
      /\ user \in Users /\ recovery /\ Owed = {} /\ pending = NoTransition
  BY CallType DEF IInv, TypeOK, StoreDelivers, At, IdentityIsHeld, HoldsIdentity,
                  HandlesReceipts, StoreSteps, CallsKnowWhatIsOwed
<1>2. /\ local \in Calls /\ local.at = "posting" /\ local.queue = {tx}
      /\ local.user = call[c].user
  BY <1>1 DEF Calls, Steps, StoreSteps
<1> HIDE DEF local
<1>3. /\ \A d \in Callers \ {c} : call'[d] = call[d]
      /\ call' \in [Callers -> Calls]
      /\ storeHolder' \in Callers \union {Nobody}
      /\ identityHolder' \in Callers \union {Nobody}
      /\ \/ call'[c] = IdleCall
         \/ call'[c] = local /\ identityHolder' = identityHolder
  <2>1. CASE Return(c)
    BY <2>1, ReturnFacts DEF IInv
  <2>2. CASE Continue(c, local)
    BY <1>2, <2>2, ContinueFacts DEF IInv
  <2>3. QED
    BY <2>1, <2>2 DEF StoreDelivers, local
<1>4. TypeOK'
  BY <1>1, <1>3 DEF IInv, TypeOK, StoreDelivers
<1>5. /\ IdentityIsHeld' /\ SwitchesArePrepared' /\ FetchesHaveAUser'
      /\ \A d \in Callers \ {c} :
           /\ ~HoldsIdentity(d)'
           /\ call'[d].at = "answered" =>
                call'[d].user \in Users /\ call'[d].info \subseteq Info(call[d].user)'
  BY <1>1, <1>2, <1>3, <1>4, SectionStep DEF StoreDelivers, IdleCall, StoreSteps, Info
\* What was bought before is not owed to anyone; tx is, to the buyer, if new.
<1>6. /\ Unfinished \subseteq Unfinished' /\ Unfinished' \subseteq Unfinished \union {tx}
      /\ Finished' = Finished /\ tx \in Unfinished' \union Finished'
      /\ Owed' \subseteq {tx}
  BY <1>1 DEF IInv, TypeOK, StoreDelivers, Owed, Unfinished, Finished
<1>7. CallsKnowWhatIsOwed'
  BY <1>1, <1>2, <1>3, <1>5, <1>6
  DEF CallsKnowWhatIsOwed, HoldsIdentity, StoreDelivers, StoreSteps, SyncModes, IdleCall
<1>8. NothingBeforePurchase'
  BY <1>6 DEF IInv, TypeOK, NothingBeforePurchase, StoreDelivers, Unfinished, Finished
<1>9. AnswersAreOwn'
  BY <1>2, <1>3, <1>5 DEF AnswersAreOwn, HoldsIdentity, StoreSteps, IdleCall, Info
<1>10. PurchaseCreditedToItsUser'
  BY <1>1, <1>6 DEF IInv, TypeOK, PurchaseCreditedToItsUser, NothingBeforePurchase, StoreDelivers,
                    Unfinished, Finished, Owed
<1>11. RecoveryArmed'
  <2>1. tx \in Owed' => launcher'[tx] = user
    BY <1>1 DEF IInv, TypeOK, NothingBeforePurchase, StoreDelivers, Owed, Unfinished, Finished
  <2>2. QED
    BY <1>1, <1>6, <2>1 DEF RecoveryArmed, StoreDelivers, Owed, Unfinished
<1>12. GatesNeverDeadlock' /\ CachedInfoIsOwn'
  BY DEF IInv, GatesNeverDeadlock, CachedInfoIsOwn, Info, StoreDelivers
<1>13. QED
  BY <1>4, <1>5, <1>7, <1>8, <1>9, <1>10, <1>11, <1>12 DEF IInv

LEMMA StoreDefersStep ==
  ASSUME IInv, NEW c \in Callers, NEW tx \in Transactions, StoreDefers(c, tx)
  PROVE  IInv'
<1>1. /\ call[c].at = "inStoreUI" /\ call[c].user = user /\ user \in Users
  BY DEF IInv, TypeOK, StoreDefers, At, IdentityIsHeld, HoldsIdentity, StoreSteps
<1>2. /\ call'[c] = IdleCall
      /\ \A d \in Callers \ {c} : call'[d] = call[d]
      /\ call' \in [Callers -> Calls]
      /\ storeHolder' \in Callers \union {Nobody}
      /\ identityHolder' \in Callers \union {Nobody}
  BY ReturnFacts DEF IInv, StoreDefers
<1>3. TypeOK'
  BY <1>1, <1>2 DEF IInv, TypeOK, StoreDefers
<1>4. /\ IdentityIsHeld' /\ SwitchesArePrepared' /\ FetchesHaveAUser'
      /\ \A d \in Callers \ {c} :
           /\ ~HoldsIdentity(d)'
           /\ call'[d].at = "answered" =>
                call'[d].user \in Users /\ call'[d].info \subseteq Info(call[d].user)'
  BY <1>1, <1>2, <1>3, SectionStep DEF StoreDefers, IdleCall, StoreSteps
<1>5. Unfinished' = Unfinished /\ Finished' = Finished /\ Owed' = Owed
  BY DEF IInv, TypeOK, StoreDefers, Unfinished, Finished, Owed
<1>6. CallsKnowWhatIsOwed' /\ AnswersAreOwn'
  BY <1>2, <1>4, <1>5
  DEF CallsKnowWhatIsOwed, AnswersAreOwn, HoldsIdentity, StoreSteps, SyncModes, IdleCall, Info
<1>7. NothingBeforePurchase'
  BY <1>5 DEF IInv, NothingBeforePurchase, StoreDefers
\* The launcher of a transaction nobody bought yet is all that changes.
<1>8. PurchaseCreditedToItsUser' /\ RecoveryArmed'
  BY <1>5 DEF IInv, TypeOK, PurchaseCreditedToItsUser, RecoveryArmed, StoreDefers,
              Unfinished, Finished
<1>9. GatesNeverDeadlock' /\ CachedInfoIsOwn'
  BY DEF IInv, GatesNeverDeadlock, CachedInfoIsOwn, Info, StoreDefers
<1>10. QED
  BY <1>3, <1>4, <1>6, <1>7, <1>8, <1>9 DEF IInv

LEMMA StoreAnswersQueryStep ==
  ASSUME IInv, NEW c \in Callers, StoreAnswersQuery(c)
  PROVE  IInv'
<1>1. /\ call[c] \in Calls /\ call[c].at = "querying" /\ call[c].user = user
      /\ user \in Users /\ pending = NoTransition
  BY CallType DEF IInv, TypeOK, StoreAnswersQuery, At, IdentityIsHeld, HoldsIdentity,
                  HandlesReceipts, StoreSteps
<1>2. PICK owned \in SUBSET Finished :
        LET found == Unfinished \union owned IN
        IF found = {}
          THEN /\ Continue(c, [call[c] EXCEPT !.at = "fetching"])
               /\ UNCHANGED recovery
          ELSE /\ Continue(c, [call[c] EXCEPT !.at = "posting", !.queue = found])
               /\ recovery' = TRUE
  BY DEF StoreAnswersQuery
<1> DEFINE found == Unfinished \union owned
<1> DEFINE local == IF found = {} THEN [call[c] EXCEPT !.at = "fetching"]
                    ELSE [call[c] EXCEPT !.at = "posting", !.queue = found]
<1>3. /\ local \in Calls /\ local.user = user /\ local.mode = call[c].mode
      /\ \/ local.at = "fetching" /\ found = {}
         \/ local.at = "posting" /\ local.queue = found /\ recovery'
  <2>1. found \in SUBSET Transactions
    BY DEF Unfinished, Finished
  <2>2. QED
    BY <1>1, <1>2, <2>1 DEF Calls, Steps, StoreSteps
<1>4. Continue(c, local) /\ recovery' \in {recovery, TRUE}
  BY <1>2
<1> HIDE DEF local
<1>5. /\ call'[c] = local
      /\ \A d \in Callers \ {c} : call'[d] = call[d]
      /\ call' \in [Callers -> Calls]
      /\ storeHolder' \in Callers \union {Nobody}
      /\ identityHolder' \in Callers \union {Nobody}
      /\ identityHolder' = identityHolder
  BY <1>3, <1>4, ContinueFacts DEF IInv
<1> USE DEF StoreAnswersQuery, storeVars
<1>6. TypeOK'
  BY <1>4, <1>5 DEF IInv, TypeOK
<1>7. /\ IdentityIsHeld' /\ SwitchesArePrepared' /\ FetchesHaveAUser'
      /\ \A d \in Callers \ {c} :
           /\ ~HoldsIdentity(d)'
           /\ call'[d].at = "answered" =>
                call'[d].user \in Users /\ call'[d].info \subseteq Info(call[d].user)'
  BY <1>1, <1>3, <1>5, <1>6, SectionStep DEF StoreSteps
<1>8. Owed \subseteq found /\ found \subseteq Unfinished \union Finished
  BY DEF Owed
<1>9. CallsKnowWhatIsOwed'
  BY <1>3, <1>5, <1>7, <1>8
  DEF CallsKnowWhatIsOwed, HoldsIdentity, StoreSteps, SyncModes, Owed, Unfinished, Finished
<1>10. AnswersAreOwn'
  BY <1>3, <1>5, <1>7 DEF AnswersAreOwn, HoldsIdentity, StoreSteps, Info
<1>11. NothingBeforePurchase' /\ PurchaseCreditedToItsUser' /\ RecoveryArmed'
  BY <1>4 DEF IInv, NothingBeforePurchase, PurchaseCreditedToItsUser, RecoveryArmed,
              Unfinished, Finished
<1>12. GatesNeverDeadlock' /\ CachedInfoIsOwn'
  BY <1>1 DEF IInv, GatesNeverDeadlock, CachedInfoIsOwn, Info
<1>13. QED
  BY <1>6, <1>7, <1>9, <1>10, <1>11, <1>12 DEF IInv

\* In the receipt loop: what the call knows, before any of its steps.
LEMMA InReceiptLoop ==
  ASSUME IInv, NEW c \in Callers, call[c].at \in {"posting", "finishing"}
  PROVE  /\ call[c] \in Calls /\ call[c].user = user /\ user \in Users
         /\ call[c].at \in StoreSteps
         /\ pending = NoTransition /\ recovery
         /\ Owed \subseteq call[c].queue
         /\ call[c].queue \subseteq Unfinished \union Finished
         /\ call[c].at = "finishing" =>
              call[c].tx \in call[c].queue /\ user \in credited[call[c].tx]
  BY CallType DEF IInv, TypeOK, IdentityIsHeld, HoldsIdentity, HandlesReceipts, StoreSteps,
                  CallsKnowWhatIsOwed

LEMMA ReceiptAcceptedStep ==
  ASSUME IInv, NEW c \in Callers, NEW tx \in Transactions, ReceiptAccepted(c, tx)
  PROVE  IInv'
<1> DEFINE local == [call[c] EXCEPT !.at = "finishing", !.tx = tx,
                                    !.info = Info(call[c].user) \union {tx}]
<1> USE DEF storeVars
<1>1. /\ call[c] \in Calls /\ call[c].user = user /\ user \in Users
      /\ call[c].at \in StoreSteps /\ pending = NoTransition /\ recovery
      /\ Owed \subseteq call[c].queue
      /\ call[c].queue \subseteq Unfinished \union Finished
      /\ tx \in call[c].queue
  BY InReceiptLoop DEF ReceiptAccepted, At
<1>2. /\ local \in Calls /\ local.at = "finishing" /\ local.tx = tx /\ local.user = user
      /\ local.queue = call[c].queue /\ local.info = Info(user) \union {tx}
  BY <1>1 DEF Calls, Steps, StoreSteps, Info
<1> HIDE DEF local
<1>3. /\ \A d \in Callers \ {c} : call'[d] = call[d]
      /\ call' \in [Callers -> Calls]
      /\ storeHolder' \in Callers \union {Nobody}
      /\ identityHolder' \in Callers \union {Nobody}
      /\ \/ call'[c] = IdleCall
         \/ call'[c] = local /\ identityHolder' = identityHolder
  <2>1. CASE Return(c)
    BY <2>1, ReturnFacts DEF IInv
  <2>2. CASE Continue(c, local)
    BY <1>2, <2>2, ContinueFacts DEF IInv
  <2>3. QED
    BY <2>1, <2>2 DEF ReceiptAccepted, local
<1>4. /\ credited' = [credited EXCEPT ![tx] = @ \union {user}]
      /\ credited \in [Transactions -> SUBSET Users]
      /\ UNCHANGED <<user, pending, recovery, cache, stage, launcher, delivered>>
  BY <1>1 DEF IInv, TypeOK, ReceiptAccepted
<1>5. /\ credited' \in [Transactions -> SUBSET Users]
      /\ credited'[tx] = credited[tx] \union {user}
      /\ \A t \in Transactions : credited[t] \subseteq credited'[t]
      /\ \A t \in Transactions \ {tx} : credited'[t] = credited[t]
      /\ Unfinished' = Unfinished /\ Finished' = Finished /\ Owed' = Owed
  BY <1>1, <1>4 DEF Unfinished, Finished, Owed
<1>6. TypeOK'
  BY <1>3, <1>4, <1>5 DEF IInv, TypeOK
<1>7. /\ IdentityIsHeld' /\ SwitchesArePrepared' /\ FetchesHaveAUser'
      /\ \A d \in Callers \ {c} :
           /\ ~HoldsIdentity(d)'
           /\ call'[d].at = "answered" =>
                call'[d].user \in Users /\ call'[d].info \subseteq Info(call[d].user)'
  BY <1>1, <1>2, <1>3, <1>4, <1>5, <1>6, SectionStep DEF IdleCall, StoreSteps
<1>8. CallsKnowWhatIsOwed'
  BY <1>1, <1>2, <1>3, <1>4, <1>5, <1>7
  DEF CallsKnowWhatIsOwed, HoldsIdentity, StoreSteps, SyncModes, IdleCall
<1>9. AnswersAreOwn'
  BY <1>1, <1>2, <1>3, <1>5, <1>7 DEF AnswersAreOwn, HoldsIdentity, StoreSteps, IdleCall, Info
<1>10. NothingBeforePurchase'
  BY <1>1, <1>4, <1>5 DEF IInv, NothingBeforePurchase
\* An owed transaction belongs to the current user, whom the receipt names.
<1>11. PurchaseCreditedToItsUser'
  BY <1>1, <1>4, <1>5 DEF IInv, PurchaseCreditedToItsUser, RecoveryArmed
<1>12. RecoveryArmed' /\ GatesNeverDeadlock'
  BY <1>4, <1>5 DEF IInv, RecoveryArmed, GatesNeverDeadlock
<1>13. CachedInfoIsOwn'
  BY <1>4, <1>5 DEF IInv, CachedInfoIsOwn, Info
<1>14. QED
  BY <1>6, <1>7, <1>8, <1>9, <1>10, <1>11, <1>12, <1>13 DEF IInv

\* Finishing tx, whether or not the call learns of it.
LEMMA FinishFacts ==
  ASSUME IInv, NEW c \in Callers, At(c, "finishing"),
         stage' = [stage EXCEPT ![call[c].tx] = "finished"],
         UNCHANGED <<launcher, delivered, credited>>
  PROVE  /\ stage' \in [Transactions -> {"absent", "deferred", "unfinished", "finished"}]
         /\ Unfinished' = Unfinished \ {call[c].tx}
         /\ Finished' = Finished \union {call[c].tx}
         /\ Owed' = Owed \ {call[c].tx}
         /\ NothingBeforePurchase' /\ PurchaseCreditedToItsUser'
<1>1. /\ call[c].tx \in Transactions /\ user \in credited[call[c].tx]
      /\ call[c].tx \in Unfinished \union Finished
  BY InReceiptLoop DEF At, Unfinished, Finished
<1>2. /\ stage' \in [Transactions -> {"absent", "deferred", "unfinished", "finished"}]
      /\ Unfinished' = Unfinished \ {call[c].tx}
      /\ Finished' = Finished \union {call[c].tx}
      /\ Owed' = Owed \ {call[c].tx}
  BY <1>1 DEF IInv, TypeOK, Unfinished, Finished, Owed
<1>3. NothingBeforePurchase'
  BY <1>1, <1>2 DEF IInv, NothingBeforePurchase
<1>4. PurchaseCreditedToItsUser'
  BY <1>1, <1>2 DEF IInv, PurchaseCreditedToItsUser, RecoveryArmed
<1>5. QED
  BY <1>2, <1>3, <1>4

LEMMA TransactionFinishedStep ==
  ASSUME IInv, NEW c \in Callers, TransactionFinished(c)
  PROVE  IInv'
<1> DEFINE local == [call[c] EXCEPT !.at = "posting", !.queue = call[c].queue \ {call[c].tx}]
<1>1. /\ call[c] \in Calls /\ call[c].user = user /\ user \in Users
      /\ call[c].at \in StoreSteps /\ call[c].at = "finishing"
      /\ pending = NoTransition /\ recovery
      /\ Owed \subseteq call[c].queue
      /\ call[c].queue \subseteq Unfinished \union Finished
      /\ call[c].tx \in call[c].queue /\ call[c].info \subseteq Info(user)
  BY InReceiptLoop DEF IInv, AnswersAreOwn, TransactionFinished, At
<1>2. /\ local \in Calls /\ local.at = "posting" /\ local.user = user
      /\ local.queue = call[c].queue \ {call[c].tx}
  BY <1>1 DEF Calls, Steps, StoreSteps
<1>3. /\ stage' \in [Transactions -> {"absent", "deferred", "unfinished", "finished"}]
      /\ Unfinished' = Unfinished \ {call[c].tx}
      /\ Finished' = Finished \union {call[c].tx}
      /\ Owed' = Owed \ {call[c].tx}
      /\ NothingBeforePurchase' /\ PurchaseCreditedToItsUser'
  BY FinishFacts DEF TransactionFinished
<1> HIDE DEF local
<1>4. /\ \A d \in Callers \ {c} : call'[d] = call[d]
      /\ call' \in [Callers -> Calls]
      /\ storeHolder' \in Callers \union {Nobody}
      /\ identityHolder' \in Callers \union {Nobody}
      /\ \/ call'[c] = IdleCall /\ call[c].queue \ {call[c].tx} = {}
         \/ call'[c] = local /\ identityHolder' = identityHolder /\ recovery'
  <2>1. CASE call[c].queue \ {call[c].tx} = {} /\ recovery' = FALSE /\ Return(c)
    BY <2>1, ReturnFacts DEF IInv
  <2>2. CASE recovery' = recovery /\ Continue(c, local)
    BY <1>1, <1>2, <2>2, ContinueFacts DEF IInv
  <2>3. QED
    BY <2>1, <2>2 DEF TransactionFinished, local
<1>5. /\ recovery' \in BOOLEAN
      /\ cache' = [cache EXCEPT ![user] = call[c].info]
      /\ UNCHANGED <<user, pending, launcher, delivered, credited>>
  BY <1>1 DEF TransactionFinished, StoreInfo, IInv, TypeOK
<1>6. TypeOK'
  BY <1>1, <1>3, <1>4, <1>5 DEF IInv, TypeOK, Calls
<1>7. /\ IdentityIsHeld' /\ SwitchesArePrepared' /\ FetchesHaveAUser'
      /\ \A d \in Callers \ {c} :
           /\ ~HoldsIdentity(d)'
           /\ call'[d].at = "answered" =>
                call'[d].user \in Users /\ call'[d].info \subseteq Info(call[d].user)'
  <2>1. \/ call'[c].at = "idle"
        \/ /\ call'[c].at \in StoreSteps \union {"fetching"}
           /\ call'[c].user = call[c].user
           /\ identityHolder' = identityHolder
    BY <1>1, <1>2, <1>4 DEF IdleCall, StoreSteps
  <2>2. \A tx \in Transactions : credited[tx] \subseteq credited'[tx]
    BY <1>5
  <2>3. QED
    BY <1>1, <1>4, <1>5, <1>6, <2>1, <2>2, SectionStep
\* What is left in the queue covers what is still owed.
<1>8. CallsKnowWhatIsOwed'
  BY <1>1, <1>2, <1>3, <1>4, <1>7
  DEF CallsKnowWhatIsOwed, HoldsIdentity, StoreSteps, SyncModes, IdleCall
<1>9. AnswersAreOwn'
  BY <1>2, <1>4, <1>5, <1>7 DEF AnswersAreOwn, HoldsIdentity, StoreSteps, IdleCall, Info
<1>10. RecoveryArmed'
  BY <1>1, <1>3, <1>4, <1>5 DEF IInv, RecoveryArmed, Owed
<1>11. GatesNeverDeadlock'
  BY <1>1, <1>5 DEF GatesNeverDeadlock
<1>12. CachedInfoIsOwn'
  BY <1>1, <1>5 DEF IInv, TypeOK, CachedInfoIsOwn, Info
<1>13. QED
  BY <1>3, <1>6, <1>7, <1>8, <1>9, <1>10, <1>11, <1>12 DEF IInv

LEMMA FinishReplyLostStep ==
  ASSUME IInv, NEW c \in Callers, FinishReplyLost(c)
  PROVE  IInv'
<1> USE DEF FinishReplyLost
<1>1. /\ call[c].at \in StoreSteps /\ pending = NoTransition /\ recovery
  BY InReceiptLoop DEF At
<1>2. /\ stage' \in [Transactions -> {"absent", "deferred", "unfinished", "finished"}]
      /\ Unfinished' = Unfinished \ {call[c].tx}
      /\ Finished' = Finished \union {call[c].tx}
      /\ Owed' = Owed \ {call[c].tx}
      /\ NothingBeforePurchase' /\ PurchaseCreditedToItsUser'
  BY FinishFacts
<1>3. /\ call'[c] = IdleCall
      /\ \A d \in Callers \ {c} : call'[d] = call[d]
      /\ call' \in [Callers -> Calls]
      /\ storeHolder' \in Callers \union {Nobody}
      /\ identityHolder' \in Callers \union {Nobody}
  BY ReturnFacts DEF IInv
<1>4. TypeOK'
  BY <1>2, <1>3 DEF IInv, TypeOK
<1>5. /\ IdentityIsHeld' /\ SwitchesArePrepared' /\ FetchesHaveAUser'
      /\ \A d \in Callers \ {c} :
           /\ ~HoldsIdentity(d)'
           /\ call'[d].at = "answered" =>
                call'[d].user \in Users /\ call'[d].info \subseteq Info(call[d].user)'
  BY <1>1, <1>3, <1>4, SectionStep DEF IdleCall, StoreSteps
<1>6. CallsKnowWhatIsOwed'
  BY <1>3, <1>5 DEF CallsKnowWhatIsOwed, HoldsIdentity, StoreSteps, SyncModes, IdleCall
<1>7. AnswersAreOwn'
  BY <1>3, <1>5 DEF AnswersAreOwn, HoldsIdentity, StoreSteps, IdleCall, Info
<1>8. RecoveryArmed'
  BY <1>2 DEF IInv, RecoveryArmed
<1>9. GatesNeverDeadlock' /\ CachedInfoIsOwn'
  BY DEF IInv, GatesNeverDeadlock, CachedInfoIsOwn, Info
<1>10. QED
  BY <1>2, <1>4, <1>5, <1>6, <1>7, <1>8, <1>9 DEF IInv

LEMMA BackendAnswersFetchStep ==
  ASSUME IInv, NEW c \in Callers, BackendAnswersFetch(c)
  PROVE  IInv'
<1> DEFINE local == [call[c] EXCEPT !.at = "answered", !.info = Info(call[c].user)]
<1> USE DEF storeVars
<1>1. call[c] \in Calls /\ call[c].at = "fetching" /\ call[c].user \in Users
  BY CallType DEF IInv, FetchesHaveAUser, BackendAnswersFetch, At
<1>2. /\ local \in Calls /\ local.at = "answered" /\ local.user = call[c].user
      /\ local.mode = call[c].mode /\ local.info = Info(local.user)
  BY <1>1 DEF Calls, Steps, Info
<1>3. /\ call'[c] = local
      /\ \A d \in Callers \ {c} : call'[d] = call[d]
      /\ call' \in [Callers -> Calls]
      /\ storeHolder' \in Callers \union {Nobody}
      /\ identityHolder' \in Callers \union {Nobody}
      /\ identityHolder' = identityHolder
  BY <1>2, ContinueFacts DEF IInv, BackendAnswersFetch
<1>4. UNCHANGED <<user, pending, recovery, cache, stage, launcher, delivered, credited>>
  BY DEF BackendAnswersFetch
<1> HIDE DEF local
<1>5. TypeOK'
  BY <1>3, <1>4 DEF IInv, TypeOK
<1>6. IdentityIsHeld'
  BY <1>1, <1>2, <1>3, <1>4 DEF IInv, IdentityIsHeld, HoldsIdentity, HandlesReceipts, StoreSteps
<1>7. CallsKnowWhatIsOwed'
  BY <1>1, <1>2, <1>3, <1>4 DEF IInv, CallsKnowWhatIsOwed, Owed, Unfinished, Finished
<1>8. SwitchesArePrepared' /\ FetchesHaveAUser'
  BY <1>2, <1>3, <1>4 DEF IInv, SwitchesArePrepared, FetchesHaveAUser, At
<1>9. AnswersAreOwn'
  BY <1>1, <1>2, <1>3, <1>4 DEF IInv, AnswersAreOwn, Info
<1>10. NothingBeforePurchase' /\ PurchaseCreditedToItsUser' /\ RecoveryArmed'
  BY <1>4 DEF IInv, NothingBeforePurchase, PurchaseCreditedToItsUser, RecoveryArmed,
              Unfinished, Finished
<1>11. GatesNeverDeadlock' /\ CachedInfoIsOwn'
  BY <1>4 DEF IInv, GatesNeverDeadlock, CachedInfoIsOwn, Info
<1>12. QED
  BY <1>5, <1>6, <1>7, <1>8, <1>9, <1>10, <1>11 DEF IInv

\* The answer to a synchronization of an empty store ends recovery: nothing
\* was owed when the query was answered, and nothing can be since.
LEMMA FetchStoredStep ==
  ASSUME IInv, NEW c \in Callers, FetchStored(c)
  PROVE  IInv'
<1>1. /\ call[c] \in Calls /\ call[c].at = "answered" /\ call[c].user \in Users
      /\ call[c].info \subseteq Info(call[c].user)
  BY CallType DEF IInv, AnswersAreOwn, FetchStored, At
<1>2. /\ call'[c] = IdleCall
      /\ \A d \in Callers \ {c} : call'[d] = call[d]
      /\ call' \in [Callers -> Calls]
      /\ storeHolder' \in Callers \union {Nobody}
      /\ identityHolder' \in Callers \union {Nobody}
      /\ \A d \in Callers \ {c} : identityHolder = d => identityHolder' = d
  BY ReturnFacts DEF IInv, FetchStored
<1>3. /\ UNCHANGED <<user, pending, stage, launcher, delivered, credited>>
      /\ cache' = [cache EXCEPT ![call[c].user] = call[c].info]
      /\ recovery' \in BOOLEAN /\ recovery \in BOOLEAN
  BY DEF IInv, TypeOK, FetchStored, StoreInfo, storeVars
<1>4. recovery' = recovery \/ (recovery' = FALSE /\ call[c].mode \in SyncModes)
  BY DEF IInv, TypeOK, FetchStored
<1>5. TypeOK'
  BY <1>1, <1>2, <1>3 DEF IInv, TypeOK, Calls
<1>6. IdentityIsHeld'
  BY <1>2, <1>3 DEF IInv, IdentityIsHeld, HoldsIdentity, HandlesReceipts, IdleCall, StoreSteps
<1>7. /\ CallsKnowWhatIsOwed' /\ SwitchesArePrepared' /\ FetchesHaveAUser' /\ AnswersAreOwn'
      /\ RecoveryArmed' /\ GatesNeverDeadlock'
  <2>1. CASE recovery' = recovery
    <3>1. CallsKnowWhatIsOwed'
      BY <1>2, <1>3, <2>1 DEF IInv, CallsKnowWhatIsOwed, IdleCall, Owed, Unfinished, Finished
    <3>2. SwitchesArePrepared' /\ FetchesHaveAUser' /\ AnswersAreOwn'
      BY <1>2, <1>3, <2>1
      DEF IInv, SwitchesArePrepared, FetchesHaveAUser, AnswersAreOwn, IdleCall, Info, At
    <3>3. RecoveryArmed' /\ GatesNeverDeadlock'
      BY <1>3, <2>1 DEF IInv, RecoveryArmed, GatesNeverDeadlock, Unfinished
    <3>4. QED
      BY <3>1, <3>2, <3>3
  <2>2. CASE recovery' = FALSE /\ call[c].mode \in SyncModes
    <3>1. Owed = {} /\ HoldsIdentity(c)
      BY <1>1, <2>2 DEF IInv, CallsKnowWhatIsOwed, HoldsIdentity, SyncModes
    <3>2. \A d \in Callers \ {c} : ~HoldsIdentity(d) /\ ~HandlesReceipts(d) /\ ~At(d, "switching")
      BY <3>1, OthersWait
    <3>3. CallsKnowWhatIsOwed'
      BY <1>2, <3>2 DEF CallsKnowWhatIsOwed, HandlesReceipts, StoreSteps, IdleCall
    <3>4. SwitchesArePrepared' /\ FetchesHaveAUser' /\ AnswersAreOwn'
      BY <1>2, <1>3, <3>2
      DEF IInv, SwitchesArePrepared, FetchesHaveAUser, AnswersAreOwn, IdleCall, Info, At
    <3>5. RecoveryArmed' /\ GatesNeverDeadlock'
      BY <1>3, <2>2, <3>1 DEF RecoveryArmed, GatesNeverDeadlock, Owed, Unfinished
    <3>6. QED
      BY <3>3, <3>4, <3>5
  <2>3. QED
    BY <1>4, <2>1, <2>2
<1>8. NothingBeforePurchase' /\ PurchaseCreditedToItsUser'
  BY <1>3 DEF IInv, NothingBeforePurchase, PurchaseCreditedToItsUser, Unfinished, Finished
<1>9. CachedInfoIsOwn'
  BY <1>1, <1>3 DEF IInv, TypeOK, CachedInfoIsOwn, Info
<1>10. QED
  BY <1>5, <1>6, <1>7, <1>8, <1>9 DEF IInv

LEMMA SwitchCommittedStep ==
  ASSUME IInv, NEW c \in Callers, SwitchCommitted(c)
  PROVE  IInv'
<1>1. /\ call[c] \in Calls /\ call[c].target \in Users /\ ~recovery
      /\ HoldsIdentity(c)
  BY CallType DEF IInv, SwitchesArePrepared, SwitchCommitted, HoldsIdentity, At
<1>2. \A d \in Callers \ {c} : ~HoldsIdentity(d) /\ ~HandlesReceipts(d) /\ ~At(d, "switching")
  BY <1>1, OthersWait
<1>3. /\ call'[c] = IdleCall
      /\ \A d \in Callers \ {c} : call'[d] = call[d]
      /\ call' \in [Callers -> Calls]
      /\ storeHolder' \in Callers \union {Nobody}
      /\ identityHolder' \in Callers \union {Nobody}
  BY ReturnFacts DEF IInv, SwitchCommitted
<1>4. /\ UNCHANGED <<recovery, stage, launcher, delivered, credited>>
      /\ user' = call[c].target
      /\ pending' \in {pending, NoTransition}
      /\ cache' = [u \in Users |-> IF u = call[c].target THEN Info(call[c].target) ELSE NoInfo]
  BY DEF SwitchCommitted, ClearTransition, ResetCacheTo, storeVars
<1>5. TypeOK'
  BY <1>1, <1>3, <1>4 DEF IInv, TypeOK, Info
<1>6. IdentityIsHeld'
  BY <1>2, <1>3 DEF IdentityIsHeld, HoldsIdentity, HandlesReceipts, IdleCall, StoreSteps
<1>7. CallsKnowWhatIsOwed'
  BY <1>2, <1>3 DEF CallsKnowWhatIsOwed, HandlesReceipts, StoreSteps, IdleCall
<1>8. SwitchesArePrepared' /\ FetchesHaveAUser' /\ AnswersAreOwn'
  BY <1>2, <1>3, <1>4 DEF IInv, SwitchesArePrepared, FetchesHaveAUser, AnswersAreOwn, IdleCall, Info, At
<1>9. NothingBeforePurchase' /\ PurchaseCreditedToItsUser'
  BY <1>4 DEF IInv, NothingBeforePurchase, PurchaseCreditedToItsUser, Unfinished, Finished
\* Recovery is over, so nothing is owed to the user who leaves.
<1>10. RecoveryArmed' /\ GatesNeverDeadlock'
  BY <1>1, <1>4 DEF IInv, RecoveryArmed, GatesNeverDeadlock, Unfinished
<1>11. CachedInfoIsOwn'
  BY <1>4 DEF CachedInfoIsOwn, Info
<1>12. QED
  BY <1>5, <1>6, <1>7, <1>8, <1>9, <1>10, <1>11 DEF IInv

LEMMA AnsweredStep ==
  ASSUME IInv, NEW c \in Callers, Answered(c)
  PROVE  IInv'
<1>1. CASE CallFails(c)
  BY <1>1, QuietReturn DEF CallFails
<1>2. QED
  BY <1>1, StoreDeliversStep, StoreDefersStep, ReceiptAcceptedStep, StoreAnswersQueryStep,
     TransactionFinishedStep, FinishReplyLostStep, BackendAnswersFetchStep, FetchStoredStep,
     SwitchCommittedStep
  DEF Answered

-----------------------------------------------------------------------------
(* The world outside a call *)

\* What changes neither the calls nor the SDK's flags: transactions that were
\* not delivered may become purchased, or disappear before they are.
LEMMA EnvironmentStep ==
  ASSUME IInv, Environment
  PROVE  IInv'
<1>1. CASE InvalidateCache
  <2>1. TypeOK' /\ CachedInfoIsOwn'
    BY <1>1 DEF IInv, TypeOK, CachedInfoIsOwn, Info, InvalidateCache, storeVars
  <2>2. IdentityIsHeld' /\ CallsKnowWhatIsOwed' /\ SwitchesArePrepared'
    BY <1>1 DEF IInv, IdentityIsHeld, HoldsIdentity, HandlesReceipts, CallsKnowWhatIsOwed,
                SwitchesArePrepared, Owed, Unfinished, Finished, At, InvalidateCache, storeVars
  <2>3. AnswersAreOwn' /\ FetchesHaveAUser'
    BY <1>1 DEF IInv, AnswersAreOwn, FetchesHaveAUser, Info, At, InvalidateCache
  <2>4. /\ NothingBeforePurchase' /\ PurchaseCreditedToItsUser'
        /\ RecoveryArmed' /\ GatesNeverDeadlock'
    BY <1>1 DEF IInv, NothingBeforePurchase, PurchaseCreditedToItsUser, RecoveryArmed,
                GatesNeverDeadlock, Unfinished, Finished, InvalidateCache, storeVars
  <2>5. QED
    BY <2>1, <2>2, <2>3, <2>4 DEF IInv
<1>2. ASSUME NEW tx \in Transactions, OutOfBandPurchase(tx) \/ DeferredPaymentSettles(tx)
      PROVE  IInv'
  <2>1. /\ UNCHANGED <<user, pending, recovery, storeHolder, identityHolder, cache, call,
                       delivered, credited>>
        /\ tx \notin Unfinished \union Finished /\ ~delivered[tx] /\ credited[tx] = {}
        /\ stage' \in [Transactions -> {"absent", "deferred", "unfinished", "finished"}]
        /\ launcher' \in [Transactions -> Users \union {NoUser}]
        /\ \A t \in Transactions \ {tx} : stage'[t] = stage[t] /\ launcher'[t] = launcher[t]
        /\ stage'[tx] # "finished"
    BY <1>2 DEF IInv, TypeOK, NothingBeforePurchase, OutOfBandPurchase, DeferredPaymentSettles,
                sdkVars, Unfinished, Finished
  <2>2. /\ Unfinished \subseteq Unfinished' /\ Unfinished' \subseteq Unfinished \union {tx}
        /\ Finished' = Finished /\ Owed' = Owed
    BY <2>1 DEF Unfinished, Finished, Owed
  <2>3. TypeOK' /\ CachedInfoIsOwn' /\ GatesNeverDeadlock'
    BY <2>1 DEF IInv, TypeOK, CachedInfoIsOwn, GatesNeverDeadlock, Info
  <2>4. IdentityIsHeld' /\ SwitchesArePrepared'
    BY <2>1 DEF IInv, IdentityIsHeld, HoldsIdentity, HandlesReceipts, SwitchesArePrepared, At
  <2>5. CallsKnowWhatIsOwed'
    BY <2>1, <2>2 DEF IInv, CallsKnowWhatIsOwed
  <2>6. AnswersAreOwn' /\ FetchesHaveAUser'
    BY <2>1 DEF IInv, AnswersAreOwn, FetchesHaveAUser, Info, At
  <2>7. NothingBeforePurchase' /\ PurchaseCreditedToItsUser' /\ RecoveryArmed'
    <3>1. NothingBeforePurchase'
      BY <2>1, <2>2 DEF IInv, NothingBeforePurchase
    <3>2. \A t \in Unfinished' : delivered'[t] => t \in Unfinished /\ delivered[t] /\ t # tx
      BY <2>1, <2>2
    <3>3. PurchaseCreditedToItsUser'
      BY <2>1, <2>2, <3>2 DEF IInv, PurchaseCreditedToItsUser
    <3>4. RecoveryArmed'
      BY <2>1, <3>2 DEF IInv, RecoveryArmed, Unfinished
    <3>5. QED
      BY <3>1, <3>3, <3>4
  <2>8. QED
    BY <2>3, <2>4, <2>5, <2>6, <2>7 DEF IInv
<1>3. QED
  BY <1>1, <1>2 DEF Environment

-----------------------------------------------------------------------------
(* The invariant *)

LEMMA InitInv == Init => IInv
<1> SUFFICES ASSUME Init PROVE IInv
  OBVIOUS
<1> USE DEF Init
<1>1. TypeOK
  BY IdleCallType DEF TypeOK
<1>2. \A c \in Callers : call[c].at = "idle"
  BY DEF IdleCall
<1>3. IdentityIsHeld /\ CallsKnowWhatIsOwed /\ SwitchesArePrepared
  BY <1>2 DEF IdentityIsHeld, HoldsIdentity, HandlesReceipts, StoreSteps, CallsKnowWhatIsOwed,
              SwitchesArePrepared, At
<1>4. AnswersAreOwn /\ FetchesHaveAUser
  BY <1>2 DEF AnswersAreOwn, FetchesHaveAUser, At
<1>5. NothingBeforePurchase /\ PurchaseCreditedToItsUser /\ RecoveryArmed
  BY DEF NothingBeforePurchase, PurchaseCreditedToItsUser, RecoveryArmed, Unfinished
<1>6. GatesNeverDeadlock /\ CachedInfoIsOwn
  BY DEF GatesNeverDeadlock, CachedInfoIsOwn
<1>7. QED
  BY <1>1, <1>3, <1>4, <1>5, <1>6 DEF IInv

LEMMA StutterInv ==
  ASSUME IInv, UNCHANGED vars
  PROVE  IInv'
<1> USE DEF vars, IInv
<1>1. TypeOK'
  BY DEF TypeOK
<1>2. IdentityIsHeld' /\ CallsKnowWhatIsOwed' /\ SwitchesArePrepared'
  BY DEF IdentityIsHeld, HoldsIdentity, HandlesReceipts, CallsKnowWhatIsOwed,
         SwitchesArePrepared, Owed, Unfinished, Finished, At
<1>3. AnswersAreOwn' /\ FetchesHaveAUser' /\ CachedInfoIsOwn'
  BY DEF AnswersAreOwn, FetchesHaveAUser, CachedInfoIsOwn, Info, At
<1>4. /\ NothingBeforePurchase' /\ PurchaseCreditedToItsUser'
      /\ RecoveryArmed' /\ GatesNeverDeadlock'
  BY DEF NothingBeforePurchase, PurchaseCreditedToItsUser, RecoveryArmed,
         GatesNeverDeadlock, Unfinished, Finished
<1>5. QED
  BY <1>1, <1>2, <1>3, <1>4

LEMMA NextInv == IInv /\ [Next]_vars => IInv'
<1> SUFFICES ASSUME IInv, [Next]_vars PROVE IInv'
  OBVIOUS
<1>1. ASSUME NEW c \in Callers, CallDropped(c)
      PROVE  IInv'
  BY <1>1, QuietReturn DEF CallDropped
<1>2. CASE UNCHANGED vars
  BY <1>2, StutterInv
<1>3. QED
  BY <1>1, <1>2, BeginStep, SyncHoldsStoreStep, IdentityGrantedStep, AnsweredStep, EnvironmentStep
  DEF Next

\* The invariant holds in every reachable state.
THEOREM Invariance == Spec => []IInv
<1>1. QED
  BY InitInv, NextInv, PTL DEF Spec

\* Every variable keeps its type.
THEOREM TypeCorrect == Spec => []TypeOK
<1>1. IInv => TypeOK
  BY DEF IInv
<1>2. QED
  BY <1>1, Invariance, PTL

\* A purchase that its caller saw is credited to the user who launched it.
THEOREM AttributionCorrect == Spec => []PurchaseCreditedToItsUser
<1>1. IInv => PurchaseCreditedToItsUser
  BY DEF IInv
<1>2. QED
  BY <1>1, Invariance, PTL

\* While such a purchase is unfinished recovery is armed and its user stays.
THEOREM RecoveryCorrect == Spec => []RecoveryArmed
<1>1. IInv => RecoveryArmed
  BY DEF IInv
<1>2. QED
  BY <1>1, Invariance, PTL

\* Recovery and a marked identity transition never block each other.
THEOREM GatesCorrect == Spec => []GatesNeverDeadlock
<1>1. IInv => GatesNeverDeadlock
  BY DEF IInv
<1>2. QED
  BY <1>1, Invariance, PTL

\* The cache never shows a user what was credited to another.
THEOREM CacheCorrect == Spec => []CachedInfoIsOwn
<1>1. IInv => CachedInfoIsOwn
  BY DEF IInv
<1>2. QED
  BY <1>1, Invariance, PTL

-----------------------------------------------------------------------------
(* Action properties *)

LEMMA TransitionStep ==
  ASSUME IInv, [Next]_vars, pending # NoTransition
  PROVE  \/ pending' = pending /\ user' = user
         \/ pending' = NoTransition /\ user' = pending.target
<1>1. ASSUME NEW c \in Callers, Begin(c) \/ SyncHoldsStore(c) \/ CallDropped(c)
      PROVE  pending' = pending /\ user' = user
  BY <1>1 DEF Begin, StartPurchase, StartSync, StartLogIn, StartLogOut, StartRead,
              SyncHoldsStore, CallDropped
<1>2. ASSUME NEW c \in Callers, LogInPrepares(c) \/ LogOutPrepares(c)
      PROVE  pending' = pending /\ user' = user
  BY <1>2 DEF LogInPrepares, LogOutPrepares, TransitionAllowed, MarkTransition
<1>3. ASSUME NEW c \in Callers, LogInAgain(c)
      PROVE  user' = user /\ (pending' = pending \/ (pending' = NoTransition /\ user = pending.target))
  BY <1>3 DEF LogInAgain, TransitionAllowed, ClearTransition
<1>4. ASSUME NEW c \in Callers, SwitchCommitted(c)
      PROVE  pending' = NoTransition /\ user' = pending.target
  BY <1>4 DEF IInv, SwitchesArePrepared, SwitchCommitted, ClearTransition
<1>5. ASSUME NEW c \in Callers,
             PurchaseEntersStore(c) \/ SyncQueries(c) \/ Refused(c) \/ ReadSettles(c)
      PROVE  pending' = pending /\ user' = user
  BY <1>5 DEF PurchaseEntersStore, SyncQueries, Refused, ReadSettles
<1>6. ASSUME NEW c \in Callers, Answered(c), ~SwitchCommitted(c)
      PROVE  pending' = pending /\ user' = user
  BY <1>6 DEF Answered, StoreDelivers, StoreDefers, ReceiptAccepted, StoreAnswersQuery,
              TransactionFinished, FinishReplyLost, BackendAnswersFetch, FetchStored, CallFails
<1>7. CASE Environment \/ UNCHANGED vars
  BY <1>7 DEF Environment, InvalidateCache, OutOfBandPurchase, DeferredPaymentSettles, sdkVars, vars
<1>8. QED
  BY <1>1, <1>2, <1>3, <1>4, <1>5, <1>6, <1>7 DEF Next, IdentityGranted

\* A marked transition is only resolved by switching to its target.
THEOREM TransitionsComplete == Spec => TransitionOnlyCompletes
<1>1. IInv /\ [Next]_vars =>
        [pending # NoTransition =>
           \/ pending' = pending /\ user' = user
           \/ pending' = NoTransition /\ user' = pending.target]_vars
  BY TransitionStep
<1>2. QED
  BY <1>1, Invariance, PTL DEF Spec, TransitionOnlyCompletes

\* Who is credited changes only through a post from the receipt loop.
LEMMA CreditStep ==
  ASSUME IInv, [Next]_vars
  PROVE  \/ credited' = credited
         \/ \E c \in Callers, tx \in Transactions : ReceiptAccepted(c, tx)
<1>1. ASSUME NEW c \in Callers, Begin(c) \/ SyncHoldsStore(c) \/ CallDropped(c)
      PROVE  credited' = credited
  BY <1>1 DEF Begin, StartPurchase, StartSync, StartLogIn, StartLogOut, StartRead,
              SyncHoldsStore, CallDropped
<1>2. ASSUME NEW c \in Callers, IdentityGranted(c)
      PROVE  credited' = credited
  BY <1>2 DEF IdentityGranted, PurchaseEntersStore, SyncQueries, LogInPrepares, LogInAgain,
              LogOutPrepares, Refused, ReadSettles
<1>3. ASSUME NEW c \in Callers, Answered(c), credited' # credited
      PROVE  \E tx \in Transactions : ReceiptAccepted(c, tx)
  BY <1>3 DEF Answered, StoreDelivers, StoreDefers, StoreAnswersQuery, TransactionFinished,
              FinishReplyLost, BackendAnswersFetch, FetchStored, SwitchCommitted, CallFails
<1>4. CASE Environment \/ UNCHANGED vars
  BY <1>4 DEF Environment, InvalidateCache, OutOfBandPurchase, DeferredPaymentSettles, vars
<1>5. QED
  BY <1>1, <1>2, <1>3, <1>4 DEF Next

\* Nothing is posted while an identity transition is marked.
THEOREM ReceiptsFailClosed == Spec => NoReceiptDuringTransition
<1>1. IInv /\ [Next]_vars => [pending # NoTransition => credited' = credited]_vars
  <2> SUFFICES ASSUME IInv, [Next]_vars, pending # NoTransition PROVE credited' = credited
    OBVIOUS
  <2>1. ASSUME NEW c \in Callers, NEW tx \in Transactions, ReceiptAccepted(c, tx)
        PROVE  FALSE
    BY <2>1, InReceiptLoop DEF ReceiptAccepted, At
  <2>2. QED
    BY <2>1, CreditStep
<1>2. QED
  BY <1>1, Invariance, PTL DEF Spec, NoReceiptDuringTransition

-----------------------------------------------------------------------------
(* Refinement of ReceiptLedger *)

\* Steps that leave the store and the credits alone do not show in the ledger.
LEMMA LedgerStutter ==
  ASSUME UNCHANGED <<stage, launcher, delivered, credited>>
  PROVE  UNCHANGED Ledger!ledgerVars
  BY DEF Ledger!ledgerVars, Finished

LEMMA LedgerDelivery ==
  ASSUME IInv, NEW c \in Callers, NEW tx \in Transactions, StoreDelivers(c, tx)
  PROVE  [Ledger!LedgerNext]_(Ledger!ledgerVars)
<1> DEFINE owner == [t \in Transactions |-> IF delivered[t] THEN launcher[t] ELSE NoUser]
<1>1. /\ call[c].user \in Users
      /\ UNCHANGED credited
  BY DEF IInv, TypeOK, IdentityIsHeld, HoldsIdentity, StoreSteps, StoreDelivers, At
<1>2. \A t \in Transactions \ {tx} :
         stage'[t] = stage[t] /\ delivered'[t] = delivered[t] /\ launcher'[t] = launcher[t]
  BY DEF IInv, TypeOK, StoreDelivers
<1>3. Finished' = Finished
  BY <1>2 DEF IInv, TypeOK, StoreDelivers, Finished
<1>4. CASE stage[tx] \in {"absent", "deferred"} /\ launcher'[tx] = call[c].user
  <2>1. /\ credited[tx] = {} /\ tx \notin Finished
        /\ owner[tx] = NoUser /\ owner' = [owner EXCEPT ![tx] = call[c].user]
    BY <1>2, <1>4 DEF IInv, TypeOK, NothingBeforePurchase, StoreDelivers, Unfinished, Finished
  <2>2. PICK u \in Users : u = call[c].user
    BY <1>1
  <2>3. Ledger!Deliver(tx, u)
    BY <1>1, <1>3, <2>1, <2>2 DEF Ledger!Deliver
  <2>4. QED
    BY <2>3 DEF Ledger!LedgerNext
<1>5. CASE ~(stage[tx] \in {"absent", "deferred"} /\ launcher'[tx] = call[c].user)
  <2>1. owner' = owner
    BY <1>2, <1>5 DEF IInv, TypeOK, NothingBeforePurchase, StoreDelivers, Unfinished, Finished
  <2>2. QED
    BY <1>1, <1>3, <2>1 DEF Ledger!ledgerVars
<1>6. QED
  BY <1>4, <1>5

LEMMA LedgerCredit ==
  ASSUME IInv, NEW c \in Callers, NEW tx \in Transactions, ReceiptAccepted(c, tx)
  PROVE  [Ledger!LedgerNext]_(Ledger!ledgerVars)
<1>1. /\ call[c].user = user /\ user \in Users /\ tx \in Unfinished \union Finished
      /\ UNCHANGED <<stage, launcher, delivered>>
      /\ credited' = [credited EXCEPT ![tx] = @ \union {user}]
  BY InReceiptLoop DEF ReceiptAccepted, At, storeVars
<1>2. tx \in Finished \/ ~delivered[tx] \/ launcher[tx] = user
  BY <1>1 DEF IInv, RecoveryArmed
<1>3. Ledger!Credit(tx, user)
  BY <1>1, <1>2 DEF Ledger!Credit, Finished
<1>4. QED
  BY <1>1, <1>3 DEF Ledger!LedgerNext

LEMMA LedgerFinish ==
  ASSUME IInv, NEW c \in Callers, TransactionFinished(c) \/ FinishReplyLost(c)
  PROVE  [Ledger!LedgerNext]_(Ledger!ledgerVars)
<1> DEFINE tx == call[c].tx
<1>1. /\ At(c, "finishing")
      /\ stage' = [stage EXCEPT ![tx] = "finished"]
      /\ UNCHANGED <<launcher, delivered, credited>>
  BY DEF TransactionFinished, FinishReplyLost
<1>2. /\ tx \in Transactions /\ user \in credited[tx]
      /\ tx \in Unfinished \union Finished
  BY <1>1, InReceiptLoop DEF At, Unfinished, Finished
<1>3. ~delivered[tx] \/ launcher[tx] \in credited[tx]
  BY <1>2 DEF IInv, PurchaseCreditedToItsUser, RecoveryArmed
<1>4. Finished' = Finished \union {tx}
  BY <1>1, FinishFacts
<1>5. PICK t \in Transactions : t = tx
  BY <1>2
<1>6. Ledger!Close(t)
  BY <1>1, <1>2, <1>3, <1>4, <1>5 DEF Ledger!Close
<1>7. QED
  BY <1>6 DEF Ledger!LedgerNext

\* What the store does on its own concerns transactions nobody owns yet.
LEMMA LedgerStoreStep ==
  ASSUME IInv, NEW tx \in Transactions,
         \/ OutOfBandPurchase(tx) \/ DeferredPaymentSettles(tx)
         \/ \E c \in Callers : StoreDefers(c, tx)
  PROVE  UNCHANGED Ledger!ledgerVars
<1>1. /\ UNCHANGED <<delivered, credited>> /\ ~delivered[tx]
      /\ Finished' = Finished
      /\ \A t \in Transactions \ {tx} : launcher'[t] = launcher[t]
  BY DEF IInv, TypeOK, NothingBeforePurchase, OutOfBandPurchase, DeferredPaymentSettles,
         StoreDefers, Unfinished, Finished
<1>2. QED
  BY <1>1 DEF Ledger!ledgerVars

\* The SDK implements the ledger, for any number of callers, users and
\* transactions.
THEOREM LedgerRefined == Spec => ImplementsReceiptLedger
<1>1. Init => Ledger!LedgerInit
  BY DEF Init, Ledger!LedgerInit, Finished
<1>2. IInv /\ [Next]_vars => [Ledger!LedgerNext]_(Ledger!ledgerVars)
  <2> SUFFICES ASSUME IInv, [Next]_vars PROVE [Ledger!LedgerNext]_(Ledger!ledgerVars)
    OBVIOUS
  <2>1. ASSUME NEW c \in Callers,
               Begin(c) \/ SyncHoldsStore(c) \/ IdentityGranted(c) \/ CallDropped(c)
        PROVE  UNCHANGED <<stage, launcher, delivered, credited>>
    BY <2>1 DEF Begin, StartPurchase, StartSync, StartLogIn, StartLogOut, StartRead,
                SyncHoldsStore, CallDropped, IdentityGranted, PurchaseEntersStore, SyncQueries,
                LogInPrepares, LogInAgain, LogOutPrepares, Refused, ReadSettles, storeVars
  <2>2. ASSUME NEW c \in Callers,
               StoreAnswersQuery(c) \/ BackendAnswersFetch(c) \/ FetchStored(c)
                 \/ SwitchCommitted(c) \/ CallFails(c)
        PROVE  UNCHANGED <<stage, launcher, delivered, credited>>
    BY <2>2 DEF StoreAnswersQuery, BackendAnswersFetch, FetchStored, SwitchCommitted, CallFails,
                storeVars
  <2>3. CASE InvalidateCache \/ UNCHANGED vars
    BY <2>3, LedgerStutter DEF InvalidateCache, storeVars, vars
  <2>4. QED
    BY <2>1, <2>2, <2>3, LedgerStutter, LedgerDelivery, LedgerCredit, LedgerFinish, LedgerStoreStep
    DEF Next, Answered, Environment
<1>3. QED
  BY <1>1, <1>2, Invariance, PTL DEF Spec, ImplementsReceiptLedger, Ledger!LedgerSpec
=============================================================================

---------------------------- MODULE GuestSyncProofs ----------------------------
(* Theorems about GuestSync, for any set of callers, any number of attempts   *)
(* and events and either store: the types, and the three safety properties,   *)
(* by the invariant IInv.  And about the connection to Play beside it         *)
(* (BillingConnection), for any requests and delays: its invariant.           *)
EXTENDS MCGuestSync, FiniteSetTheorems, SequenceTheorems, TLAPS

LEMMA NoSyncType == NoSync \in Syncs
  BY AttemptsAssumption, SMT DEF NoSync, Syncs

\* The state at the start has its types...
LEMMA InitTypeOK == Init => TypeOK
<1>1. NoSync \in Syncs
  BY NoSyncType
<1>2. IdleCall \in Calls
  BY DEF IdleCall, Calls
<1>3. 0 \in 0..MaxEvents
  BY MaxEventsAssumption, SMT
<1> QED
  BY <1>1, <1>2, <1>3, Zenon DEF Init, TypeOK

\* ... and satisfies the rest of the invariant.
LEMMA InitIInv == Init => IInv
<1>1. Init => WorkNeedsRecovery /\ RequestsAreCarried /\ LateDebtsAreRequested
  BY DEF Init, WorkNeedsRecovery, RequestsAreCarried, LateDebtsAreRequested, NoSync
<1>2. Init => NothingForgotten /\ PurchaseNeverMeetsSync
  BY DEF Init, NothingForgotten, PurchaseNeverMeetsSync, NoSync
<1> QED
  BY <1>1, <1>2, InitTypeOK DEF IInv

-----------------------------------------------------------------------------
(* The types *)

\* A call that moves on, ends or is released is still a call.
LEMMA CallsKeepTheirType ==
  ASSUME TypeOK, NEW c \in Callers
  PROVE  /\ \A kind \in Kinds \union {"none"} :
              \A step \in {"configuring", "listening", "waiting", "invoked"} :
                Enters(c, step, kind) => call' \in [Callers -> Calls]
         /\ Ends(c) => call' \in [Callers -> Calls]
  BY DEF TypeOK, Enters, Ends, Calls, IdleCall

LEMMA ReleasedType == TypeOK => Released \in [Callers -> Calls]
<1> SUFFICES ASSUME TypeOK, NEW c \in Callers, call[c].at = "waiting"
             PROVE  [call[c] EXCEPT !.at = "checking"] \in Calls
  BY DEF TypeOK, Released
<1> QED
  BY DEF TypeOK, Calls

\* The loop starts a round, or a request is left to it.
LEMMA RoundType ==
  ASSUME NEW all \in BOOLEAN, NEW debts, debts \subseteq Debts, Round(all, debts)
  PROVE  /\ requested' \in BOOLEAN /\ full' \in BOOLEAN
         /\ sync' \in Syncs
         /\ taken' \subseteq debts
<1>1. sync' \in Syncs
  BY AttemptsAssumption, SMT DEF Round, Syncs
<1> QED
  BY <1>1 DEF Round, Covered

LEMMA RequestType ==
  ASSUME TypeOK, NEW all \in BOOLEAN, NEW free \in BOOLEAN, NEW debts \in SUBSET Debts,
         Request(all, free, debts)
  PROVE  /\ requested' \in BOOLEAN /\ full' \in BOOLEAN
         /\ sync' \in Syncs
         /\ owed' \subseteq Debts /\ taken' \subseteq owed'
<1>1. CASE free /\ Round(full \/ all, owed \union debts)
  BY <1>1, RoundType DEF TypeOK, Request
<1>2. CASE ~free /\ UNCHANGED sync
  BY <1>2 DEF TypeOK, Request
<1> QED
  BY <1>1, <1>2 DEF Request

-----------------------------------------------------------------------------
(* Every step keeps the types. *)

LEMMA SyncStepsKeepTypes ==
  ASSUME TypeOK, SyncAnswered \/ PauseEnds \/ Reported \/ TimerFires
  PROVE  TypeOK'
<1> USE DEF TypeOK
<1>1. CASE AttemptFails
  <2>1. sync.attempt + 1 \in 1..Attempts
    BY <1>1, AttemptsAssumption, SMT DEF AttemptFails, Syncs
  <2>2. sync' \in Syncs
    BY <1>1, <2>1 DEF AttemptFails, Syncs
  <2> QED
    BY <1>1, <2>2 DEF AttemptFails, flags
<1>2. CASE SyncGivesUp
  <2>1. sync' \in Syncs /\ retryFull' \in BOOLEAN
    BY <1>2 DEF SyncGivesUp, Syncs
  <2> QED
    BY <1>2, <2>1 DEF SyncGivesUp
<1>3. CASE SyncSucceeds
  <2>1. StillNeedsFull(sync.all) \in BOOLEAN
    BY DEF StillNeedsFull
  <2>2. owed' \subseteq Debts /\ timer' \in BOOLEAN /\ retryFull' \in BOOLEAN
        /\ recovery' \in BOOLEAN
    BY <1>3, <2>1 DEF SyncSucceeds, RecoveryAfter
  <2>3. CASE requested \/ StillNeedsFull(sync.all)
    <3>1. Round(full \/ StillNeedsFull(sync.all), owed')
      BY <1>3, <2>3 DEF SyncSucceeds
    <3> QED
      BY <1>3, <2>2, <2>3, <3>1, RoundType, <2>1 DEF SyncSucceeds
  <2>4. CASE ~(requested \/ StillNeedsFull(sync.all))
    <3>1. sync' \in Syncs
      BY <1>3, <2>4, NoSyncType DEF SyncSucceeds
    <3>2. call' \in [Callers -> Calls]
      BY <1>3, <2>4, ReleasedType DEF SyncSucceeds
    <3> QED
      BY <1>3, <2>2, <2>4, <3>1, <3>2 DEF SyncSucceeds
  <2> QED
    BY <2>3, <2>4
<1>4. CASE PauseEnds
  BY <1>4 DEF PauseEnds, Syncs, flags, Covered
<1>5. CASE Reported
  <2>1. call' \in [Callers -> Calls]
    BY <1>5, ReleasedType DEF Reported
  <2>2. CASE requested /\ explicit = {}
    BY <1>5, <2>1, <2>2, RoundType DEF Reported
  <2>3. CASE ~(requested /\ explicit = {})
    <3>1. sync' \in Syncs
      BY <1>5, <2>3, NoSyncType DEF Reported
    <3> QED
      BY <1>5, <2>1, <2>3, <3>1 DEF Reported
  <2> QED
    BY <2>2, <2>3
<1>6. CASE TimerFires
  <2>1. Request(retryFull, Free(explicit), {}) /\ Free(explicit) \in BOOLEAN
    BY <1>6 DEF TimerFires, Free
  <2> QED
    BY <1>6, <2>1, RequestType DEF TimerFires
<1> QED
  BY <1>1, <1>2, <1>3, <1>4, <1>5, <1>6 DEF SyncAnswered

LEMMA EventStepsKeepTypes ==
  ASSUME TypeOK, NativeEvent \/ ListenersAdded \/ ListenersFail
  PROVE  TypeOK'
<1> USE DEF TypeOK
<1>1. CASE NativeEvent
  <2>1. Request(FALSE, Free(explicit), {"transactions"}) /\ Free(explicit) \in BOOLEAN
    BY <1>1 DEF NativeEvent, Free
  <2>2. {"transactions"} \in SUBSET Debts
    BY DEF Debts
  <2>3. events' \in 0..MaxEvents
    BY <1>1, MaxEventsAssumption, SMT DEF NativeEvent
  <2> QED
    BY <1>1, <2>1, <2>2, <2>3, RequestType DEF NativeEvent
<1>2. CASE ListenersAdded
  BY <1>2 DEF ListenersAdded, flags
<1>3. CASE ListenersFail
  <2>1. call' \in [Callers -> Calls]
    BY <1>3 DEF ListenersFail, Calls, IdleCall
  <2> QED
    BY <1>3, <2>1 DEF ListenersFail, flags
<1> QED
  BY <1>1, <1>2, <1>3

LEMMA CallStepsKeepTypes ==
  ASSUME TypeOK, NEW c \in Callers, StartConfigure(c) \/ CallGoesOn(c)
  PROVE  TypeOK'
<1> USE DEF TypeOK
<1>1. Ends(c) => call' \in [Callers -> Calls]
  BY CallsKeepTheirType
<1>2. \A kind \in Kinds \union {"none"}, step \in {"configuring", "listening", "invoked"} :
        Enters(c, step, kind) => call' \in [Callers -> Calls]
  BY CallsKeepTheirType
<1>3. CASE StartConfigure(c)
  <2>1. events' \in 0..MaxEvents
    BY <1>3, MaxEventsAssumption, SMT DEF StartConfigure
  <2> QED
    BY <1>2, <1>3, <2>1 DEF StartConfigure, flags
<1>4. CASE SessionConfigured(c)
  BY <1>2, <1>4 DEF SessionConfigured, flags
<1>5. CASE ConfigureEnds(c) \/ IdentityAnswered(c)
  BY <1>1, <1>5 DEF ConfigureEnds, IdentityAnswered, flags
<1>6. CASE Configured(c)
  <2> DEFINE debts == IF PlayStore THEN Debts ELSE {"transactions"}
  <2>1. Request(PlayStore, Free(explicit), debts) /\ Free(explicit) \in BOOLEAN
    BY <1>6 DEF Configured, Free
  <2>2. debts \in SUBSET Debts
    BY DEF Debts
  <2> QED
    BY <1>1, <1>6, <2>1, <2>2, PlayStoreAssumption, RequestType DEF Configured
<1>7. CASE GoesOn(c)
  <2>1. call[c].kind \in Kinds \union {"none"}
    BY DEF Calls
  <2> QED
    BY <1>1, <1>2, <1>7, <2>1 DEF GoesOn, Passes, flags
<1>8. CASE PurchaseSucceeds(c)
  <2>1. CASE explicit' = {} /\ requested
    BY <1>1, <1>8, <2>1, RequestType DEF PurchaseSucceeds, Free
  <2>2. CASE ~(explicit' = {} /\ requested)
    BY <1>1, <1>8, <2>2 DEF PurchaseSucceeds
  <2> QED
    BY <2>1, <2>2
<1>9. CASE PurchaseFails(c)
  <2>1. Request(FALSE, Free(explicit'), {"transactions"}) /\ Free(explicit') \in BOOLEAN
    BY <1>9 DEF PurchaseFails, Free
  <2>2. {"transactions"} \in SUBSET Debts
    BY DEF Debts
  <2> QED
    BY <1>1, <1>9, <2>1, <2>2, RequestType DEF PurchaseFails
<1> QED
  BY <1>3, <1>4, <1>5, <1>6, <1>7, <1>8, <1>9 DEF CallGoesOn

LEMMA StartCallKeepsTypes ==
  ASSUME TypeOK, NEW c \in Callers, NEW kind \in Kinds, StartCall(c, kind)
  PROVE  TypeOK'
<1> USE DEF TypeOK
<1>1. Enters(c, "waiting", kind) \/ Enters(c, "invoked", kind) => call' \in [Callers -> Calls]
  BY CallsKeepTheirType
<1>2. CASE ~recovery
  BY <1>1, <1>2 DEF StartCall, Passes
<1>3. CASE recovery
  <2>1. CASE sync.at = "none"
    <3>1. Request(FALSE, Free(explicit), {}) /\ Free(explicit) \in BOOLEAN
      BY <1>3, <2>1 DEF StartCall, Free
    <3> QED
      BY <1>1, <1>3, <2>1, <3>1, RequestType DEF StartCall
  <2>2. CASE sync.at # "none"
    BY <1>1, <1>3, <2>2 DEF StartCall
  <2> QED
    BY <2>1, <2>2
<1> QED
  BY <1>2, <1>3

LEMMA TypeStep == TypeOK /\ [Next]_vars => TypeOK'
<1> SUFFICES ASSUME TypeOK, [Next]_vars
             PROVE  TypeOK'
  OBVIOUS
<1>1. CASE UNCHANGED vars
  BY <1>1 DEF vars, TypeOK
<1> QED
  BY <1>1, SyncStepsKeepTypes, EventStepsKeepTypes, CallStepsKeepTypes, StartCallKeepsTypes
  DEF Next

\* Every reachable state of the scheduler has the types TypeOK gives (index.ts).
THEOREM TypeCorrect == Spec => []TypeOK
  BY InitTypeOK, TypeStep, PTL DEF Spec

-----------------------------------------------------------------------------
(* The invariant.  Inv names its parts beside the types. *)

Inv == /\ WorkNeedsRecovery /\ RequestsAreCarried /\ LateDebtsAreRequested
       /\ NothingForgotten /\ PurchaseNeverMeetsSync

LEMMA SyncStepsKeepInv ==
  ASSUME IInv, SyncAnswered \/ PauseEnds \/ Reported \/ TimerFires
  PROVE  Inv'
<1> USE DEF IInv, Inv, WorkNeedsRecovery, RequestsAreCarried, LateDebtsAreRequested,
            NothingForgotten, PurchaseNeverMeetsSync, TypeOK, Syncs, NoSync, Covered, Debts
<1>1. CASE AttemptFails
  BY <1>1 DEF AttemptFails, flags
<1>2. CASE SyncGivesUp
  BY <1>2 DEF SyncGivesUp
<1>3. CASE SyncSucceeds
  <2>1. sync.all \in BOOLEAN /\ sync.at = "invoking" /\ recovery
    BY <1>3 DEF SyncSucceeds
  <2>2. CASE requested \/ StillNeedsFull(sync.all)
    <3>1. recovery' /\ timer' = FALSE /\ retryFull' = FALSE /\ explicit' = explicit
      BY <1>3, <2>2 DEF SyncSucceeds, RecoveryAfter
    <3>2. Round(full \/ StillNeedsFull(sync.all), owed')
      BY <1>3, <2>2 DEF SyncSucceeds
    <3>3. "everything" \in owed' => full \/ StillNeedsFull(sync.all)
      BY <1>3, <2>1 DEF SyncSucceeds, StillNeedsFull
    <3>4. /\ sync'.at = "invoking" /\ ("everything" \in owed' => sync'.all)
          /\ ~requested' /\ ~full'
          /\ taken' = IF sync'.all THEN owed' ELSE owed' \ {"everything"}
      BY <3>2, <3>3 DEF Round
    <3>5. LateDebtsAreRequested' /\ NothingForgotten'
      BY <3>1, <3>4
    <3> QED
      BY <2>1, <3>1, <3>4, <3>5
  <2>3. CASE ~(requested \/ StillNeedsFull(sync.all))
    <3>1. owed' = {} /\ taken' = {}
      BY <1>3, <2>1, <2>3 DEF SyncSucceeds, StillNeedsFull
    <3>2. /\ sync'.at = "none" /\ ~requested' /\ ~full' /\ ~timer' /\ ~retryFull'
          /\ explicit' = explicit
      BY <1>3, <2>3 DEF SyncSucceeds, StillNeedsFull
    <3> QED
      BY <3>1, <3>2
  <2> QED
    BY <2>2, <2>3
<1>4. CASE PauseEnds
  BY <1>4 DEF PauseEnds, flags
<1>5. CASE Reported
  BY <1>5 DEF Reported, Round
<1>6. CASE TimerFires
  BY <1>6 DEF TimerFires, Request, Free, Round
<1> QED
  BY <1>1, <1>2, <1>3, <1>4, <1>5, <1>6 DEF SyncAnswered

LEMMA EventStepsKeepInv ==
  ASSUME IInv, NativeEvent \/ ListenersAdded \/ ListenersFail
  PROVE  Inv'
<1> USE DEF IInv, Inv, WorkNeedsRecovery, RequestsAreCarried, LateDebtsAreRequested,
            NothingForgotten, PurchaseNeverMeetsSync, TypeOK, Syncs, Debts
<1>1. CASE NativeEvent
  BY <1>1 DEF NativeEvent, Request, Free, Round, Covered
<1>2. CASE ListenersAdded
  BY <1>2 DEF ListenersAdded, flags
<1>3. CASE ListenersFail
  BY <1>3 DEF ListenersFail, flags
<1> QED
  BY <1>1, <1>2, <1>3

LEMMA CallStepsKeepInv ==
  ASSUME IInv, NEW c \in Callers, StartConfigure(c) \/ CallGoesOn(c)
  PROVE  Inv'
<1> USE DEF IInv, Inv, WorkNeedsRecovery, RequestsAreCarried, LateDebtsAreRequested,
            NothingForgotten, PurchaseNeverMeetsSync, TypeOK, Syncs, Debts
<1>1. CASE \/ StartConfigure(c) \/ SessionConfigured(c) \/ ConfigureEnds(c)
           \/ IdentityAnswered(c)
  BY <1>1 DEF StartConfigure, SessionConfigured, ConfigureEnds, IdentityAnswered, flags
<1>2. CASE Configured(c)
  BY <1>2, PlayStoreAssumption DEF Configured, Request, Free, Round, Covered
<1>3. CASE GoesOn(c)
  BY <1>3 DEF GoesOn, Passes, flags
<1>4. CASE PurchaseSucceeds(c)
  BY <1>4 DEF PurchaseSucceeds, Request, Free, Round, Covered
<1>5. CASE PurchaseFails(c)
  BY <1>5 DEF PurchaseFails, Request, Free, Round, Covered
<1> QED
  BY <1>1, <1>2, <1>3, <1>4, <1>5 DEF CallGoesOn

LEMMA StartCallKeepsInv ==
  ASSUME IInv, NEW c \in Callers, NEW kind \in Kinds, StartCall(c, kind)
  PROVE  Inv'
<1> USE DEF IInv, Inv, WorkNeedsRecovery, RequestsAreCarried, LateDebtsAreRequested,
            NothingForgotten, PurchaseNeverMeetsSync, TypeOK, Syncs, Debts
<1>1. CASE ~recovery
  <2>1. /\ sync.at = "none" /\ ~requested /\ ~timer /\ owed = {}
        /\ UNCHANGED <<recovery, requested, full, sync, timer, retryFull, owed, taken>>
    BY <1>1 DEF StartCall
  <2> QED
    BY <1>1, <2>1
<1>2. CASE recovery
  BY <1>2 DEF StartCall, Request, Free, Round, Covered
<1> QED
  BY <1>1, <1>2

-----------------------------------------------------------------------------
(* The theorems *)

LEMMA IInvStep == IInv /\ [Next]_vars => IInv'
<1> SUFFICES ASSUME IInv, [Next]_vars
             PROVE  Inv'
  BY TypeStep DEF IInv, Inv
<1>1. CASE UNCHANGED vars
  BY <1>1 DEF vars, IInv, Inv, WorkNeedsRecovery, RequestsAreCarried,
              LateDebtsAreRequested, NothingForgotten, PurchaseNeverMeetsSync
<1> QED
  BY <1>1, SyncStepsKeepInv, EventStepsKeepInv, CallStepsKeepInv, StartCallKeepsInv
  DEF Next

\* The invariant holds in every reachable state.
THEOREM InvariantHolds == Spec => []IInv
  BY InitIInv, IInvStep, PTL DEF Spec

\* Whatever an event, a failed purchase or a configure left unsynchronized
\* holds new purchases and identity changes back (index.ts: nativeRecoveryRequired).
THEOREM OwedHoldsBack == Spec => []DebtHoldsCallsBack
<1>1. IInv => DebtHoldsCallsBack
  BY DEF IInv, WorkNeedsRecovery, DebtHoldsCallsBack
<1> QED
  BY <1>1, InvariantHolds, PTL

\* Whatever is owed is being worked on, requested, or has its timer, and a full
\* reconciliation is never downgraded (index.ts: recordNativeSyncSuccess,
\* scheduleNativeRetry).
THEOREM OwedIsNotForgotten == Spec => []NothingForgotten
  BY InvariantHolds, PTL DEF IInv

\* A counted purchase and the loop exclude each other (index.ts:
\* explicitPurchaseRequests).
THEOREM PurchaseExcludesSync == Spec => []PurchaseNeverMeetsSync
  BY InvariantHolds, PTL DEF IInv

-----------------------------------------------------------------------------
(* The connection to Play: messages of the looper *)

\* In the words of this module: how many messages of s are about a connection, whether
\* one is m, and the requests that s and a queue q hold once each.
Due(s) == {i \in DOMAIN s : s[i].kind # "run"}
Has(s, m) == \E i \in DOMAIN s : s[i] = m
RunsOf(m) == IF m.kind = "run" THEN m.requests ELSE {}
Held(s, q, w) ==
  /\ w = q \union UNION {RunsOf(s[i]) : i \in DOMAIN s}
  /\ \A i \in DOMAIN s : RunsOf(s[i]) \intersect q = {}
  /\ \A i, j \in DOMAIN s : i # j => RunsOf(s[i]) \intersect RunsOf(s[j]) = {}

LEMMA AppendElements ==
  ASSUME NEW S, NEW s \in Seq(S), NEW m \in S
  PROVE  /\ Append(s, m) \in Seq(S)
         /\ DOMAIN Append(s, m) = DOMAIN s \union {Len(s) + 1}
         /\ Len(s) + 1 \notin DOMAIN s
         /\ \A i \in DOMAIN s : Append(s, m)[i] = s[i]
         /\ Append(s, m)[Len(s) + 1] = m
<1>1. /\ Append(s, m) \in Seq(S) /\ Len(Append(s, m)) = Len(s) + 1
      /\ \A i \in 1..Len(s) : Append(s, m)[i] = s[i]
      /\ Append(s, m)[Len(s) + 1] = m
  BY AppendProperties
<1>2. /\ DOMAIN s = 1..Len(s) /\ Len(s) \in Nat /\ DOMAIN Append(s, m) = 1..(Len(s) + 1)
  BY <1>1
<1> QED
  BY <1>1, <1>2

LEMMA TailElements ==
  ASSUME NEW S, NEW s \in Seq(S), s # <<>>
  PROVE  /\ Tail(s) \in Seq(S) /\ Head(s) \in S /\ Head(s) = s[1] /\ 1 \in DOMAIN s
         /\ \A i \in DOMAIN Tail(s) : i \in Nat /\ i + 1 \in DOMAIN s /\ i + 1 # 1
                                     /\ Tail(s)[i] = s[i + 1]
         /\ \A i \in DOMAIN s : i # 1 =>
              i - 1 \in DOMAIN Tail(s) /\ Tail(s)[i - 1] = s[i] /\ (i - 1) + 1 = i
<1>1. /\ Tail(s) \in Seq(S) /\ Head(s) \in S /\ Len(Tail(s)) = Len(s) - 1
      /\ \A i \in 1..Len(Tail(s)) : Tail(s)[i] = s[i + 1]
  BY HeadTailProperties
<1>2. /\ DOMAIN s = 1..Len(s) /\ Len(s) \in Nat /\ Len(s) # 0
      /\ DOMAIN Tail(s) = 1..(Len(s) - 1) /\ Head(s) = s[1]
  BY <1>1
<1>3. \A i \in 1..(Len(s) - 1) : i \in Nat /\ i + 1 \in 1..Len(s) /\ i + 1 # 1
  BY <1>2
<1>4. \A i \in 1..Len(s) : i # 1 => i - 1 \in 1..(Len(s) - 1) /\ (i - 1) + 1 = i
  BY <1>2
<1>5. \A i \in 1..(Len(s) - 1) : Tail(s)[i] = s[i + 1]
  BY <1>1
<1> QED
  BY <1>1, <1>2, <1>3, <1>4, <1>5

LEMMA DueIsFinite ==
  ASSUME NEW S, NEW s \in Seq(S)
  PROVE  IsFiniteSet(Due(s)) /\ Cardinality(Due(s)) \in Nat
<1>1. DOMAIN s = 1..Len(s) /\ Len(s) \in Nat
  OBVIOUS
<1>2. IsFiniteSet(DOMAIN s)
  BY <1>1, FS_Interval
<1>3. IsFiniteSet(Due(s))
  BY <1>2, FS_Subset DEF Due
<1> QED
  BY <1>3, FS_CardinalityType

\* A message that is added counts if it is about a connection,
LEMMA DueAppend ==
  ASSUME NEW S, NEW s \in Seq(S), NEW m \in S
  PROVE  Cardinality(Due(Append(s, m))) =
           Cardinality(Due(s)) + IF m.kind = "run" THEN 0 ELSE 1
<1>1. Due(Append(s, m)) = IF m.kind = "run" THEN Due(s) ELSE Due(s) \union {Len(s) + 1}
  BY AppendElements DEF Due
<1>2. Len(s) + 1 \notin Due(s)
  BY AppendElements DEF Due
<1>3. IsFiniteSet(Due(s)) /\ Cardinality(Due(s)) \in Nat
  BY DueIsFinite
<1>4. Cardinality(Due(s) \union {Len(s) + 1}) = Cardinality(Due(s)) + 1
  BY <1>2, <1>3, FS_AddElement
<1> QED
  BY <1>1, <1>3, <1>4

\* and so does one that is taken.
LEMMA DueTail ==
  ASSUME NEW S, NEW s \in Seq(S), s # <<>>
  PROVE  Cardinality(Due(s)) =
           Cardinality(Due(Tail(s))) + IF Head(s).kind = "run" THEN 0 ELSE 1
<1> DEFINE f == [i \in Due(Tail(s)) |-> i + 1]
<1>1. f \in [Due(Tail(s)) -> Due(s) \ {1}]
  BY TailElements DEF Due
<1>2. \A i, j \in Due(Tail(s)) : f[i] = f[j] => i = j
  <2>1. \A i \in Due(Tail(s)) : i \in Nat
    BY TailElements DEF Due
  <2> QED
    BY <2>1
<1>3. \A i \in Due(s) \ {1} : \E j \in Due(Tail(s)) : f[j] = i
  <2> TAKE i \in Due(s) \ {1}
  <2>1. i - 1 \in Due(Tail(s)) /\ f[i - 1] = i
    BY TailElements DEF Due
  <2> QED
    BY <2>1
<1>4. ExistsBijection(Due(Tail(s)), Due(s) \ {1})
  <2>1. f \in Bijection(Due(Tail(s)), Due(s) \ {1})
    <3> HIDE DEF f
    <3> QED
      BY <1>1, <1>2, <1>3 DEF Bijection, Injection, Surjection, IsInjective
  <2> QED
    BY <2>1 DEF ExistsBijection
<1>5. /\ Cardinality(Due(s) \ {1}) = Cardinality(Due(Tail(s)))
      /\ Cardinality(Due(s) \ {1}) = IF 1 \in Due(s) THEN Cardinality(Due(s)) - 1
                                     ELSE Cardinality(Due(s))
  BY <1>4, DueIsFinite, TailElements, FS_Bijection, FS_RemoveElement
<1>6. 1 \in Due(s) <=> Head(s).kind # "run"
  BY TailElements DEF Due
<1> QED
  BY <1>5, <1>6, DueIsFinite, TailElements

\* Which messages are left, and which are new.
LEMMA HasAppend ==
  ASSUME NEW S, NEW s \in Seq(S), NEW m \in S
  PROVE  \A n : Has(Append(s, m), n) <=> Has(s, n) \/ n = m
  BY AppendElements DEF Has

LEMMA HasTail ==
  ASSUME NEW S, NEW s \in Seq(S), s # <<>>
  PROVE  \A n : Has(s, n) <=> Has(Tail(s), n) \/ n = Head(s)
<1>1. \A i \in DOMAIN Tail(s) : i + 1 \in DOMAIN s /\ Tail(s)[i] = s[i + 1]
  BY TailElements
<1>2. \A i \in DOMAIN s : i # 1 => i - 1 \in DOMAIN Tail(s) /\ Tail(s)[i - 1] = s[i]
  BY TailElements
<1>3. 1 \in DOMAIN s /\ s[1] = Head(s)
  BY TailElements
<1>4. ASSUME NEW n, Has(s, n) PROVE Has(Tail(s), n) \/ n = Head(s)
  BY <1>2, <1>3, <1>4 DEF Has
<1>5. ASSUME NEW n, Has(Tail(s), n) PROVE Has(s, n)
  BY <1>1, <1>5 DEF Has
<1> QED
  BY <1>3, <1>4, <1>5 DEF Has

LEMMA HeldAppend ==
  ASSUME NEW S, NEW s \in Seq(S), NEW m \in S, NEW q, NEW w,
         Held(s, q, w), RunsOf(m) \subseteq q
  PROVE  Held(Append(s, m), q \ RunsOf(m), w)
  BY AppendElements DEF Held

LEMMA HeldTail ==
  ASSUME NEW S, NEW s \in Seq(S), s # <<>>, NEW q, NEW w, Held(s, q, w)
  PROVE  Held(Tail(s), q, w \ RunsOf(Head(s)))
<1>1. \A i \in DOMAIN Tail(s) : RunsOf(Tail(s)[i]) \intersect RunsOf(Head(s)) = {}
  BY TailElements DEF Held
<1>2. \A x \in w : \/ x \in q \union RunsOf(Head(s))
                  \/ \E i \in DOMAIN Tail(s) : x \in RunsOf(Tail(s)[i])
  BY TailElements DEF Held
<1>3. RunsOf(Head(s)) \intersect q = {}
  BY TailElements DEF Held
<1>4. \A i \in DOMAIN Tail(s) :
        RunsOf(Tail(s)[i]) \subseteq w /\ RunsOf(Tail(s)[i]) \intersect q = {}
  BY TailElements DEF Held
<1>5. \A i, j \in DOMAIN Tail(s) :
        i # j => RunsOf(Tail(s)[i]) \intersect RunsOf(Tail(s)[j]) = {}
  BY TailElements DEF Held
<1>6. q \subseteq w
  BY DEF Held
<1>7. w \ RunsOf(Head(s)) = q \union UNION {RunsOf(Tail(s)[i]) : i \in DOMAIN Tail(s)}
  BY <1>1, <1>2, <1>3, <1>4, <1>6
<1> QED
  BY <1>4, <1>5, <1>7 DEF Held

\* A request that nobody waits for is queued.
LEMMA HeldMore ==
  ASSUME NEW s, NEW q, NEW w, NEW r, Held(s, q, w), r \notin w
  PROVE  Held(s, q \union {r}, w \union {r})
  BY DEF Held

-----------------------------------------------------------------------------
(* The connection to Play: its invariant *)

\* What is posted to the looper.
Posts == Connection!Messages

Load(at, delayed, s) == delayed + Cardinality(Due(s)) + IF at = "connecting" THEN 1 ELSE 0

Awaited(at, s, q, isSet, delayed) ==
  /\ isSet => delayed > 0 \/ Has(s, Connection!Connect)
  /\ steady /\ Has(s, Connection!Setup("OK")) => at = "up"
  /\ steady /\ q # {} => IF at = "up" THEN Has(s, Connection!Setup("OK"))
                        ELSE Load(at, delayed, s) > 0

\* IInv of BillingConnection in these words.
ConnectionInv ==
  /\ link \in {"down", "connecting", "up"}
  /\ steady \in BOOLEAN /\ scheduled \in BOOLEAN
  /\ waiting \subseteq Requests
  /\ delay \in 1..MaxDelay
  /\ timers \in Nat
  /\ main \in Seq(Posts)
  /\ Load(link, timers, main) <= MaxTasks
  /\ Held(main, queue, waiting)
  /\ Awaited(link, main, queue, scheduled, timers)

LEMMA MessageKinds ==
  /\ Connection!Connect \in Posts /\ Connection!Connect.kind = "connect"
  /\ \A code \in Connection!Codes : /\ Connection!Setup(code) \in Posts
                                   /\ Connection!Setup(code).kind = "setup"
                                   /\ Connection!Setup(code).code = code
  /\ \A q \in SUBSET Requests, error \in BOOLEAN :
       /\ Connection!Run(q, error) \in Posts /\ Connection!Run(q, error).kind = "run"
       /\ RunsOf(Connection!Run(q, error)) = q
  /\ \A m \in Posts : m.kind # "run" => RunsOf(m) = {}
<1> USE DEF Posts, Connection!Messages, Connection!Connect, Connection!Setup,
            Connection!Run, RunsOf
<1>1. Connection!Connect \in Posts /\ Connection!Connect.kind = "connect"
  OBVIOUS
<1>2. ASSUME NEW code \in Connection!Codes
      PROVE  /\ Connection!Setup(code) \in Posts
             /\ Connection!Setup(code).kind = "setup" /\ Connection!Setup(code).code = code
  OBVIOUS
<1>3. ASSUME NEW q \in SUBSET Requests, NEW error \in BOOLEAN
      PROVE  /\ Connection!Run(q, error) \in Posts /\ Connection!Run(q, error).kind = "run"
             /\ RunsOf(Connection!Run(q, error)) = q
  OBVIOUS
<1>4. \A m \in Posts : m.kind # "run" => RunsOf(m) = {}
  OBVIOUS
<1> HIDE DEF Posts, Connection!Messages, Connection!Connect, Connection!Setup,
             Connection!Run, RunsOf
<1> QED
  BY <1>1, <1>2, <1>3, <1>4

LEMMA MessageForms ==
  ASSUME NEW m \in Posts
  PROVE  /\ m.kind \in {"connect", "setup", "run"}
         /\ m.kind = "connect" <=> m = Connection!Connect
         /\ m.kind = "setup" => m.code \in Connection!Codes /\ m = Connection!Setup(m.code)
         /\ RunsOf(m) \subseteq Requests
  BY DEF Posts, Connection!Messages, Connection!Connect, Connection!Setup, Connection!Run, RunsOf

LEMMA CodesAre ==
  Connection!Codes = {"BILLING_UNAVAILABLE", "DEVELOPER_ERROR", "OK", "SERVICE_UNAVAILABLE"}
  BY DEF Connection!Codes, Connection!Permanent

\* Requests leave the queue for a message that runs them, if there are any.
Ran(s, q, error) == IF q = {} THEN s ELSE Append(s, Connection!Run(q, error))

LEMMA RanElements ==
  ASSUME NEW s \in Seq(Posts), NEW q \in SUBSET Requests, NEW error \in BOOLEAN
  PROVE  /\ Ran(s, q, error) \in Seq(Posts)
         /\ Cardinality(Due(Ran(s, q, error))) = Cardinality(Due(s))
         /\ \A n : n.kind # "run" => (Has(Ran(s, q, error), n) <=> Has(s, n))
         /\ s \o (IF q = {} THEN <<>> ELSE <<Connection!Run(q, error)>>) = Ran(s, q, error)
<1>1. CASE q = {}
  BY <1>1, ConcatEmptySeq DEF Ran
<1>2. CASE q # {}
  <2>1. Connection!Run(q, error) \in Posts /\ Connection!Run(q, error).kind = "run"
    BY MessageKinds
  <2>2. Append(s, Connection!Run(q, error)) = s \o <<Connection!Run(q, error)>>
    BY <2>1, AppendIsConcat
  <2>3. Append(s, Connection!Run(q, error)) \in Seq(Posts)
    BY <2>1, AppendElements
  <2>4. Cardinality(Due(Append(s, Connection!Run(q, error)))) = Cardinality(Due(s))
    BY <2>1, DueAppend, DueIsFinite
  <2>5. \A n : Has(Append(s, Connection!Run(q, error)), n)
               <=> Has(s, n) \/ n = Connection!Run(q, error)
    BY <2>1, HasAppend
  <2> QED
    BY <1>2, <2>1, <2>2, <2>3, <2>4, <2>5 DEF Ran
<1> QED
  BY <1>1, <1>2

LEMMA RanHeld ==
  ASSUME NEW s \in Seq(Posts), NEW q \in SUBSET Requests, NEW error \in BOOLEAN,
         NEW all, NEW w, Held(s, all, w), q \subseteq all
  PROVE  Held(Ran(s, q, error), all \ q, w)
<1>1. CASE q = {}
  BY <1>1 DEF Ran
<1>2. CASE q # {}
  BY <1>2, MessageKinds, HeldAppend DEF Ran
<1> QED
  BY <1>1, <1>2

\* What executePendingRequests makes of the queue.
LEMMA PendingExecuted ==
  ASSUME NEW s \in Seq(Posts), NEW q \in SUBSET Requests, NEW w, Held(s, q, w),
         Connection!ExecutePending(q, s)
  PROVE  /\ main' \in Seq(Posts)
         /\ Cardinality(Due(main')) = Cardinality(Due(s))
         /\ \A n : n.kind # "run" => (Has(main', n) <=> Has(s, n))
         /\ Held(main', queue', w)
         /\ link' = link \/ (link = "up" /\ link' = "down")
         /\ steady => link' = link /\ (link = "up" => queue' = {})
         /\ link # "up" => queue' = q /\ main' = s
<1>1. CASE link = "up" /\ queue' = {} /\ main' = Ran(s, q, FALSE) /\ link' = link
  <2>1. /\ Ran(s, q, FALSE) \in Seq(Posts)
        /\ Cardinality(Due(Ran(s, q, FALSE))) = Cardinality(Due(s))
        /\ \A n : n.kind # "run" => (Has(Ran(s, q, FALSE), n) <=> Has(s, n))
    BY RanElements
  <2>2. Held(Ran(s, q, FALSE), q \ q, w) /\ q \ q = {}
    BY RanHeld
  <2>3. Held(main', queue', w)
    BY <1>1, <2>2
  <2> QED
    BY <1>1, <2>1, <2>3
<1>2. ASSUME NEW ran \in SUBSET q, link = "up", ~steady, queue' = q \ ran,
             main' = Ran(s, ran, FALSE), link' = "down"
      PROVE  main' \in Seq(Posts) /\ Cardinality(Due(main')) = Cardinality(Due(s))
             /\ (\A n : n.kind # "run" => (Has(main', n) <=> Has(s, n)))
             /\ Held(main', queue', w)
  <2>1. /\ Ran(s, ran, FALSE) \in Seq(Posts)
        /\ Cardinality(Due(Ran(s, ran, FALSE))) = Cardinality(Due(s))
        /\ \A n : n.kind # "run" => (Has(Ran(s, ran, FALSE), n) <=> Has(s, n))
    BY RanElements
  <2>2. Held(Ran(s, ran, FALSE), q \ ran, w)
    BY RanHeld
  <2> QED
    BY <1>2, <2>1, <2>2
<1>3. CASE link # "up" /\ queue' = q /\ main' = s /\ link' = link
  BY <1>3
<1>4. \A ran \in SUBSET q : s \o (IF ran = {} THEN <<>> ELSE <<Connection!Run(ran, FALSE)>>)
                            = Ran(s, ran, FALSE)
  BY RanElements
<1>5. \/ link = "up" /\ queue' = {} /\ main' = Ran(s, q, FALSE) /\ link' = link
      \/ /\ link = "up" /\ ~steady /\ link' = "down"
         /\ \E ran \in SUBSET q : queue' = q \ ran /\ main' = Ran(s, ran, FALSE)
      \/ link # "up" /\ queue' = q /\ main' = s /\ link' = link
  BY <1>4, q \in SUBSET q DEF Connection!ExecutePending
<1> QED
  BY <1>1, <1>2, <1>3, <1>5

\* A message about the connection is posted,
LEMMA MessagePosted ==
  ASSUME NEW s \in Seq(Posts), NEW q, NEW w, Held(s, q, w), NEW m \in Posts, m.kind # "run"
  PROVE  /\ Append(s, m) \in Seq(Posts)
         /\ Cardinality(Due(Append(s, m))) = Cardinality(Due(s)) + 1
         /\ \A n : Has(Append(s, m), n) <=> Has(s, n) \/ n = m
         /\ Held(Append(s, m), q, w)
<1>1. RunsOf(m) = {} /\ q \ RunsOf(m) = q
  BY MessageKinds
<1>2. Held(Append(s, m), q, w)
  BY <1>1, HeldAppend
<1> QED
  BY <1>2, AppendElements, DueAppend, HasAppend

\* and the looper takes the first one.
LEMMA MessageTaken ==
  ASSUME NEW s \in Seq(Posts), s # <<>>, NEW q, NEW w, Held(s, q, w)
  PROVE  /\ Tail(s) \in Seq(Posts) /\ Head(s) \in Posts
         /\ Cardinality(Due(s)) \in Nat /\ Cardinality(Due(Tail(s))) \in Nat
         /\ Cardinality(Due(s)) =
              Cardinality(Due(Tail(s))) + IF Head(s).kind = "run" THEN 0 ELSE 1
         /\ \A n : Has(s, n) <=> Has(Tail(s), n) \/ n = Head(s)
         /\ Held(Tail(s), q, w \ RunsOf(Head(s)))
         /\ Head(s).kind # "run" => Held(Tail(s), q, w)
<1>1. Head(s) \in Posts /\ Tail(s) \in Seq(Posts)
  BY TailElements
<1>2. Head(s).kind # "run" => w \ RunsOf(Head(s)) = w
  BY <1>1, MessageKinds
<1>3. Held(Tail(s), q, w \ RunsOf(Head(s)))
  BY HeldTail
<1>4. Head(s).kind # "run" => Held(Tail(s), q, w)
  BY <1>2, <1>3
<1> QED
  BY <1>1, <1>3, <1>4, DueTail, DueIsFinite, HasTail

\* Connections counts them.
LEMMA ConnectionsAre == Connection!Connections = Load(link, timers, main)
<1>1. \A S : Connection!Cardinality(S) = Cardinality(S)
  BY Zenon DEF Connection!Cardinality, Cardinality
<1> QED
  BY <1>1 DEF Connection!Connections, Load, Due

LEMMA QueueType == ConnectionInv => /\ queue \in SUBSET Requests /\ queue \subseteq waiting
                                    /\ Cardinality(Due(main)) \in Nat /\ MaxTasks \in Nat
  BY DueIsFinite, ConnectionsAssumption DEF ConnectionInv, Held

\* What tells the messages that the invariant speaks of from each other.
LEMMA MessagesDiffer ==
  /\ Connection!Connect.kind # "run" /\ Connection!Setup("OK").kind # "run"
  /\ Connection!Connect # Connection!Setup("OK")
  /\ Connection!Connect \in Posts
  /\ Connection!Setup("DEVELOPER_ERROR") \in Posts
  /\ Connection!Setup("DEVELOPER_ERROR").kind # "run"
  /\ Connection!Setup("DEVELOPER_ERROR") # Connection!Setup("OK")
  BY MessageKinds, CodesAre DEF Connection!Connect, Connection!Setup

LEMMA ExecuteKeeps ==
  ASSUME ConnectionInv, NEW r \in Requests, Connection!ExecuteRequest(r)
  PROVE  ConnectionInv'
<1> DEFINE all == queue \union {r}
<1> DEFINE w == waiting \union {r}
<1>1. /\ all \in SUBSET Requests /\ w \subseteq Requests /\ Held(main, all, w)
      /\ waiting' = w /\ main \in Seq(Posts)
  BY QueueType, HeldMore DEF ConnectionInv, Connection!ExecuteRequest
<1>2. UNCHANGED <<steady, scheduled, delay, timers>>
  BY DEF Connection!ExecuteRequest
<1>3. CASE link = "up" /\ Connection!ExecutePending(all, main)
  <2>1. /\ main' \in Seq(Posts) /\ Cardinality(Due(main')) = Cardinality(Due(main))
        /\ \A n : n.kind # "run" => (Has(main', n) <=> Has(main, n))
        /\ Held(main', queue', w)
        /\ link' \in {"up", "down"}
        /\ steady => link' = "up" /\ queue' = {}
    <3> HIDE DEF all, w
    <3> QED
      BY <1>1, <1>3, PendingExecuted
  <2>2. Load(link', timers', main') = Load(link, timers, main)
    BY <1>2, <1>3, <2>1 DEF Load
  <2>3. Awaited(link, main, queue, scheduled, timers)'
    BY <1>2, <1>3, <2>1, MessagesDiffer DEF ConnectionInv, Awaited
  <2> QED
    BY <1>1, <1>2, <2>1, <2>2, <2>3 DEF ConnectionInv
<1>4. CASE /\ link # "up" /\ Connection!Connections < MaxTasks
           /\ queue' = all /\ main' = Append(main, Connection!Connect) /\ UNCHANGED link
  <2>1. /\ main' \in Seq(Posts) /\ Cardinality(Due(main')) = Cardinality(Due(main)) + 1
        /\ \A n : Has(main', n) <=> Has(main, n) \/ n = Connection!Connect
        /\ Held(main', queue', w)
    <3> HIDE DEF all, w
    <3> QED
      BY <1>1, <1>4, MessagePosted, MessagesDiffer
  <2>2. Load(link, timers, main) < MaxTasks
    BY <1>4, ConnectionsAre
  <2>3. Load(link', timers', main') = Load(link, timers, main) + 1
    BY <1>2, <1>4, <2>1, QueueType DEF Load, ConnectionInv
  <2>4. Load(link, timers, main) \in Nat
    BY QueueType DEF Load, ConnectionInv
  <2>5. Awaited(link, main, queue, scheduled, timers)'
    BY <1>2, <1>4, <2>1, <2>3, <2>4, MessagesDiffer DEF ConnectionInv, Awaited
  <2>6. Load(link', timers', main') <= MaxTasks
    BY <2>2, <2>3, <2>4, QueueType
  <2> QED
    BY <1>1, <1>2, <1>4, <2>1, <2>5, <2>6 DEF ConnectionInv
<1> QED
  BY <1>3, <1>4 DEF Connection!ExecuteRequest

LEMMA DelayEndsKeeps ==
  ASSUME ConnectionInv, Connection!DelayEnds
  PROVE  ConnectionInv'
<1>1. /\ main' = Append(main, Connection!Connect) /\ timers > 0 /\ timers' = timers - 1
      /\ UNCHANGED <<link, steady, queue, scheduled, delay, waiting>>
  BY DEF Connection!DelayEnds
<1>2. /\ main' \in Seq(Posts) /\ Cardinality(Due(main')) = Cardinality(Due(main)) + 1
      /\ \A n : Has(main', n) <=> Has(main, n) \/ n = Connection!Connect
      /\ Held(main', queue, waiting)
  BY <1>1, MessagePosted, MessagesDiffer DEF ConnectionInv
<1>3. timers' \in Nat /\ Load(link', timers', main') = Load(link, timers, main)
  BY <1>1, <1>2, QueueType DEF ConnectionInv, Load
<1>4. Awaited(link, main, queue, scheduled, timers)'
  BY <1>1, <1>2, <1>3, MessagesDiffer DEF ConnectionInv, Awaited
<1> QED
  BY <1>1, <1>2, <1>3, <1>4 DEF ConnectionInv

LEMMA AttemptEndsKeeps ==
  ASSUME ConnectionInv, NEW code \in Connection!Codes, Connection!AttemptEnds(code)
  PROVE  ConnectionInv'
<1> DEFINE m == Connection!Setup(code)
<1>1. /\ link = "connecting" /\ link' = (IF code = "OK" THEN "up" ELSE "down")
      /\ main' = Append(main, m)
      /\ UNCHANGED <<steady, queue, scheduled, delay, timers, waiting>>
  BY DEF Connection!AttemptEnds
<1>2. /\ m \in Posts /\ m.kind # "run" /\ m # Connection!Connect
      /\ m = Connection!Setup("OK") <=> code = "OK"
  BY MessageKinds DEF Connection!Setup, Connection!Connect
<1>3. /\ main' \in Seq(Posts) /\ Cardinality(Due(main')) = Cardinality(Due(main)) + 1
      /\ \A n : Has(main', n) <=> Has(main, n) \/ n = m
      /\ Held(main', queue, waiting)
  <2> HIDE DEF m
  <2> QED
    BY <1>1, <1>2, MessagePosted DEF ConnectionInv
<1> HIDE DEF m
<1>4. Load(link', timers', main') = Load(link, timers, main) /\ Load(link, timers, main) > 0
  BY <1>1, <1>3, QueueType DEF ConnectionInv, Load
<1>5. Awaited(link, main, queue, scheduled, timers)'
  <2>1. Awaited(link, main, queue, scheduled, timers)
    BY DEF ConnectionInv
  <2>2. steady /\ Has(main', Connection!Setup("OK")) => link' = "up"
    BY <1>1, <1>2, <1>3, <2>1 DEF Awaited
  <2>3. IF link' = "up" THEN Has(main', Connection!Setup("OK"))
                        ELSE Load(link', timers', main') > 0
    BY <1>1, <1>2, <1>3, <1>4
  <2>4. scheduled' => timers' > 0 \/ Has(main', Connection!Connect)
    BY <1>1, <1>3, <2>1 DEF Awaited
  <2> QED
    BY <1>1, <2>2, <2>3, <2>4 DEF Awaited
<1> QED
  BY <1>1, <1>3, <1>4, <1>5 DEF ConnectionInv

\* What is known of the looper's first message once it is taken.
Taken(s) ==
  /\ s \in Seq(Posts) /\ Held(s, queue, waiting)
  /\ Cardinality(Due(s)) \in Nat /\ Cardinality(Due(main)) = Cardinality(Due(s)) + 1
  /\ \A n : Has(main, n) <=> Has(s, n) \/ n = Head(main)

LEMMA TakenIs ==
  ASSUME ConnectionInv, main # <<>>, Head(main).kind # "run"
  PROVE  Taken(Tail(main)) /\ Head(main) \in Posts
  BY MessageTaken DEF ConnectionInv, Taken

LEMMA StartKeeps ==
  ASSUME ConnectionInv, Connection!StartConnection
  PROVE  ConnectionInv'
<1>1. /\ main # <<>> /\ Head(main) = Connection!Connect /\ scheduled' = FALSE
      /\ UNCHANGED <<steady, delay, timers, waiting>>
  BY DEF Connection!StartConnection, Connection!ClientStarts
<1> DEFINE s == Tail(main)
<1>2. Taken(s)
  BY <1>1, TakenIs, MessagesDiffer
<1>3. \/ link = "down" /\ link' = "connecting" /\ main' = s /\ queue' = queue
      \/ /\ link = "connecting" /\ main' = Append(s, Connection!Setup("DEVELOPER_ERROR"))
         /\ link' = link /\ queue' = queue
      \/ link # "up" /\ Connection!SendErrorsToAllPending(s) /\ link' = link
      \/ link = "up" /\ main' = s /\ link' = link /\ queue' = queue
  BY DEF Connection!StartConnection, Connection!ClientStarts
<1> HIDE DEF s
<1>4. /\ Awaited(link, main, queue, scheduled, timers) /\ timers \in Nat
      /\ Cardinality(Due(main)) \in Nat /\ Load(link, timers, main) <= MaxTasks
      /\ Has(main, Connection!Setup("OK")) <=> Has(s, Connection!Setup("OK"))
  BY <1>1, <1>2, QueueType, MessagesDiffer DEF ConnectionInv, Taken
<1>5. CASE /\ (link = "down" /\ link' = "connecting") \/ (link = "up" /\ link' = link)
           /\ main' = s /\ queue' = queue
  <2>1. Load(link', timers', main') <= Load(link, timers, main)
    BY <1>1, <1>2, <1>3, <1>4, <1>5 DEF Load, Taken
  <2>2. link' = "connecting" => Load(link', timers', main') > 0
    BY <1>1, <1>2, <1>4, <1>5 DEF Load, Taken
  <2>3. Awaited(link, main, queue, scheduled, timers)'
    BY <1>1, <1>3, <1>4, <1>5, <2>2 DEF Awaited
  <2>4. Load(link', timers', main') <= MaxTasks /\ link' \in {"down", "connecting", "up"}
    BY <1>1, <1>2, <1>3, <1>4, <1>5, <2>1, QueueType DEF Load, Taken
  <2> QED
    BY <1>1, <1>2, <1>5, <2>3, <2>4 DEF ConnectionInv, Taken
<1>6. CASE /\ link = "connecting" /\ link' = link /\ queue' = queue
           /\ main' = Append(s, Connection!Setup("DEVELOPER_ERROR"))
  <2>1. /\ main' \in Seq(Posts) /\ Cardinality(Due(main')) = Cardinality(Due(s)) + 1
        /\ \A n : Has(main', n) <=> Has(s, n) \/ n = Connection!Setup("DEVELOPER_ERROR")
        /\ Held(main', queue, waiting)
    BY <1>2, <1>6, MessagePosted, MessagesDiffer DEF Taken
  <2>2. Load(link', timers', main') = Load(link, timers, main) /\ Load(link, timers, main) > 0
    BY <1>1, <1>2, <1>4, <1>6, <2>1 DEF Load, Taken
  <2>3. Awaited(link, main, queue, scheduled, timers)'
    BY <1>1, <1>4, <1>6, <2>1, <2>2, MessagesDiffer DEF Awaited
  <2> QED
    BY <1>1, <1>4, <1>6, <2>1, <2>2, <2>3 DEF ConnectionInv
<1>7. CASE link # "up" /\ Connection!SendErrorsToAllPending(s) /\ link' = link
  <2>1. queue' = {} /\ main' = Ran(s, queue, TRUE)
    BY <1>2, <1>7, QueueType, RanElements DEF Connection!SendErrorsToAllPending, Taken
  <2>2. /\ main' \in Seq(Posts) /\ Cardinality(Due(main')) = Cardinality(Due(s))
        /\ \A n : n.kind # "run" => (Has(main', n) <=> Has(s, n))
    BY <1>2, <2>1, QueueType, RanElements DEF Taken
  <2>3. Held(main', queue \ queue, waiting) /\ queue \ queue = {}
    BY <1>2, <2>1, QueueType, RanHeld DEF Taken
  <2>4. Held(main', queue', waiting)
    BY <2>1, <2>3
  <2>5. Load(link', timers', main') <= MaxTasks
    BY <1>1, <1>2, <1>4, <1>7, <2>2, QueueType DEF Load, Taken
  <2>6. Awaited(link, main, queue, scheduled, timers)'
    BY <1>1, <1>4, <1>7, <2>1, <2>2, MessagesDiffer DEF Awaited
  <2> QED
    BY <1>1, <1>7, <2>2, <2>4, <2>5, <2>6 DEF ConnectionInv
<1> QED
  BY <1>3, <1>5, <1>6, <1>7

LEMMA SetupKeeps ==
  ASSUME ConnectionInv, Connection!OnBillingSetupFinished
  PROVE  ConnectionInv'
<1> DEFINE s == Tail(main)
<1> DEFINE code == Head(main).code
<1>1. /\ main # <<>> /\ Head(main).kind = "setup" /\ UNCHANGED <<steady, waiting>>
  BY DEF Connection!OnBillingSetupFinished
<1>2. Taken(s) /\ Head(main) = Connection!Setup(code) /\ code \in Connection!Codes
  BY <1>1, TakenIs, MessageForms
<1>3. \/ /\ code = "OK" /\ delay' = 1 /\ Connection!ExecutePending(queue, s)
         /\ UNCHANGED <<scheduled, timers>>
      \/ /\ code \in Connection!Permanent /\ Connection!SendErrorsToAllPending(s)
         /\ UNCHANGED <<link, scheduled, timers, delay>>
      \/ /\ code = "SERVICE_UNAVAILABLE" /\ Connection!RetryWithBackoff
         /\ main' = s /\ UNCHANGED <<link, queue>>
  BY DEF Connection!OnBillingSetupFinished
<1>4. Connection!Setup(code) # Connection!Connect
      /\ (code # "OK" => Connection!Setup(code) # Connection!Setup("OK"))
  BY DEF Connection!Setup, Connection!Connect
<1> HIDE DEF s, code
<1>5. /\ Awaited(link, main, queue, scheduled, timers) /\ timers \in Nat
      /\ Load(link, timers, main) <= MaxTasks /\ MaxTasks \in Nat
      /\ Load(link, timers, main) = Load(link, timers, s) + 1
      /\ Load(link, timers, s) \in Nat
      /\ Has(main, Connection!Connect) <=> Has(s, Connection!Connect)
      /\ code # "OK" =>
           (Has(main, Connection!Setup("OK")) <=> Has(s, Connection!Setup("OK")))
  <2>1. Awaited(link, main, queue, scheduled, timers) /\ timers \in Nat
        /\ Load(link, timers, main) <= MaxTasks /\ MaxTasks \in Nat
    BY QueueType DEF ConnectionInv
  <2>2. Load(link, timers, main) = Load(link, timers, s) + 1 /\ Load(link, timers, s) \in Nat
    BY <1>2, <2>1 DEF Taken, Load
  <2>3. \A n : Has(main, n) <=> Has(s, n) \/ n = Connection!Setup(code)
    BY <1>2 DEF Taken
  <2> QED
    BY <1>4, <2>1, <2>2, <2>3
<1>6. CASE /\ code = "OK" /\ delay' = 1 /\ Connection!ExecutePending(queue, s)
           /\ UNCHANGED <<scheduled, timers>>
  <2>1. /\ main' \in Seq(Posts) /\ Cardinality(Due(main')) = Cardinality(Due(s))
        /\ \A n : n.kind # "run" => (Has(main', n) <=> Has(s, n))
        /\ Held(main', queue', waiting)
        /\ link' = link \/ (link = "up" /\ link' = "down")
        /\ steady => link' = link /\ (link = "up" => queue' = {})
    BY <1>2, <1>6, QueueType, PendingExecuted DEF Taken
  <2>2. steady => link = "up"
    BY <1>2, <1>5, <1>6 DEF Awaited, Taken
  <2>3. Load(link', timers', main') = Load(link, timers, s)
    BY <1>6, <2>1 DEF Load
  <2>4. Awaited(link, main, queue, scheduled, timers)'
    BY <1>1, <1>5, <1>6, <2>1, <2>2, MessagesDiffer DEF Awaited
  <2>5. Load(link', timers', main') <= MaxTasks
    BY <1>5, <2>3
  <2>6. delay' \in 1..MaxDelay
    BY <1>6, ConnectionsAssumption
  <2> QED
    BY <1>1, <1>6, <2>1, <2>4, <2>5, <2>6 DEF ConnectionInv
<1>7. CASE /\ code \in Connection!Permanent /\ Connection!SendErrorsToAllPending(s)
           /\ UNCHANGED <<link, scheduled, timers, delay>>
  <2>1. queue' = {} /\ main' = Ran(s, queue, TRUE)
    BY <1>2, <1>7, QueueType, RanElements DEF Connection!SendErrorsToAllPending, Taken
  <2>2. /\ main' \in Seq(Posts) /\ Cardinality(Due(main')) = Cardinality(Due(s))
        /\ \A n : n.kind # "run" => (Has(main', n) <=> Has(s, n))
    BY <1>2, <2>1, QueueType, RanElements DEF Taken
  <2>3. Held(main', queue \ queue, waiting) /\ queue \ queue = {}
    BY <1>2, <2>1, QueueType, RanHeld DEF Taken
  <2>4. Held(main', queue', waiting)
    BY <2>1, <2>3
  <2>5. Load(link', timers', main') <= MaxTasks
    BY <1>5, <1>7, <2>2 DEF Load
  <2>6. code # "OK"
    BY <1>7 DEF Connection!Permanent
  <2>7. Awaited(link, main, queue, scheduled, timers)'
    BY <1>1, <1>5, <1>7, <2>1, <2>2, <2>6, MessagesDiffer DEF Awaited
  <2> QED
    BY <1>1, <1>7, <2>2, <2>4, <2>5, <2>7 DEF ConnectionInv
<1>8. CASE /\ code = "SERVICE_UNAVAILABLE" /\ Connection!RetryWithBackoff
           /\ main' = s /\ UNCHANGED <<link, queue>>
  <2>1. /\ delay' \in 1..MaxDelay /\ scheduled' = TRUE
        /\ timers' = IF scheduled THEN timers ELSE timers + 1
    BY <1>8, ConnectionsAssumption DEF Connection!RetryWithBackoff, ConnectionInv
  <2>2. Load(link', timers', main') \in {Load(link, timers, s), Load(link, timers, s) + 1}
    BY <1>2, <1>5, <1>8, <2>1 DEF Load, Taken
  <2>3. timers' > 0 \/ Has(s, Connection!Connect)
    BY <1>5, <2>1 DEF Awaited
  <2>4. Load(link', timers', main') > 0
    <3>1. CASE timers' > 0
      BY <1>2, <1>5, <1>8, <2>1, <3>1 DEF Load, Taken
    <3>2. CASE Has(s, Connection!Connect)
      <4>1. Due(s) # {}
        BY <3>2, MessagesDiffer DEF Has, Due
      <4>2. Cardinality(Due(s)) > 0
        BY <1>2, <4>1, DueIsFinite, FS_EmptySet DEF Taken
      <4> QED
        BY <1>2, <1>5, <1>8, <2>1, <4>2 DEF Load, Taken
    <3> QED
      BY <2>3, <3>1, <3>2
  <2>5. Awaited(link, main, queue, scheduled, timers)'
    BY <1>1, <1>5, <1>8, <2>3, <2>4 DEF Awaited
  <2>6. Load(link', timers', main') <= MaxTasks
    BY <1>5, <2>2
  <2> QED
    <3>1. main' \in Seq(Posts) /\ Held(main', queue', waiting') /\ timers' \in Nat
      BY <1>1, <1>2, <1>5, <1>8, <2>1 DEF Taken
    <3>2. /\ link' \in {"down", "connecting", "up"} /\ steady' \in BOOLEAN
          /\ waiting' \subseteq Requests
      BY <1>1, <1>8 DEF ConnectionInv
    <3> QED
      BY <2>1, <2>5, <2>6, <3>1, <3>2 DEF ConnectionInv
<1> QED
  BY <1>3, <1>6, <1>7, <1>8

LEMMA RunKeeps ==
  ASSUME ConnectionInv, Connection!RunRequests
  PROVE  ConnectionInv'
<1>1. /\ main # <<>> /\ Head(main).kind = "run" /\ main' = Tail(main)
      /\ waiting' = waiting \ RunsOf(Head(main))
      /\ UNCHANGED <<link, steady, queue, scheduled, delay, timers>>
  BY DEF Connection!RunRequests, RunsOf
<1>2. /\ main' \in Seq(Posts) /\ Cardinality(Due(main')) = Cardinality(Due(main))
      /\ \A n : Has(main, n) <=> Has(main', n) \/ n = Head(main)
      /\ Held(main', queue', waiting')
  BY <1>1, MessageTaken DEF ConnectionInv
<1>3. Load(link', timers', main') = Load(link, timers, main)
  BY <1>1, <1>2 DEF Load
<1>4. Awaited(link, main, queue, scheduled, timers)'
  BY <1>1, <1>2, <1>3, MessagesDiffer DEF ConnectionInv, Awaited
<1> QED
  BY <1>1, <1>2, <1>3, <1>4 DEF ConnectionInv

LEMMA DisconnectedKeeps ==
  ASSUME ConnectionInv, Connection!OnBillingServiceDisconnected
  PROVE  ConnectionInv'
<1>1. /\ link = "up" /\ ~steady /\ link' = "down"
      /\ UNCHANGED <<steady, queue, scheduled, delay, main, timers, waiting>>
  BY DEF Connection!OnBillingServiceDisconnected
<1>2. Load(link', timers', main') = Load(link, timers, main)
  BY <1>1 DEF Load
<1>3. Awaited(link, main, queue, scheduled, timers)'
  BY <1>1 DEF ConnectionInv, Awaited
<1> QED
  BY <1>1, <1>2, <1>3 DEF ConnectionInv

LEMMA ConnectionNextKeeps ==
  ASSUME ConnectionInv, Connection!Next
  PROVE  ConnectionInv'
  BY ExecuteKeeps, DelayEndsKeeps, StartKeeps, AttemptEndsKeeps, SetupKeeps, RunKeeps,
     DisconnectedKeeps DEF Connection!Next

LEMMA ConnectionInit == Connection!Init => ConnectionInv
<1> SUFFICES ASSUME Connection!Init PROVE ConnectionInv
  OBVIOUS
<1>1. main = <<>> /\ queue = {} /\ waiting = {} /\ timers = 0 /\ link = "down" /\ delay = 1
      /\ scheduled = FALSE /\ steady \in BOOLEAN
  BY DEF Connection!Init
<1>2. main \in Seq(Posts) /\ DOMAIN main = {}
  BY <1>1
<1>3. Due(main) = {} /\ Cardinality(Due(main)) = 0
  BY <1>2, FS_EmptySet DEF Due
<1>4. Held(main, queue, waiting)
  BY <1>1, <1>2 DEF Held
<1>5. Load(link, timers, main) <= MaxTasks
  BY <1>1, <1>3, ConnectionsAssumption DEF Load
<1>6. Awaited(link, main, queue, scheduled, timers)
  BY <1>1, <1>2 DEF Awaited, Has
<1>7. delay \in 1..MaxDelay
  BY <1>1, ConnectionsAssumption
<1> QED
  BY <1>1, <1>2, <1>4, <1>5, <1>6, <1>7 DEF ConnectionInv

LEMMA ConnectionImplies == ConnectionInv => Connection!IInv
<1> SUFFICES ASSUME ConnectionInv PROVE Connection!IInv
  OBVIOUS
<1>1. /\ timers \in Nat /\ Load(link, timers, main) <= MaxTasks /\ MaxTasks \in Nat
      /\ Cardinality(Due(main)) \in Nat /\ Connection!Connections = Load(link, timers, main)
  BY QueueType, ConnectionsAre DEF ConnectionInv
<1>2. timers \in 0..MaxTasks
  BY <1>1 DEF Load
<1>3. Connection!TypeOK
  BY <1>2, QueueType DEF ConnectionInv, Connection!TypeOK, Posts
<1>4. \A i : Connection!Runs(i) = RunsOf(main[i])
  BY DEF Connection!Runs, RunsOf
<1>5. Connection!RequestsAreHeld
  BY <1>4 DEF ConnectionInv, Held, Connection!RequestsAreHeld
<1>6. Connection!QueueIsAwaited
  BY <1>1 DEF ConnectionInv, Awaited, Has, Connection!QueueIsAwaited, Connection!IsDue
<1> QED
  BY <1>1, <1>3, <1>5, <1>6 DEF Connection!IInv

-----------------------------------------------------------------------------
(* Both, side by side *)

\* The scheduler keeps its invariant, and the connection its own: no retry adds a
\* connection, every command has one message that will answer it or is in the queue, and
\* what is in the queue of a steady service has a connection to wait for
\* (RevenueCatPlugin.kt:264, 345).
THEOREM SchedulersHold == SchedulersSpec => []SchedulersIInv
<1>1. SchedulersInit => IInv /\ ConnectionInv
  BY InitIInv, ConnectionInit DEF SchedulersInit
<1>2. IInv /\ ConnectionInv /\ [SchedulersNext]_<<part, vars, connection>>
        => (IInv /\ ConnectionInv)'
  <2> SUFFICES ASSUME IInv, ConnectionInv, [SchedulersNext]_<<part, vars, connection>>
               PROVE  IInv' /\ ConnectionInv'
    OBVIOUS
  <2>1. UNCHANGED vars => IInv'
    BY IInvStep
  <2>2. UNCHANGED connection => ConnectionInv'
    <3>1. ASSUME UNCHANGED connection
          PROVE  UNCHANGED <<link, steady, queue, scheduled, delay, main, timers, waiting>>
      BY <3>1 DEF connection
    <3> QED
      BY <3>1 DEF ConnectionInv, Held, Awaited, Load, Has
  <2>3. CASE UNCHANGED <<part, vars, connection>>
    BY <2>1, <2>2, <2>3
  <2>4. CASE Next /\ UNCHANGED connection
    BY <2>2, <2>4, IInvStep
  <2>5. CASE Connection!Next /\ UNCHANGED vars
    BY <2>1, <2>5, ConnectionNextKeeps
  <2> QED
    BY <2>3, <2>4, <2>5 DEF SchedulersNext
<1>3. IInv /\ ConnectionInv => SchedulersIInv
  BY ConnectionImplies DEF SchedulersIInv
<1> QED
  BY <1>1, <1>2, <1>3, PTL DEF SchedulersSpec
=============================================================================

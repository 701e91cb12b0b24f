------------------------------- MODULE GuestSync -------------------------------
(***************************************************************************)
(* The synchronization scheduler of the guest JavaScript                   *)
(* (guest-js/index.ts): native store events, the loop that synchronizes    *)
(* with retries, the background timer, and the purchases and identity      *)
(* changes that wait for a pending recovery.                               *)
(*                                                                         *)
(* JavaScript runs one task at a time, so everything between two answers   *)
(* of the native side is one step.  A call that waits for the promise      *)
(* nativeSyncInFlight goes on when that very promise settles.  The delays  *)
(* (retry pauses, exponential back-off of the timer) take any time.        *)
(***************************************************************************)
EXTENDS Naturals

CONSTANTS
  Callers,     \* calls of the app to configure, purchasePackage, logIn, logOut
  Attempts,    \* NATIVE_SYNC_RETRY_DELAYS_MS.length
  PlayStore,   \* the session's store is the Play Store
  MaxEvents    \* bounds the native events and the configure calls

ASSUME AttemptsAssumption == Attempts \in Nat \ {0}
ASSUME PlayStoreAssumption == PlayStore \in BOOLEAN
ASSUME MaxEventsAssumption == MaxEvents \in Nat

VARIABLES
  recovery,   \* nativeRecoveryRequired
  requested,  \* nativeSyncRequested
  full,       \* nativeFullSyncRequested
  sync,       \* nativeSyncInFlight, and where its loop stands
  timer,      \* nativeRetryTimer is set
  retryFull,  \* nativeRetryIncludeAllOwned
  explicit,   \* explicitPurchaseRequests: the purchases that are counted
  listeners,  \* nativeTransactionListener and nativeLifecycleListeners
  call,       \* the calls of the app
  events,     \* how many native events and configure calls there were
  owed,       \* history: what the store may hold unsynchronized
  taken       \* history: what the synchronization that runs will settle

flags == <<recovery, requested, full, timer, retryFull>>
vars == <<recovery, requested, full, sync, timer, retryFull, explicit, listeners, call,
          events, owed, taken>>

Debts == {"transactions", "everything"}
Kinds == {"purchase", "identity"}
NoSync == [at |-> "none", all |-> FALSE, attempt |-> 1]
IdleCall == [at |-> "idle", kind |-> "none"]

Syncs == [at : {"none", "pausing", "invoking", "reporting"}, all : BOOLEAN, attempt : 1..Attempts]

Calls == [at : {"idle", "configuring", "listening", "waiting", "checking", "invoked"},
          kind : Kinds \union {"none"}]

TypeOK ==
  /\ recovery \in BOOLEAN /\ requested \in BOOLEAN /\ full \in BOOLEAN
  /\ timer \in BOOLEAN /\ retryFull \in BOOLEAN
  /\ sync \in Syncs
  /\ explicit \subseteq Callers
  /\ listeners \in {"none", "partial", "adding", "added"}
  /\ call \in [Callers -> Calls]
  /\ events \in 0..MaxEvents
  /\ owed \subseteq Debts /\ taken \subseteq owed

-----------------------------------------------------------------------------
(* The scheduler *)

\* What a synchronization of pending, or of all owned, transactions settles.
Covered(debts, all) == IF all THEN debts ELSE debts \ {"everything"}

\* The loop starts its next round: both requests are taken back and the
\* native command is invoked.
Round(all, debts) ==
  /\ requested' = FALSE
  /\ full' = FALSE
  /\ sync' = [at |-> "invoking", all |-> all, attempt |-> 1]
  /\ taken' = Covered(debts, all)

\* Faulty variant of Free: a counted purchase does not hold the loop back.
NoLoop(purchases) == sync.at = "none"

\* The loop may start: it does not run and no purchase is counted.
Free(purchases) == sync.at = "none" /\ purchases = {}

\* requestNativeSync, on account of `debts`.
Request(all, free, debts) ==
  /\ owed' = owed \union debts
  /\ \/ free /\ Round(full \/ all, owed \union debts)
     \/ /\ ~free
        /\ requested' = TRUE
        /\ full' = (full \/ all)
        /\ taken' = taken \ debts
        /\ UNCHANGED sync

\* Faulty variant of StillNeedsFull: what the cleared timer stood for is lost.
QueuedFull(all) == full /\ ~all

\* stillNeedsFullSync
StillNeedsFull(all) == (full \/ retryFull) /\ ~all

\* Faulty variant of RecoveryAfter: events that came meanwhile are not counted.
RecoveryAfterFullOnly(all) == StillNeedsFull(all)

\* nativeRecoveryRequired after a successful synchronization
RecoveryAfter(all) == requested \/ StillNeedsFull(all)

\* Faulty variant of Released: nobody is told that the promise settled.
KeptWaiting == call

\* The promise nativeSyncInFlight settles: the calls that wait for it go on.
Released ==
  [c \in Callers |-> IF call[c].at = "waiting" THEN [call[c] EXCEPT !.at = "checking"]
                     ELSE call[c]]

\* The native command fails and is tried again after a pause...
AttemptFails ==
  /\ sync.at = "invoking"
  /\ sync.attempt < Attempts
  /\ sync' = [sync EXCEPT !.at = "pausing", !.attempt = @ + 1]
  /\ taken' = {}
  /\ UNCHANGED <<flags, explicit, listeners, call, events, owed>>

PauseEnds ==
  /\ sync.at = "pausing"
  /\ sync' = [sync EXCEPT !.at = "invoking"]
  /\ taken' = Covered(owed, sync.all)
  /\ UNCHANGED <<flags, explicit, listeners, call, events, owed>>

\* Faulty variant of SyncGivesUp: one more attempt than there are delays.
SyncTriesAgain ==
  /\ sync.at = "invoking"
  /\ sync.attempt = Attempts
  /\ sync' = [sync EXCEPT !.at = "pausing", !.attempt = @ + 1]
  /\ taken' = {}
  /\ UNCHANGED <<flags, explicit, listeners, call, events, owed>>

\* ... and after the last attempt it is left to the timer; the error is
\* emitted before the loop returns.
SyncGivesUp ==
  /\ sync.at = "invoking"
  /\ sync.attempt = Attempts
  /\ timer' = TRUE
  /\ retryFull' = (retryFull \/ sync.all \/ full)
  /\ requested' = FALSE
  /\ full' = FALSE
  /\ sync' = [sync EXCEPT !.at = "reporting"]
  /\ taken' = {}
  /\ UNCHANGED <<recovery, explicit, listeners, call, events, owed>>

\* emit settles: the loop returns, and starts again if it was asked to.
Reported ==
  /\ sync.at = "reporting"
  /\ call' = Released
  /\ IF requested /\ explicit = {}
       THEN Round(full, owed)
       ELSE sync' = NoSync /\ UNCHANGED <<requested, full, taken>>
  /\ UNCHANGED <<recovery, timer, retryFull, explicit, listeners, events, owed>>

\* recordNativeSyncSuccess, then the next round or the end of the loop.
SyncSucceeds ==
  LET all == sync.all IN
  /\ sync.at = "invoking"
  /\ owed' = owed \ taken
  /\ timer' = FALSE
  /\ retryFull' = FALSE
  /\ recovery' = RecoveryAfter(all)
  /\ IF requested \/ StillNeedsFull(all)
       THEN Round(full \/ StillNeedsFull(all), owed') /\ UNCHANGED call
       ELSE /\ sync' = NoSync
            /\ taken' = {}
            /\ call' = Released
            /\ UNCHANGED <<requested, full>>
  /\ UNCHANGED <<explicit, listeners, events>>

TimerFires ==
  /\ timer
  /\ timer' = FALSE
  /\ retryFull' = FALSE
  /\ Request(retryFull, Free(explicit), {})
  /\ UNCHANGED <<recovery, explicit, listeners, call, events>>

\* transaction-updated, window resumed, window focused
NativeEvent ==
  /\ events < MaxEvents
  /\ listeners # "none"
  /\ events' = events + 1
  /\ recovery' = TRUE
  /\ Request(FALSE, Free(explicit), {"transactions"})
  /\ UNCHANGED <<timer, retryFull, explicit, listeners, call>>

-----------------------------------------------------------------------------
(* configure *)

Enters(c, step, kind) == call' = [call EXCEPT ![c] = [at |-> step, kind |-> kind]]
Ends(c) == call' = [call EXCEPT ![c] = IdleCall]

StartConfigure(c) ==
  /\ events < MaxEvents
  /\ call[c].at = "idle"
  /\ events' = events + 1
  /\ Enters(c, "configuring", "none")
  /\ UNCHANGED <<flags, sync, explicit, listeners, owed, taken>>

\* The session uses the native store: the listeners are installed once, by
\* whoever comes first.
SessionConfigured(c) ==
  /\ call[c].at = "configuring"
  /\ Enters(c, "listening", "none")
  /\ listeners' = IF listeners = "added" THEN "added" ELSE "adding"
  /\ UNCHANGED <<flags, sync, explicit, events, owed, taken>>

\* The command fails, or the session uses the Test Store.
ConfigureEnds(c) ==
  /\ call[c].at = "configuring"
  /\ Ends(c)
  /\ UNCHANGED <<flags, sync, explicit, listeners, events, owed, taken>>

ListenersAdded ==
  /\ listeners = "adding"
  /\ listeners' = "added"
  /\ UNCHANGED <<flags, sync, explicit, call, events, owed, taken>>

\* An installation fails: every configure that waits for it is rejected, and
\* the next one installs again what is missing.
ListenersFail ==
  /\ listeners = "adding"
  /\ listeners' \in {"none", "partial"}
  /\ call' = [c \in Callers |-> IF call[c].at = "listening" THEN IdleCall ELSE call[c]]
  /\ UNCHANGED <<flags, sync, explicit, events, owed, taken>>

\* On the Play Store everything owned is reconciled once per configure.
Configured(c) ==
  /\ call[c].at = "listening"
  /\ listeners = "added"
  /\ recovery' = TRUE
  /\ Request(PlayStore, Free(explicit), IF PlayStore THEN Debts ELSE {"transactions"})
  /\ Ends(c)
  /\ UNCHANGED <<timer, retryFull, explicit, listeners, events>>

-----------------------------------------------------------------------------
(* purchasePackage, logIn, logOut *)

\* The call passes waitForNativeRecovery; a purchase is counted.
Passes(c, kind) ==
  /\ Enters(c, "invoked", kind)
  /\ explicit' = IF kind = "purchase" THEN explicit \union {c} ELSE explicit

\* waitForNativeRecovery: nothing to recover, a loop to wait for (the one that
\* runs or one that is started), or an error.
StartCall(c, kind) ==
  /\ call[c].at = "idle"
  /\ \/ /\ ~recovery
        /\ Passes(c, kind)
        /\ UNCHANGED <<requested, full, sync, owed, taken>>
     \/ /\ recovery
        /\ IF sync.at = "none"
             THEN Request(FALSE, Free(explicit), {})
             ELSE UNCHANGED <<requested, full, sync, owed, taken>>
        /\ IF sync'.at = "none" THEN UNCHANGED call ELSE Enters(c, "waiting", kind)
        /\ UNCHANGED explicit
  /\ UNCHANGED <<recovery, timer, retryFull, listeners, events>>

\* The loop it waited for is over.
GoesOn(c) ==
  /\ call[c].at = "checking"
  /\ IF recovery
       THEN Ends(c) /\ UNCHANGED explicit
       ELSE Passes(c, call[c].kind)
  /\ UNCHANGED <<flags, sync, listeners, events, owed, taken>>

\* Faulty variant of PurchaseSucceeds: requests held back are not taken up.
PurchaseJustEnds(c) ==
  /\ c \in explicit
  /\ explicit' = explicit \ {c}
  /\ Ends(c)
  /\ UNCHANGED <<flags, sync, listeners, events, owed, taken>>

\* The last purchase to end takes up the requests that were held back.
PurchaseSucceeds(c) ==
  /\ c \in explicit
  /\ explicit' = explicit \ {c}
  /\ IF explicit' = {} /\ requested
       THEN Request(full, Free({}), {})
       ELSE UNCHANGED <<requested, full, sync, owed, taken>>
  /\ Ends(c)
  /\ UNCHANGED <<recovery, timer, retryFull, listeners, events>>

\* A purchase that fails may have reached the store.
PurchaseFails(c) ==
  /\ c \in explicit
  /\ recovery' = TRUE
  /\ explicit' = explicit \ {c}
  /\ Request(FALSE, Free(explicit'), {"transactions"})
  /\ Ends(c)
  /\ UNCHANGED <<timer, retryFull, listeners, events>>

IdentityAnswered(c) ==
  /\ call[c].at = "invoked" /\ call[c].kind = "identity"
  /\ Ends(c)
  /\ UNCHANGED <<flags, sync, explicit, listeners, events, owed, taken>>

-----------------------------------------------------------------------------
Init ==
  /\ recovery = FALSE /\ requested = FALSE /\ full = FALSE
  /\ timer = FALSE /\ retryFull = FALSE
  /\ sync = NoSync
  /\ explicit = {}
  /\ listeners = "none"
  /\ call = [c \in Callers |-> IdleCall]
  /\ events = 0
  /\ owed = {} /\ taken = {}

SyncAnswered == AttemptFails \/ SyncGivesUp \/ SyncSucceeds

CallGoesOn(c) ==
  \/ SessionConfigured(c) \/ ConfigureEnds(c) \/ Configured(c)
  \/ GoesOn(c)
  \/ PurchaseSucceeds(c) \/ PurchaseFails(c) \/ IdentityAnswered(c)

Next ==
  \/ SyncAnswered \/ PauseEnds \/ Reported \/ TimerFires
  \/ NativeEvent \/ ListenersAdded \/ ListenersFail
  \/ \E c \in Callers :
       \/ StartConfigure(c)
       \/ \E kind \in Kinds : StartCall(c, kind)
       \/ CallGoesOn(c)

Spec == Init /\ [][Next]_vars

\* Timers fire, promises settle, and a synchronization that is tried again and
\* again succeeds in the end, of either kind.
Fairness ==
  /\ WF_vars(SyncAnswered) /\ WF_vars(PauseEnds) /\ WF_vars(Reported)
  /\ WF_vars(TimerFires)
  /\ WF_vars(ListenersAdded \/ ListenersFail)
  /\ \A all \in BOOLEAN : SF_vars(SyncSucceeds /\ sync.all = all)
  /\ \A c \in Callers : WF_vars(CallGoesOn(c))

FairSpec == Spec /\ Fairness

-----------------------------------------------------------------------------
(* Properties *)

\* As long as an event, a failed purchase or a configure has not been followed
\* by a synchronization that covers it, new purchases and identity changes are
\* held back.
DebtHoldsCallsBack == owed # {} => recovery

\* What is owed is never forgotten: the loop is working on it, or it is still
\* requested, or the timer is set for it; a full reconciliation is never
\* downgraded to a pending one, however requests, failures, retries and
\* successes of the other kind interleave.
NothingForgotten ==
  LET running == sync.at \in {"pausing", "invoking"} IN
  /\ "transactions" \in owed =>
       \/ running \/ timer
       \/ requested /\ (explicit # {} \/ sync.at = "reporting")
  /\ "everything" \in owed => full \/ (running /\ sync.all) \/ (timer /\ retryFull)

\* An explicit purchase and the synchronization loop never run together.
PurchaseNeverMeetsSync == explicit # {} => sync.at = "none"

\* The inductive invariant behind the three.  Whatever there is to do, done or
\* not, is covered by nativeRecoveryRequired; a full request is a request, and a
\* full retry has a timer; a request is left aside only while a purchase is
\* counted, a loop runs or its error is reported; and what came after the native
\* command was invoked, which it need not have seen, is requested again.
WorkNeedsRecovery ==
  sync.at # "none" \/ requested \/ timer \/ owed # {} => recovery

RequestsAreCarried ==
  /\ full => requested
  /\ retryFull => timer
  /\ requested => sync.at # "none" \/ explicit # {}

LateDebtsAreRequested ==
  sync.at = "invoking" =>
    /\ "transactions" \in owed \ taken => requested
    /\ "everything" \in owed \ taken => full \/ ~sync.all

IInv ==
  /\ TypeOK
  /\ WorkNeedsRecovery /\ RequestsAreCarried /\ LateDebtsAreRequested
  /\ NothingForgotten /\ PurchaseNeverMeetsSync

\* Everything owed is synchronized in the end, if the events stop coming.
DebtsAreSettled == owed # {} ~> owed = {}

\* A purchase or an identity change that waits for recovery is answered.
WaitingCallsGoOn == \A c \in Callers : call[c].at = "waiting" ~> call[c].at # "waiting"
=============================================================================

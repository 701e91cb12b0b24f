# A TLA+ verification of revenuecat-rs

This directory holds TLA+ specifications of the RevenueCat SDK in this
repository, TLC configurations that check them on small instances, and proofs
that TLAPS checks for every instance. Paths below are relative to the
repository; `purchases.rs` and its neighbours are in `crates/revenuecat/src`,
`commands.rs` in `crates/tauri-plugin-revenuecat/src`, `index.ts` in
`crates/tauri-plugin-revenuecat/guest-js`.

Run `tlc -config CoreConcurrent.cfg MCPurchasesCore.tla` (and so on, see the
table of runs) for a check, `tlapm PurchasesCoreProofs.tla` (and so on, for each
module whose name ends in `Proofs`) for the proofs.

## 1. The system

An app buys through a store (Google Play, App Store, or a simulated Test
Store) and a RevenueCat backend decides what the user is entitled to. The SDK
sits between the two. Its one job that must not go wrong: a transaction that
the store sold is posted to the backend for the user who bought it, and only
then acknowledged in the store, whatever fails or runs concurrently.

| component | source | state it keeps | operations |
|---|---|---|---|
| facade | `purchases.rs`, `purchases/identity_operations.rs`, `identity.rs`, `cache.rs` | current user, pending identity transition, recovery flag, two async locks, caches, listener | configure, purchase, restore, two synchronizations, logIn, logOut, customer info, offerings |
| customer operations | `purchases/customer_operations.rs` | (caches) | attributes, redemption, virtual currencies, diagnostics flush |
| store options | `purchases/store_options.rs` | option registry, launched plans | register from offerings, resolve for a purchase, clear |
| diagnostics | `diagnostics.rs` | bounded event queue, `syncing` flag | track, drain, requeue |
| HTTP | `http/client.rs`, `http/etag.rs`, `security/signature.rs` | ETag store | request with retry, 304 replay, response verification |
| backend | `backend.rs` | none | one request per endpoint |
| store interface | `billing/mod.rs`, `billing/simulated.rs` | the store's own | query, purchase, finish |
| plugin commands | `commands.rs`, `commands/identity_persistence.rs` | the configured SDK, the identity journal on disk | configure, logIn, logOut, forwards |
| native bridge | `mobile.rs`, Kotlin and Swift plugins | purchase callbacks in flight | IPC to the stores |
| Android journal | `PendingPurchaseStore.kt`, `SharedPreferencesLocalTransactionMetadataStore.kt` | launched purchases and their receipt context | prepare, correlate, finish |
| iOS journal | `LocalTransactionMetadataStore.swift` | receipt context per transaction | prepare, bind, remove |
| guest JS | `index.ts` | request flags, the running synchronization, retry timer, purchase counter | configure, purchasePackage, logIn, logOut, native events |
| configuration | `configuration.rs`, `commands.rs` | the one instance of the process, the lock of `configure` | validation, `configure` |
| models, errors | `models/*`, `error.rs` | none | JSON |
| mock backend, demo | `crates/revenuecat-mock`, `demo` | test doubles | |

How they interact: JS calls commands over IPC; a command calls the facade; the
facade calls the store interface (on mobile, over IPC into Kotlin or Swift) and
the backend; native store events travel back to JS, which asks for a
synchronization; the commands give the facade two callbacks, *prepare* and
*commit*, with which an identity change is journaled on disk.

What is hard here:

- **Interleaving.** Every `.await` of the facade lets other calls run. Two
  locks serialize what must not interleave, flags carry what must be
  remembered between calls, and reads run outside the locks.
- **Partial failure.** A purchase can fail after the store sold it, a post
  after the backend took it, a finish after it took effect, a future can be
  dropped at any await. What is owed has to survive until a later call.
- **Crash and restart.** An identity change spans memory, disk and backend;
  the process may die between any two of them.
- **Stale state.** Answers arrive after the user changed; the journal is read
  before a lock is waited for.
- **Retry and scheduling.** JS merges requests of two strengths, retries, backs
  off, and must not overlap a purchase nor forget a request.

What makes each component correct:

- facade: attribution, recovery, gates that cannot wedge, caches that do not
  mix users, calls that return (all in `PurchasesCore`);
- commands and journal: a restart continues as the right user and completes
  what was journaled (`IdentityCommands`);
- guest JS: nothing owed is forgotten, a purchase does not meet a
  synchronization, waiting calls are answered (`GuestSync`);
- diagnostics: the queue is bounded, one flush has a batch at a time, and what
  is given up leaves a marker (`Diagnostics`);
- HTTP: a result is as verified as it says, stored answers included, and what
  the backend may have acted on is not sent again (`HttpClient`, `MockBackend`);
- store options: a package is bought with the plan it was offered with
  (`StoreOptions`);
- configuration: who is told "configured" has the instance it asked for
  (`Configuration`);
- customer caches: what was invalidated or cleared is only brought back by an
  answer for the same user that was on its way at that moment (`CustomerCaches`);
- customer info: what ended is not granted by an answer that was fetched, however
  old the stored answer is that the backend confirmed (`Entitlements`);
- connection to Play: no command stays in the queue (`BillingConnection`);
- native journals: the receipt context of a transaction is the one of the
  call that bought it, survives a restart, and goes when the transaction is
  finished (Android: `PendingPurchases`, iOS: `StoreKitPurchases`); on iOS, every
  update of a transaction is notified or belongs to the purchase that returned it.

## 2. Modules

| module | models |
|---|---|
| `ReceiptLedger` | the abstract promise: a transaction is credited to its owner, and to nobody else before it is closed |
| `PurchasesCore` | the facade's calls over its shared state, the store and the backend |
| `PurchasesCoreProofs` | theorems about `PurchasesCore` |
| `MCPurchasesCore`, `MCPurchasesReturns` | its instances for TLC |
| `IdentityCommands` | configure, log_in, log_out over the durable journal, with crashes |
| `IdentityCommandsProofs` | theorems about `IdentityCommands` |
| `MCIdentityCommands` | its instances for TLC |
| `GuestSync` | the JavaScript scheduler |
| `GuestSyncProofs` | theorems about `GuestSync` and `BillingConnection` |
| `BillingConnection` | the queue of commands of the Android plugin and its connection to Play |
| `MCGuestSync` | the scheduler and the connection side by side, for TLC |
| `PendingPurchases` | the Android purchase flow and its journal, with Play, failed writes and crashes |
| `PendingPurchasesProofs` | theorems about `PendingPurchases`, whatever Play does |
| `PromptPurchasesProofs` | theorems about `PendingPurchases` with a prompt Play |
| `MCPendingPurchases` | its instances for TLC |
| `ConfigureOptions` | the options of `configure`: what the process remembers of them, and which make a client |
| `Configuration` | `configure` from its options to the one instance of the process |
| `ConfigurationProofs` | theorems about `Configuration` |
| `DeviceCache` | the caches per user and the policies they are read with |
| `CustomerCaches` | reads, redemptions, invalidations and identity changes over `DeviceCache` |
| `CustomerCachesProofs` | theorems about `CustomerCaches` |
| `MockBackend` | the backend's handlers, as operators from its state and a request to the next state and the reply |
| `BackendErrors` | how an error answer becomes an error code of the SDK |
| `HttpClient` | requests over the ETag cache, with verification and retries, against `MockBackend` and a lossy network |
| `Diagnostics` | the diagnostics queue and its flushes |
| `StoreOptions` | offerings, the registry of plans, and the start of a package's purchase |
| `StoreKitPurchases` | the iOS plugin with its two actors, over StoreKit and restarts |
| `Entitlements` | granting, envelope, reading and keeping what a customer is entitled to |
| `MCClient` | seven components, one per behaviour, for TLC: `Configuration`, `CustomerCaches`, `HttpClient`, `Diagnostics`, `StoreOptions`, `StoreKitPurchases`, `Entitlements` |
| `MCClientProofs` | theorems about each part of `MCClient` |

`HttpClient` runs on `MockBackend`, and `Diagnostics` decides by `BackendErrors`
what to do about a refusal. The other modules do not share state: each takes the
others' part of the system as an environment that does what the code on the
other side may do. What they share is named alike (`recovery`, `Refused`,
`Restart`), and the plan composes two of them. Where one run checks several
components (`MCGuestSync`, `MCClient`), the variable `part` says which of them a
behaviour is about, and the others stand still: the run asks each its own
questions, and none about both.

Operators whose comment begins with "Faulty variant of" are not part of a
model: each is a definition as a plausible mistake in the code would have it,
kept to show that the property it is paired with in `PROJECT.json` catches the
mistake.

### PurchasesCore

One call per caller; its local variables are the record `call[c]`, whose field
`at` names the await it stands at. What the code does between two awaits is one
action.

| code | model |
|---|---|
| `IdentityManager` | `user` |
| `pending_identity_transition`, `identity_transition_pending` | `pending` |
| `native_purchase_recovery_required` | `recovery` |
| `store_transaction_operation`, `identity_operation` | `storeHolder`, `identityHolder` |
| `DeviceCache` (customer info) | `cache` |
| purchase: try_lock, lock and guards, store, post, finish | `StartPurchase`, `PurchaseEntersStore`, `StoreDelivers` / `StoreDefers`, `ReceiptAccepted`, `TransactionFinished` |
| synchronization: lock, lock and guard, query, post and finish each | `StartSync`, `SyncHoldsStore`, `SyncQueries`, `StoreAnswersQuery`, `ReceiptAccepted`, `TransactionFinished`, or for an empty store `BackendAnswersFetch`, `FetchStored` |
| logIn, logOut: lock, guards and prepare, request, commit and switch | `StartLogIn` / `StartLogOut`, `LogInPrepares` / `LogInAgain` / `LogOutPrepares`, `SwitchCommitted` |
| a guard that refuses | `Refused` |
| `?` on an awaited result; a dropped future | `CallFails`, `FinishReplyLost`, the second disjuncts of `StoreDelivers` and `ReceiptAccepted`; `CallDropped` |

Customer info is the set of transactions credited to the user when the backend
answered. The store holds each transaction at a stage: absent, deferred (a
pending payment), unfinished, finished. The store's query returns everything
unfinished: that is what `billing/mod.rs` (lines 112-137) asks of an adapter.

`delivered` is a history variable: the transaction was bought while the
purchase call that launched it, or a later one of the same user, was waiting
for it. The attribution properties are about these. A pending payment that
completes after its call returned, a renewal, or a promotion reaches the SDK
through a synchronization, which posts it for whoever is the user then; the
facade promises nothing else about them. A dropped future is not told apart
from an error, except that the store's window stays open in the code: a
purchase that completes there is the deferred case.

The process is alive throughout: `recovery` is memory and is lost with it.

### IdentityCommands

| code | model |
|---|---|
| `Sdk.inner` | `configured` |
| the journal file, `PersistedIdentity` | `disk` |
| `persist` | `Persisted` (replaced, success) or `PersistFails` (an error, before or after the file was replaced) |
| `configure` without / with a journaled transition | `ConfigureSettled` / `ConfigureResumes`, `ResumeCommitted`, `ResumeFails` |
| `log_in`, `log_out` up to the lock | `StartLogIn`, `StartLogOut`: the journal is read here |
| `log_in_internal`, `log_out_internal` | `LogInPrepares`, `LogInAgain`, `LogOutPrepares`, `SwitchCommitted`, `CommitFails`, `RequestFails`, `Refused` |
| process death | `Crash` |

`issued` and `used` are history variables: the generated ids and the ids that
have been current. The file is replaced atomically (`atomic_write_file`) and
what was replaced survives the process; a power failure is not modelled. The
refusals of the facade other than a marked transition are the action `Refused`,
which may always happen.

### GuestSync

| code | model |
|---|---|
| `nativeRecoveryRequired`, `nativeSyncRequested`, `nativeFullSyncRequested` | `recovery`, `requested`, `full` |
| `nativeSyncInFlight` and the local state of its loop | `sync` |
| `nativeRetryTimer`, `nativeRetryIncludeAllOwned` | `timer`, `retryFull` |
| `explicitPurchaseRequests` | `explicit`, the set of counted calls |
| `requestNativeSync` | `Request` |
| `recordNativeSyncSuccess` | `SyncSucceeds` |
| `scheduleNativeSyncRetry` | `SyncGivesUp`, `TimerFires` |
| `waitForNativeRecovery` | `StartCall`, `GoesOn` |
| `purchasePackage` | `PurchaseSucceeds`, `PurchaseFails` |
| `configure` | `StartConfigure`, `SessionConfigured`, `Configured`, `ListenersAdded`, `ListenersFail` |

`owed` and `taken` are history variables: what the store may hold that no
synchronization has covered (transactions after an event, everything after a
configure on the Play Store), and which of it the running one will settle.
Delays take any time, so the back-off is not modelled; the calls that do not
touch the scheduler (restore, reads) are left out. The two listeners are one.

### PendingPurchases

`PendingPurchaseStore.kt`, its journal in the shared preferences, and the
commands of `RevenueCatPlugin.kt` around them. Every method of the store is
synchronized and is one step; what lies between is asynchronous.

| code | model |
|---|---|
| `purchases` (callback and product; the store admits one) | `purchases` |
| `deferredPurchases`, `completedCorrelations`, `metadataPersistenceFailed` | the same names |
| the shared preferences; a journal that does not parse | `disk`, `corrupt` |
| `purchase` up to the answer of Play's query | `Purchase`, `Snapshots` |
| `prepareForPurchase` and the rejections after it | `PrepareForPurchase` |
| `beginPurchase`: `register`; the sheet, or `failPendingPurchase` | `Register`; `Launch` |
| `onPurchasesUpdated`: a purchased, a pending, any other answer | `HearPurchased`, `HearPending`, `HearFailure` |
| `executePurchaseQuery`, `reconcile` | `QueryPurchases`, `QueryAnswers` |
| `finishTransaction`: the journal, then Play | `FinishTransaction`, `PlayFinishes` |
| a new process, `restoreDurableCorrelations` | `Restart` |
| Google Play (external) | `SheetCloses`, `Gift`, `PaymentCompletes`, `PaymentCancelled` |

A purchase context is worth only whose it is, so the call stands for it.
`handed` and `history` record what was given to the app, what the bounds count
and which tokens are older than a call.

Play is free to announce late, to answer with an empty list, and to report an
error although it sold the product. The constant `Prompt` takes one freedom
from it: with `Prompt`, nothing comes between the snapshot that a purchase works
on and the opening of its sheet, an announcement is heard before anything else
happens, no purchase from elsewhere is of the product whose sheet is open, and a
sheet left over by a process that died closes before the next purchase. The code
decides by product and not by token when a purchase it does not know yet is
announced, so it cannot tell such a purchase from its own: the properties about
whose a transaction is (`OlderNeverConsumesNewer`, `ContextIsTrue`,
`NoSecondPayment`) hold with `Prompt` only. The other properties of
`android_purchases` share its larger instance; those of `android_store` are
checked without `Prompt`.

### BillingConnection

| code | model |
|---|---|
| `billingClient.isReady`, and the state between | `link`: down, connecting, up |
| `serviceRequests` | `queue`; a request is what a command wants done once connected |
| `reconnectionAlreadyScheduled`, `reconnectMilliseconds` | `scheduled`, `delay` |
| messages of the main looper, those with a delay | `main`, `timers` |
| `executeRequestOnUIThread` | `ExecuteRequest` |
| `executePendingRequests` | `ExecutePending`: asks before every request whether the client is ready |
| `startConnection` | `StartConnection`; a client that is connecting answers `DEVELOPER_ERROR`; a call that throws gives up what is queued |
| `onBillingSetupFinished` | `AttemptEnds` (the client's thread), `OnBillingSetupFinished` (the looper) |
| `withConnectedClient` | `RunRequests` |

Response codes are grouped by what the code makes of them: accepted, given up,
tried again. `steady` chooses whether the service may disconnect by itself. If
it may, a command can stay in the queue until the next one comes:
`onBillingServiceDisconnected` does nothing, and the loop over the queue stops
when the client is no longer ready. `QueueIsServed` is about a steady service.

### Configuration

| code | model |
|---|---|
| `ConfigureOptions`, with what is missing or malformed | a record per call, from `CallOptions` |
| `ConfigureFingerprint::from_options` | `Fingerprint` |
| `ConfigurationBuilder::build`, `HttpClient::new` | `Valid`, `ClientOf` |
| `Sdk.inner`, `Sdk.configuration_operation` | `instance`, `holder` |
| `configure` up to the lock | `Configure` |
| ... with an instance / without one | `EnterConfigured` / `EnterFirst` |
| `resolve_initial_identity`, the conflict with a journaled transition | `InitialUsers`, `Conflicts` |
| the awaits under the lock | `StoreAnswers` (is it a sandbox), `TransitionResumed` |
| `settle_initial_identity` | `Settle`, `Install` |
| process death | `Restart` |

A value of an option is told apart only as far as the code does: a key is of the
Test Store, of a native store or blank; a proxy is https, loopback, http or
malformed. While there is an instance, identity commands change the journal: at a
restart it may be any (`IdentityCommands` says which).

### CustomerCaches

| code | model |
|---|---|
| `DeviceCache` | `cached`: per kind and user, the version of the data an entry was made from |
| the identity lock, the current user | `identity`, `user` |
| reads and redemptions: wait for identity changes, take the user, then the entry or a request | `GetCustomerInfo`, `GetVirtualCurrencies`, `RedeemWebPurchase`; `UserSettled`; `AnsweredFromCache`, `Fetch`, `Handled`, `AnswerStored`, `Fails` |
| identity changes as far as caches go | `ChangeIdentity`, `IdentityBegins`, `SwitchUser`, `ClearIdentityScopedState`, `NewInfoStored` |
| `invalidate_customer_info_cache`, `invalidate_virtual_currencies_cache` | `Invalidate` |

`now` is the version of the backend's data; an answer carries the version it was
made from. `dropped` is a history variable, the last drop of each entry: what the
backend had then (`at`), the calls whose older answers were on their way then and
still are (`late`), and whether one of those made the entry that is there
(`revived`). A late answer does bring back what was dropped, in the code as in the
model: no request is cancelled and no answer is compared with the time of a drop.
`OnlyLateAnswersRevive` says that nothing else does: an entry older than its last
drop was made by a late answer, which the backend gave for that user, and which is
stored at most once, so that a further drop is final for it. An entry that is left
behind breaks it, and so does an answer that is filed under the user of the moment.

### HttpClient and MockBackend

| code | model |
|---|---|
| `RequestOptions` per endpoint (`backend.rs`) | `Gets`, `VerifiedEndpoints`, `RetryableEndpoints` |
| `ETagManager` | `etags`, an entry per URL; `RequestETag`, `Storable` |
| `HttpClient::request`, its loop | `Call`; `NotModified`, `RateLimited`, `Retry`; `Returned` |
| `perform` | `Lost`, `Resolves`, `BackendRefuses`, `NotModified`, `RateLimited`, by the status of the answer |
| `verify_response` | `Verification`: whether the signature matches is an input (`signed`) |
| the server's handlers, `etag_response_for` | `Handled` with the operators of `MockBackend` |
| the network | `Lost`, `ServerRefuses`, `ServerHandles` with a body that is not `genuine` |

A body is what it says, about whom and when (`content`), and whether it is what
was sent (`genuine`). An ETag stands for the body it was made of. A signature
matches only a genuine body. `handled` counts how often the backend acted on a
request. Endpoints are used in pairs that meet in the cache or in the backend's
state (`Apps`). The sub-requests of a retry are told apart by `attempt` and
`refresh`.

### Diagnostics

| code | model |
|---|---|
| `entries`, `consecutive_failures`, `syncing` | `entries`, `failures`, `syncing` |
| `track`, its recursive call after a full queue | `TrackRequest`, `TrackOverflow` |
| `take_batch` | `ClaimSync` (the swap), `TakeBatch` (under the lock) |
| `batch_succeeded`, `batch_failed_fatal`, `batch_failed_retryable` | `BatchSucceeded`, `BatchFailedFatal`, `BatchFailedRetryable`, `ResetFailures`, `TrackMarker` |
| `flush_diagnostics` | the loop of these steps; its dropped future is `FlushDropped` |

`flush_diagnostics` may begin at any time, which covers `maybe_auto_flush`.
The counter of a fatal failure is reset with the queue in one step, the one of
the last retry after the flag is free (`ResetFailures`), as in the code, because
another flush may fail in between. `received` is what the host has.

### StoreOptions

| code | model |
|---|---|
| `StorePurchaseOptionRegistry`, `KnownStorePackages` | `options`, `known`, `saturated` |
| `DeviceCache.offerings` | `offers` |
| `get_offerings` | `GetOfferings`, `ServeCached`, `OfferingsArrive`, `FetchFails`, `StoreOfferings` |
| `remember_for_user` | `RememberForUser`, with `Admitted` (the limits) and `RememberOptions` (conflicts) |
| `purchase_option_for_package` | `PurchaseOptions` |
| the identity lock of a purchase | `buying` |
| `clear_identity_scoped_state` | `SwitchIdentity` |

A package is its fingerprint, an option is the plan it was offered with. The
app keeps packages as long as it likes. `issued` and `issuedNow` record what it
was given at all, and since the last switch with which option.

### StoreKitPurchases

| code | model |
|---|---|
| `LocalTransactionMetadataStore` (actor, file) | `journal`: the context of each transaction |
| `PendingPurchaseContextCache` (actor) | `cached`, `latest`, `promoting` |
| `PurchaseGate` (actor) | `gate` |
| `purchase`, `performPurchase` | `BeginPurchase`, `StoreKitSells`, `PurchasePending`, `PurchaseFails`, `StoreMetadata`, `ForgetContext`, `EndPurchase` |
| `receiptContextForSync` and what it calls | `ReadJournal` to `ConfirmPromotion`, one action per call of an actor |
| the task over `Transaction.updates` | `UpdateArrives`, `UpdateHandled` |
| `queryPurchases`, `queryPendingPurchases` | `BeginQuery`, `ScanNext`, `QueryReturns` |
| `finishTransaction` | `RemoveMetadata`, `Finish`, `FinishAgain` |
| StoreKit (external) | `BoughtElsewhere`, `PurchaseApproved`, `StoreKitSells` |

A receipt context is the number of the attempt it was given with, and a
transaction's date is the number of attempts before it. The code finds the
context of a pending purchase by product and date, so a transaction from
elsewhere of the same product can take it; the properties leave out the context
that was given up that way (`seen.gone`). Scopes (`Scope`) choose what a
behaviour makes use of; the run names three.

### Entitlements

| code | model |
|---|---|
| `grant_product`, `expiry_for`, `subscriber_envelope` (mock backend) | `GrantProduct`, `ExpiryFor`, `Granted`, `Envelope` |
| `CustomerInfo::from_response` and its builders | `FromResponse`, `BuildSubscription`, `BuildEntitlement` |
| `is_active_at`, `will_renew` | `IsActiveAt` with `Reference`, `WillRenew` |
| `get_customer_info` with its policies | `GetCustomerInfo` |
| an answer replayed from the ETag cache | `replay`, `SameAsCurrent` |

An entry of the device cache may count as fresh whatever its age. A stored
answer may be confirmed if it says the same as the current one but for its
date. A served cache entry keeps the activity that was decided when it was
stored; the property is about answers that were fetched.

## 3. Runs

| run (configuration) | instance | shows |
|---|---|---|
| `core_concurrent` (`CoreConcurrent`) | 2 callers, 2 users, 1 transaction | attribution, gates, cache, no receipt during a transition, refinement of `ReceiptLedger` |
| `core_queue` (`CoreQueue`) | 1 caller, 3 users, 2 transactions | recovery stays armed through a queue posted in part; a marked transition is only resolved by its own target; the inductive invariant |
| `core_returns` (`CoreReturns`) | 2 callers; 2 users without a transaction, or 1 user with one | every call returns, identity changes and receipts |
| `identity_journal` (`IdentityJournal`) | 2 callers, 2 names, 2 generated ids | the journal names the right user at every crash point; restarts settle it |
| `identity_logout_fresh` (`IdentityLogOutFresh`) | 2 callers, 1 name, 2 generated ids | finding 1 |
| `identity_settle_order` (`IdentitySettleOrder`) | the same | finding 2 |
| `guest_scheduler` (`GuestSyncScheduler`) | 2 callers, 3 events or configures; beside it 2 commands, 3 connections at a time | nothing is forgotten, purchases and the loop do not meet, debts are settled, waiting calls go on; the queue of commands is served |
| `android_purchases` (`AndroidPurchases`) | 2 calls, 2 products, 2 tokens, room for 2; one failed write, one crash, one purchase from elsewhere; `Prompt` | a context is its buyer's, survives, and goes with its transaction; an old token answers no new call; no second payment |
| `android_store` (`AndroidStore`) | 2 calls, 1 product, 1 token, room for 1, one failed write | the inductive invariant (the store's room and its journal); every call is answered, once |
| `android_query_room` (`AndroidQueryRoom`) | 1 call, 1 product, 1 token, room for 1; `Prompt` | finding 3 |
| `client` (`Client`) | see below | calls of configure get what they asked for; a dropped entry is only brought back by an answer that was on its way then; verified results are genuine, nothing is sent twice; diagnostics are accounted for; packages keep their plan; iOS attribution and notifications; what ended is not fetched |
| `diagnostics_retry` (`DiagnosticsRetry`) | 1 flush, 2 events | finding 4 |

Bounds. Two callers are what it takes for a stale step: one waits while the
other moves the state. A third caller adds only another waiter at the same
locks. Two users give a wrong one; a transition to a wrong target needs a
third. Two transactions give a queue that is finished in part. In
`IdentityCommands` the number of generated ids bounds how many logouts a
behaviour has, two allow a return to the first. In `GuestSync` three events or
configures (`MaxEvents`) allow one to come during a synchronization that answers
another, and one more during the retry; `Attempts` is 2 (3 in the code), which
has a first, a last and a pause between. In `PendingPurchases`, `MaxCorrelated`
is 32 in the code: with room for two tokens the store is empty, has one place
left and is full, and with room for one a single purchase takes the last place.
Two tokens give an older one and a newer one, two products a purchase that holds
more than was asked for. `MaxFaults`, `MaxCrashes` and `MaxGifts` are 1: one
failed write and one restart, in either order, are the step after which memory,
journal and Play disagree. The liveness of Android is checked without crashes:
a crash answers every call.

`guest_scheduler` checks the invariants of both of its parts, `SchedulersIInv` is
their conjunction. `TypesOK` of `client` is that of the parts that have a module of
proofs, and the types of the others.

The instance of `client`, by component. Configuration: two calls and twelve
options (`ConfiguredWith`): two that are the same to the process, others that
differ from them in one way, and one for each reason to refuse. Caches: two users, two
callers, and two changes of the backend's data (`MaxVersion`), so that an answer on
its way can be older than the entry that replaces it. HTTP: two users and two callers, who
make two requests in all (`MaxCalls`): one is under way while the other replaces
the entry or the state it meets; the backend's date changes once (`MaxTime`),
which makes an old and a new body. Diagnostics: two flushes, four events, room
for three, batches of two and two retries (2000, 200 and 3 in the code), so that
the queue overflows before, during and after a failed batch is put back.
Offerings: two users, two fingerprints and room for one (`MaxKnown`,
`MaxPerUser`), so that the registry is empty or full and a package is not
known; two plans give a conflict. iOS: one product, and the three scopes of
`MCClient` (`Scopes` is a constant, here `IosScopes`): two attempts over one
transaction beside updates and restores, two transactions beside updates, two
transactions beside a query; the journal and the remembered transactions have room
for one. Entitlements: a period of two
days, a grace of three, and eight days, which is an expiry, the grace and three
days after it.

Symmetry is used for safety only (`CoreConcurrent`, `CoreQueue`,
`AndroidPurchases`, `Client`), over callers, calls, users, transactions, tokens and
products, which are interchangeable in the specification. Deadlock is checked in
every run but three: in `guest_scheduler` and `client`, where events and requests
are bounded, and in `diagnostics_retry`, a behaviour really ends.

Fairness. In `PurchasesCore` every awaited answer arrives or the request fails
(requests have timeouts and the user leaves the store window): weak fairness on
`Answered`. Tokio's mutexes are first come, first served, so a waiter is not
overtaken for ever: strong fairness on the two lock steps. Calls are never
forced to begin. In `IdentityCommands` the host configures again after a crash,
and a resumed transition that is retried for ever succeeds at some time; the
property assumes in addition that restarts keep happening. In `GuestSync` timers
fire, promises settle, and a synchronization of either kind that is tried for
ever succeeds at some time. With events that never stop the loop need not end:
the bound on events stands for "the events stop". In `PendingPurchases` the
plugin goes on with what it began, Play answers queries and delivers what it
announces, and a sheet closes at some time (the user leaves it): weak fairness on
each; purchases are never forced to begin nor payments to complete. In
`BillingConnection` the looper handles its messages, delays end and attempts to
connect are answered: weak fairness; and an attempt that is repeated for ever is
not answered with a passing error for ever: strong fairness. The modules of
`MCClient` state no fairness: what they promise is safety.

## 4. Proofs

Eight modules hold theorems. All of them are about every value of the constants
that satisfies the assumptions, not about the instances of section 3. A theorem
without a property in the tables is an inductive invariant, which TLC checks too
where the component has a run.

`PurchasesCoreProofs`, for any sets of callers, users and transactions:

| theorem | property |
|---|---|
| `Invariance` | `IInv` |
| `TypeCorrect` | `TypeOK` (by the proof only) |
| `AttributionCorrect` | `PurchaseCreditedToItsUser` |
| `RecoveryCorrect` | `RecoveryArmed` |
| `GatesCorrect` | `GatesNeverDeadlock` |
| `CacheCorrect` | `CachedInfoIsOwn` |
| `TransitionsComplete` | `TransitionOnlyCompletes` |
| `ReceiptsFailClosed` | `NoReceiptDuringTransition` |
| `LedgerRefined` | `ImplementsReceiptLedger` |

None of the properties is inductive alone. The argument, which is `IInv`: a call
between its guards and its return holds the identity lock and remembers the
current user (`IdentityIsHeld`), so the user cannot change under it; recovery is
armed whenever a transaction is owed and only a call that knows that nothing
else is owed clears it (`CallsKnowWhatIsOwed`); a switch was prepared while
nothing was owed and its mark is its own (`SwitchesArePrepared`); what is not
bought is not credited (`NothingBeforePurchase`); answers in flight are about
their user (`AnswersAreOwn`). Each action preserves each part by a lemma of its
own; the action properties and the refinement follow from the invariant step by
step.

`IdentityCommandsProofs`, for any commands and ids:

| theorem | property |
|---|---|
| `InvariantHolds` | `JournalIInv` |
| `RestartSafe` | `RestartKeepsIdentity` |
| `JournalIsNeverDropped` | `JournaledTransitionSurvives` |
| `SwitchesAreDurable` | `SwitchIsDurable` |

`JournalIsSound` keeps a journaled transition between two users; `CallIsSound`
says that the request of the call that holds the lock is the marked transition;
`InstanceIsSound` relates memory to the journal: a mark is journaled, unless the
commit replaced the file already. Without the second a late commit could settle
another call's transition, without the third a restart could not be told apart
from a switch.

`GuestSyncProofs`, for any callers, attempts and events and either store, and for
any requests, delays and number of connections:

| theorem | property |
|---|---|
| `TypeCorrect`, `InvariantHolds` | the types, `IInv` |
| `OwedHoldsBack` | `DebtHoldsCallsBack` |
| `OwedIsNotForgotten` | `NothingForgotten` |
| `PurchaseExcludesSync` | `PurchaseNeverMeetsSync` |
| `SchedulersHold` | `SchedulersIInv`: the invariants of both |

What `NothingForgotten` needs: a request is always carried by a loop or a counted
purchase (`RequestsAreCarried`), and what came after a loop invoked the native
command is requested anew (`LateDebtsAreRequested`), so that the success of the
loop settles only what it saw. `DebtHoldsCallsBack` needs `WorkNeedsRecovery`:
nothing is under way or owed without the recovery flag.

The invariant of `BillingConnection` counts connections: one that is delayed, posted,
being made or answered stays one whatever becomes of it, so there are never more
than were asked for. `RequestsAreHeld` has every command in the queue or in one message
that will answer it. `QueueIsAwaited` is the safety under `QueueIsServed`: what a
steady service has queued has a connection to wait for, or the message that the
client is ready; it needs that a retry that counts as scheduled really comes, or
the next failure would schedule none.

`PendingPurchasesProofs`, for any calls, products, tokens and capacity, with
`Prompt` or without it:

| theorem | property |
|---|---|
| `InvariantHolds` | `StoreIInv` |
| `JournalIsKept` | `UnreadableJournalIsKept` |
| `CalledOnce` | `AnsweredOnce` |

`StoreIInv` is the two promises of the store, that the registered purchase has a place
(`SlotIsReserved`) and that the journal is what memory says is durable unless a
write has failed (`JournalIsCurrent`), with what they rest on: what is on disk
fits the maps again (`JournalFits`), nothing durable comes up over an unreadable
journal (`ClosedIfUnreadable`), the registered callback was not called
(`CallbacksAreDue`), commands and tokens name products. The proof goes through one
lemma per method of the store, which says what the method makes of the two maps
for any snapshot of Play.

`PromptPurchasesProofs`, with `Prompt` (section 2 says what that takes from Play
and why the code needs it):

| theorem | property |
|---|---|
| `OlderIsNeverTaken` | `OlderNeverConsumesNewer` |
| `ContextHolds` | `ContextIsTrue` |
| `ContextSurvives` | `ResolvedContextSurvives` |
| `NoOrphans` | `NothingOrphaned` |
| `NoneIsPaidTwice` | `NoSecondPayment` |

The invariant is `PromptIInv`: `StoreIInv`, what the sheet, the callback and the
announcement under way say of one another (`SheetsAreSound`), and what the maps
and the journal say of Play's tokens (`StoreIsTrue`). Its heart is
`AnnouncementsAreTrue`: what is announced names the product of the callback
exactly when it is of the purchase made in that call's sheet, which is what makes
a decision by product right. `ReportedAreKept` carries a reported context through
failed writes and restarts. TLC checked every conjunct at the bounds of
`android_purchases` (2.8 million states) before they were proved.

`ConfigurationProofs` (`InvariantHolds`, `AnsweredAsAsked`) and
`CustomerCachesProofs` (`InvariantHolds`, `RevivalsAreLate`) prove the two modules
by themselves, for any options, keys, users, calls and number of changes.
`Configuration`'s invariant says that the lock has one holder, who goes on as the
user the journal and its options determine, and that the instance carries the
fingerprint of somebody who was answered; with the lemma that equal fingerprints
ask for equal instances, a second caller gets what it asked for. The one of
`CustomerCaches` says of each answer on its way that it is no older than the last
drop of its entry, or that it was on its way then and counts as late; so whatever it
makes of the entry is recent, or known to be revived.

`MCClientProofs` proves every property of the run `client` of the specification
that the run checks, part by part: a step belongs to one part and leaves the
others as they are, so each part has an inductive invariant of its own.

| theorem | property | inductive invariant |
|---|---|---|
| `ConfiguresAsAsked` | `ConfiguredAsAsked` | that of `ConfigurationProofs`, instantiated |
| `CachedRevivalsAreLate` | `OnlyLateAnswersRevive` | that of `CustomerCachesProofs`, instantiated |
| `VerifiedAreGenuine`, `PostsHandledOnce` | `VerifiedIsGenuine`, `HandledOnce` | `HttpIInv` |
| `EventsAccountedFor` | `EventsAreAccountedFor` | `EventsIInv` |
| `PackagesKeepTheirPlan` | `PackageKeepsItsPlan` | `OffersIInv` |
| `AttributionKept`, `UpdatesHeard` | `AttributionIsKept`, `UpdatesAreHeard` | `StoreKitIInv` |
| `FetchedGrantsEnd` | `FetchedEntitlementsEnd` | `EntitledIInv` |
| `TypesHold` | `TypesOK` | all of them |

- `HttpIInv`: every stored entry is about the user of its URL, and genuine where
  signatures are looked at; every reply on its way is one the backend or the
  network makes for its request; a POST that is sent, or waits to be sent again, has
  not been handled. The last is why a retry is harmless: only a refusal that
  leaves the backend as it was (429) is retried.
- `EventsIInv` adds that a batch is out only while its flush posts it and that
  what is tracked meanwhile stops at the limit, which leaves room for the batch to
  come back.
- `OffersIInv`: each package given out since the last switch is in the registry, or
  ambiguous there, or left out because the registry was full; and whatever was given
  out at all is known, unless the memory of what is known overflowed.
- `EntitledIInv`: an answer kept for a replay is not from the future, and grants
  with a date or for ever.
- `StoreKitIInv` has twelve clauses. `Origins` numbers attempts and transactions;
  `OneTransaction` lets no attempt lead to two; `FlowsOK` and `Owners` give each
  promotion to the flow that began it; `Heard` says where an update waits that was
  not told yet. Attribution rests on `Kept`: as long as an attempt's context is
  owed it is in the journal, in the cache, or in the hands of the flow that promotes
  it while it is the latest of its product. `OneContext` makes every value a flow
  might claim for a transaction the same one, `Strays` leaves only contexts that
  were given up to other transactions, `Settled` separates what was finished, and
  `Relied` is what a flow has read and still relies on a step later. TLC checked it
  on 2.4 million states before it was proved.

Assumptions. The constants' assumptions are the named `ASSUME`s of the modules: "no
such thing" values are none of the things (`NoneAssumption`,
`RegistrationAssumption`, `RefusalAssumption`, `NoInstanceAssumption`,
`NoTransactionAssumption`, `StoreKitAssumption` and the like), bounds and limits
are numbers (`QueueAssumption`, `CallsAssumption`, `DaysAssumption`,
`VersionsAssumption`, `AttemptsAssumption`, `ConnectionsAssumption`,
`CapacityAssumption`), the sets whose
sizes the code compares with a limit are finite (`TokensAssumption`,
`FingerprintsAssumption`), and chosen ids are not generated ones
(`IdsAssumption`). TLC evaluates all of them. The theorems of
`PromptPurchasesProofs` have the hypothesis `Prompt`.

Only model-checked: the liveness properties `EveryCallReturns`,
`RestartsSettleTheJournal`, `EveryCallIsAnswered`, `DebtsAreSettled`,
`WaitingCallsGoOn` and `QueueIsServed` (fairness and ENABLED are beyond the
prover). Every invariant and action property of a passing run is a theorem. The
findings are counterexamples of TLC.

## 5. Findings

1. `log_out` reads the journal before it waits for the identity lock
   (`commands.rs:522`). If the pending logout it read is completed by another
   `log_out` and followed by a `log_in` before it gets the lock, it resumes the
   old anonymous id: the user returns to an id that was already in use, and the
   transition is not journaled. `README.md:247` and `index.ts:603` promise a
   fresh anonymous id. It takes two concurrent commands and the second to be
   suspended between reading the file and queueing for the lock.
2. `docs/COMPATIBILITY.md:71` says the journal is settled only after the
   backend and the local switch succeed; the code commits (settles) before the
   local switch, and a `persist` that reports an error after the file was
   replaced leaves the journal settled for the new user while the old one stays
   current. `RestartKeepsIdentity` shows that a restart is still safe: the
   backend has accepted the switch and the mark blocks receipts meanwhile.
3. When the Android store is full, a purchase is refused with "Too many
   unprocessed Play purchases; query or restore purchases first"
   (`RevenueCatPlugin.kt:142`). A query never drops a durable correlation
   (`PendingPurchaseStore.kt:470`): a payment that was pending with a context
   and then cancelled is never reported again and keeps its place, in memory and
   on disk. After enough of them the advice cannot help.

4. `diagnostics.rs:4` says that 5xx failures are retried up to three times and
   any other failure clears immediately. `flush_diagnostics`
   (`customer_operations.rs:113`) does not look at the status but at the error
   code made of the body (`http/client.rs:585`): a 500 with a JSON body that
   carries a code the SDK knows, such as 7110, clears everything at once, and a
   400 with an unknown code is retried.

## 6. Plan

Done: every module of section 2, and the proofs of section 4. Next, in this order.

Proofs:

1. The lemmas that the liveness properties of `GuestSync` and `PurchasesCore` rest
   on, as action properties: what a step may do to a debt or to a waiting call.
2. That `HttpClient` with its cache implements a client without one: a result is
   the backend's state at some moment between request and answer, or the last
   verified one.

Models:

1. A composition of `GuestSync` and `PurchasesCore`: the guest's recovery flag
   and the core's, over the death of the process.
2. The listener of the facade: older answers that overwrite newer ones.
3. Launched plans: a billed plan that differs from the one a purchase asked for.

## 7. Not modelled

- Cryptography (`security/signature.rs`): whether a signature matches is an input
  of `HttpClient`.
- Bodies and their decoding (`backend.rs`, `models/*`) beyond what
  `MockBackend`, `BackendErrors` and `Entitlements` tell apart; paywalls, which
  are data.
- The options `configure` never sets (timeouts, time to live, diagnostics), which
  keep their defaults.
- The simulated Test Store and the product queries of every store, which only
  decide whether a call fails before it begins; on Android also the selection of
  an offer.
- `mobile.rs` and the commands that only forward.
- An iOS purchase without a receipt context (`RevenueCatPlugin.swift:326`): the
  facade always passes one.
- In `Diagnostics`, what happens between the clear of the queue and the reset of
  the counter after a fatal failure (`diagnostics.rs:150`): another thread can only
  track an event there, which is the same before the clear or after the reset.
- The order in which the listener hears of customer infos, and which of two
  answers for one user is the newer: the code promises neither.
- The recovery flag of the facade over the death of the process (plan, 1).
- The routes of the mock backend that tests use to set it up; the demo; the
  vendored Tauri API; logging and UI.

Hazards that no property covers are listed with their reason in `PROJECT.json`:
the recovery flag after a crash, answers that overtake each other, a service that
disconnects while the queue is worked off, and a transaction that appears in the
middle of a restore. Where a property covers a hazard in part, its note says which
part is left: a sheet's product that Play announces meanwhile (`Prompt`), the
`syncing` flag of a dropped flush, a second notification of an iOS purchase, and
late answers in the customer caches.

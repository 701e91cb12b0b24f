------------------------- MODULE StoreKitPurchases -------------------------
(* The iOS plugin: one explicit purchase at a time (purchase, PurchaseGate), *)
(* the stream of transaction updates, the queries of owned transactions and  *)
(* finishTransaction, over two actors: the durable journal of receipt        *)
(* attribution (LocalTransactionMetadataStore) and the contexts of purchases *)
(* still pending in this process (PendingPurchaseContextCache).  StoreKit    *)
(* keeps its transactions until they are finished, also across restarts.     *)
(*                                                                           *)
(* The receipt context of a purchase is the number of its attempt, 0 stands  *)
(* for none; the date of a transaction is the number of attempts before it.  *)
(* A transaction stands for its id and its JWS.                              *)
EXTENDS Naturals, Sequences, FiniteSets

CONSTANTS Products, Transactions, Queries, Updates,
          MaxJournal,     \* maximumTransactions
          MaxRemembered,  \* maximumRememberedTransactionIds
          MaxAttempts,
          Scopes,         \* what a behaviour makes use of, and how often (bound)
          NoProduct, NoTransaction

Flows == Queries \union {Updates}

Scope == [transactions: Nat, attempts: 0..MaxAttempts, updates: BOOLEAN, restarts: BOOLEAN,
          restores: SUBSET BOOLEAN]  \* the kinds of query

VARIABLES
  scope,
  journal,    \* LocalTransactionMetadataStore: the context of each transaction
  cached,     \* contextsByProductId
  latest,     \* latestAttemptIdsByProductId
  promoting,  \* promotionAttemptIdsByIdentity
  gate,       \* PurchaseGate
  purchase,   \* the explicit purchase
  flow,       \* the queries and the updates task
  removing,   \* finishTransaction: metadata removed, not finished yet
  storekit,   \* the transactions
  asked,      \* attempts that wait for approval (Ask to Buy)
  attempts,   \* how many there were
  seen        \* history

vars == <<scope, journal, cached, latest, promoting, gate, purchase, flow, removing, storekit, asked,
          attempts, seen>>

contexts == <<cached, latest, promoting>>

NoPurchase == [at |-> "idle", attempt |-> 0, product |-> NoProduct, transaction |-> NoTransaction]

Resting == [at |-> "idle", restore |-> FALSE, left |-> {}, transaction |-> NoTransaction,
            claim |-> 0, found |-> {}]

Open == [inFlight |-> FALSE, deferred |-> {}, suppressed |-> <<>>]

Unborn == [at |-> "unborn", product |-> NoProduct, date |-> 0, attempt |-> 0, renewal |-> FALSE]

\* told: transactions Rust was told of and may finish; settled: those whose metadata was removed
\* to finish them; late: stored again since; gone: attempts whose context was
\* given up; unheard: updates not yet followed by a notification.
Unseen == [told |-> {}, settled |-> {}, late |-> {}, gone |-> {}, unheard |-> {}]

Init == /\ scope \in Scopes
        /\ journal = [t \in Transactions |-> 0]
        /\ cached = [p \in Products |-> 0]
        /\ latest = [p \in Products |-> 0]
        /\ promoting = [t \in Transactions |-> 0]
        /\ gate = Open
        /\ purchase = NoPurchase
        /\ flow = [f \in Flows |-> Resting]
        /\ removing = {}
        /\ storekit = [t \in Transactions |-> Unborn]
        /\ asked = {}
        /\ attempts = 0
        /\ seen = Unseen

-----------------------------------------------------------------------------
(* StoreKit. *)

Unfinished == {t \in Transactions : storekit[t].at = "unfinished"}
Finished == {t \in Transactions : storekit[t].at = "finished"}

Born(t, p, attempt, renewal) ==
  /\ storekit[t].at = "unborn"
  /\ Cardinality(Unfinished \union Finished) < scope.transactions
  /\ storekit' = [storekit EXCEPT ![t] = [at |-> "unfinished", product |-> p, date |-> attempts,
                                          attempt |-> attempt, renewal |-> renewal]]

\* A renewal, or a purchase outside this app.
BoughtElsewhere(t, p) ==
  /\ \E renewal \in BOOLEAN : Born(t, p, 0, renewal)
  /\ UNCHANGED <<scope, journal, contexts, gate, purchase, flow, removing, asked, attempts, seen>>

PurchaseApproved(t, a) ==
  /\ a \in asked
  /\ Born(t, a.product, a.attempt, FALSE)
  /\ asked' = asked \ {a}
  /\ UNCHANGED <<scope, journal, contexts, gate, purchase, flow, removing, attempts, seen>>

-----------------------------------------------------------------------------
(* The journal: one file, written atomically; each call is one step. *)

Journaled == {t \in Transactions : journal[t] # 0}

Stored(t, context) ==
  /\ \/ /\ journal[t] = 0 /\ Cardinality(Journaled) < MaxJournal
        /\ journal' = [journal EXCEPT ![t] = context]
     \/ /\ journal[t] = context
        /\ UNCHANGED journal
  /\ seen' = IF t \in removing \union Finished
             THEN [seen EXCEPT !.late = @ \union {t}] ELSE seen

\* The write fails, the journal is full or has another context for t.
StoreFails == UNCHANGED <<journal, seen>>

-----------------------------------------------------------------------------
(* purchase *)

Gone(given) == [seen EXCEPT !.gone = @ \union (given \ {0})]

\* PurchaseGate.begin; a second purchase is refused.
EnterGate == /\ ~gate.inFlight
             /\ gate' = [gate EXCEPT !.inFlight = TRUE]

ProductMissing ==
  /\ EnterGate
  /\ purchase' = [NoPurchase EXCEPT !.at = "failed"]
  /\ UNCHANGED <<scope, journal, contexts, flow, removing, storekit, asked, attempts, seen>>

\* PendingPurchaseContextCache.cache: a newer attempt takes the place of an older.
BeginPurchase(p) ==
  /\ EnterGate
  /\ attempts < scope.attempts
  /\ attempts' = attempts + 1
  /\ cached' = [cached EXCEPT ![p] = attempts + 1]
  /\ latest' = [latest EXCEPT ![p] = attempts + 1]
  /\ purchase' = [NoPurchase EXCEPT !.at = "buying", !.product = p, !.attempt = attempts + 1]
  /\ seen' = Gone({latest[p]})
  /\ UNCHANGED <<scope, journal, promoting, flow, removing, storekit, asked>>

\* The transaction exists before purchase() returns it.
StoreKitSells(t) ==
  /\ purchase.at = "buying" /\ purchase.transaction = NoTransaction
  /\ Born(t, purchase.product, purchase.attempt, FALSE)
  /\ purchase' = [purchase EXCEPT !.transaction = t]
  /\ UNCHANGED <<scope, journal, contexts, gate, flow, removing, asked, attempts, seen>>

\* Ask to Buy: the context stays.
PurchasePending ==
  /\ purchase.at = "buying" /\ purchase.transaction = NoTransaction
  /\ purchase' = [purchase EXCEPT !.at = "failed"]
  /\ asked' = asked \union {[product |-> purchase.product, attempt |-> purchase.attempt]}
  /\ UNCHANGED <<scope, journal, contexts, gate, flow, removing, storekit, attempts, seen>>

Forget(p) == /\ cached' = [cached EXCEPT ![p] = 0]
             /\ latest' = [latest EXCEPT ![p] = 0]
             /\ UNCHANGED promoting

\* Cancelled, failed or not verified.
PurchaseFails ==
  /\ purchase.at = "buying" /\ purchase.transaction = NoTransaction
  /\ Forget(purchase.product)
  /\ purchase' = [purchase EXCEPT !.at = "failed"]
  /\ seen' = Gone({purchase.attempt})
  /\ UNCHANGED <<scope, journal, gate, flow, removing, storekit, asked, attempts>>

StoreMetadata ==
  /\ purchase.at = "buying" /\ purchase.transaction # NoTransaction
  /\ \/ /\ Stored(purchase.transaction, purchase.attempt)
        /\ purchase' = [purchase EXCEPT !.at = "stored"]
     \/ /\ StoreFails
        /\ purchase' = [purchase EXCEPT !.at = "failed"]
  /\ UNCHANGED <<scope, contexts, gate, flow, removing, storekit, asked, attempts>>

ForgetContext ==
  /\ purchase.at = "stored"
  /\ Forget(purchase.product)
  /\ purchase' = [purchase EXCEPT !.at = "succeeded"]
  /\ UNCHANGED <<scope, journal, gate, flow, removing, storekit, asked, attempts, seen>>

LastOf(s, n) == IF Len(s) > n THEN SubSeq(s, Len(s) - n + 1, Len(s)) ELSE s

\* Faulty variant of EndGate: deferred updates are dropped.
EndGateSilently(explicit) ==
  /\ gate' = Open
  /\ seen' = [seen EXCEPT !.told = @ \union explicit, !.unheard = @ \ explicit]

\* PurchaseGate.end: an update of the purchased transaction is swallowed, before
\* or after this; any other deferred update is notified.
EndGate(explicit) ==
  LET others == gate.deferred \ explicit
      awaited == explicit \ gate.deferred
  IN /\ gate' = [inFlight |-> FALSE, deferred |-> {},
                 suppressed |-> IF awaited = {} THEN gate.suppressed
                                ELSE LastOf(Append(gate.suppressed, purchase.transaction),
                                            MaxRemembered)]
     /\ seen' = [seen EXCEPT !.told = @ \union explicit,
                             !.unheard = IF others # {} THEN {} ELSE @ \ explicit]

EndPurchase ==
  /\ purchase.at \in {"succeeded", "failed"}
  /\ EndGate(IF purchase.at = "succeeded" THEN {purchase.transaction} ELSE {})
  /\ purchase' = NoPurchase
  /\ UNCHANGED <<scope, journal, contexts, flow, removing, storekit, asked, attempts>>

-----------------------------------------------------------------------------
(* receiptContextForSync: a flow looks for the context of a transaction. *)

Waiting(t) == {f \in Flows : flow[f].at = "waiting" /\ flow[f].transaction = t}

\* The updates task goes on with or without a context, 0 if there is none; a
\* query goes on to its next transaction, or one failure refuses all of it.
WithContext(f, context) ==
  IF f = Updates THEN [flow[f] EXCEPT !.at = "handled", !.claim = 0]
  ELSE [flow[f] EXCEPT !.at = "scanning", !.claim = 0, !.transaction = NoTransaction,
                       !.found = @ \union {<<flow[f].transaction, context>>}]

Failed(f) == IF f = Updates THEN [flow[f] EXCEPT !.at = "handled", !.claim = 0] ELSE Resting

Resolved(f, context) == flow' = [flow EXCEPT ![f] = WithContext(f, context)]

GoesOn(f, at) == flow' = [flow EXCEPT ![f].at = at]

ReadJournal(f) ==
  LET t == flow[f].transaction IN
  /\ flow[f].at = "reading"
  /\ IF journal[t] # 0 THEN Resolved(f, journal[t])
     ELSE IF storekit[t].renewal THEN Resolved(f, 0)
     ELSE GoesOn(f, "claiming")
  /\ UNCHANGED <<scope, journal, contexts, gate, purchase, removing, storekit, asked, attempts, seen>>

ReadFails(f) ==
  /\ flow[f].at \in {"reading", "rereading", "confirming"}
  /\ flow' = [flow EXCEPT ![f] = Failed(f)]
  /\ UNCHANGED <<scope, journal, contexts, gate, purchase, removing, storekit, asked, attempts, seen>>

Claimable(t) == LET attempt == cached[storekit[t].product]
                IN attempt # 0 /\ attempt <= storekit[t].date

WaitForPromotion(f) ==
  /\ flow[f].at = "claiming"
  /\ promoting[flow[f].transaction] # 0
  /\ GoesOn(f, "waiting")
  /\ UNCHANGED <<scope, journal, contexts, gate, purchase, removing, storekit, asked, attempts, seen>>

\* Faulty variant of ClaimContext: without a claim it goes on at once.
ClaimContextOrNone(f) ==
  LET t == flow[f].transaction
      attempt == cached[storekit[t].product]
  IN /\ flow[f].at = "claiming"
     /\ promoting[t] = 0
     /\ IF Claimable(t)
        THEN /\ cached' = [cached EXCEPT ![storekit[t].product] = 0]
             /\ promoting' = [promoting EXCEPT ![t] = attempt]
             /\ flow' = [flow EXCEPT ![f] = [@ EXCEPT !.at = "promoting", !.claim = attempt]]
             /\ seen' = Gone({attempt} \ {storekit[t].attempt})
        ELSE /\ Resolved(f, 0)
             /\ UNCHANGED <<cached, promoting, seen>>
     /\ UNCHANGED <<scope, journal, latest, gate, purchase, removing, storekit, asked, attempts>>

ClaimContext(f) ==
  LET t == flow[f].transaction
      attempt == cached[storekit[t].product]
  IN /\ flow[f].at = "claiming"
     /\ promoting[t] = 0
     /\ IF Claimable(t)
        THEN /\ cached' = [cached EXCEPT ![storekit[t].product] = 0]
             /\ promoting' = [promoting EXCEPT ![t] = attempt]
             /\ flow' = [flow EXCEPT ![f] = [@ EXCEPT !.at = "promoting", !.claim = attempt]]
             /\ seen' = Gone({attempt} \ {storekit[t].attempt})
        ELSE /\ GoesOn(f, "rereading")
             /\ UNCHANGED <<cached, promoting, seen>>
     /\ UNCHANGED <<scope, journal, latest, gate, purchase, removing, storekit, asked, attempts>>

PromoteContext(f) ==
  /\ flow[f].at = "promoting"
  /\ \/ Stored(flow[f].transaction, flow[f].claim) /\ GoesOn(f, "committing")
     \/ StoreFails /\ GoesOn(f, "rollingBack")
  /\ UNCHANGED <<scope, contexts, gate, purchase, removing, storekit, asked, attempts>>

CommitClaim(f) ==
  LET t == flow[f].transaction
      p == storekit[t].product
      claim == flow[f].claim
  IN /\ flow[f].at = "committing"
     /\ promoting' = [promoting EXCEPT ![t] = 0]
     /\ flow' = [g \in Flows |-> IF g = f THEN WithContext(f, claim)
                                ELSE IF g \in Waiting(t) THEN [flow[g] EXCEPT !.at = "confirming"]
                                ELSE flow[g]]
     /\ IF latest[p] = claim
        THEN /\ cached' = [cached EXCEPT ![p] = IF @ = claim THEN 0 ELSE @]
             /\ latest' = [latest EXCEPT ![p] = 0]
        ELSE UNCHANGED <<cached, latest>>
     /\ UNCHANGED <<scope, journal, gate, purchase, removing, storekit, asked, attempts, seen>>

\* The context is put back unless a newer attempt was made.
RollBackClaim(f) ==
  LET t == flow[f].transaction
      p == storekit[t].product
      claim == flow[f].claim
  IN /\ flow[f].at = "rollingBack"
     /\ cached' = IF latest[p] = claim /\ cached[p] = 0
                  THEN [cached EXCEPT ![p] = claim] ELSE cached
     /\ promoting' = [promoting EXCEPT ![t] = 0]
     /\ flow' = [g \in Flows |-> IF g = f \/ g \in Waiting(t) THEN Failed(g) ELSE flow[g]]
     /\ UNCHANGED <<scope, journal, latest, gate, purchase, removing, storekit, asked, attempts, seen>>

\* Nothing to claim: somebody may have promoted it since the first look.
ReadJournalAgain(f) ==
  /\ flow[f].at = "rereading"
  /\ Resolved(f, journal[flow[f].transaction])
  /\ UNCHANGED <<scope, journal, contexts, gate, purchase, removing, storekit, asked, attempts, seen>>

\* A flow that waited fails if the promoted entry is gone already.
ConfirmPromotion(f) ==
  /\ flow[f].at = "confirming"
  /\ IF journal[flow[f].transaction] # 0
     THEN Resolved(f, journal[flow[f].transaction])
     ELSE flow' = [flow EXCEPT ![f] = Failed(f)]
  /\ UNCHANGED <<scope, journal, contexts, gate, purchase, removing, storekit, asked, attempts, seen>>

-----------------------------------------------------------------------------
(* Transaction.updates: one transaction after another. *)

UpdateArrives(t) ==
  /\ scope.updates /\ flow[Updates].at = "idle" /\ t \in Unfinished
  /\ flow' = [flow EXCEPT ![Updates] = [@ EXCEPT !.at = "reading", !.transaction = t]]
  /\ seen' = [seen EXCEPT !.unheard = @ \union {t}]
  /\ UNCHANGED <<scope, journal, contexts, gate, purchase, removing, storekit, asked, attempts>>

Without(s, t) ==
  LET first == CHOOSE i \in DOMAIN s : s[i] = t /\ \A j \in 1..(i - 1) : s[j] # t
  IN SubSeq(s, 1, first - 1) \o SubSeq(s, first + 1, Len(s))

\* shouldNotifyUpdate, and the notification; whatever became of the context.
UpdateHandled ==
  LET t == flow[Updates].transaction IN
  /\ flow[Updates].at = "handled"
  /\ flow' = [flow EXCEPT ![Updates] = Resting]
  /\ \/ /\ \E i \in DOMAIN gate.suppressed : gate.suppressed[i] = t
        /\ gate' = [gate EXCEPT !.suppressed = Without(@, t)]
        /\ seen' = [seen EXCEPT !.unheard = @ \ {t}]
     \/ /\ \A i \in DOMAIN gate.suppressed : gate.suppressed[i] # t
        /\ gate.inFlight
        /\ gate' = [gate EXCEPT !.deferred = @ \union {t}]
        /\ UNCHANGED seen
     \/ /\ \A i \in DOMAIN gate.suppressed : gate.suppressed[i] # t
        /\ ~gate.inFlight
        /\ UNCHANGED gate
        /\ seen' = [seen EXCEPT !.unheard = {}]
  /\ UNCHANGED <<scope, journal, contexts, purchase, removing, storekit, asked, attempts>>

-----------------------------------------------------------------------------
(* queryPurchases (with `restore`) and queryPendingPurchases *)

BeginQuery(q) ==
  /\ flow[q].at = "idle"
  /\ \E restore \in scope.restores :
       flow' = [flow EXCEPT ![q] = [Resting EXCEPT !.at = "scanning", !.restore = restore,
                                                  !.left = Unfinished]]
  /\ UNCHANGED <<scope, journal, contexts, gate, purchase, removing, storekit, asked, attempts, seen>>

ScanNext(q) ==
  /\ flow[q].at = "scanning"
  /\ \E t \in flow[q].left :
       flow' = [flow EXCEPT ![q] = [@ EXCEPT !.at = "reading", !.transaction = t,
                                                !.left = flow[q].left \ {t}]]
  /\ UNCHANGED <<scope, journal, contexts, gate, purchase, removing, storekit, asked, attempts, seen>>

\* A restore adds, without context, what Transaction.all has beyond them now.
Others(q) == IF flow[q].restore
             THEN (Unfinished \union Finished) \ {pair[1] : pair \in flow[q].found}
             ELSE {}

QueryReturns(q) ==
  /\ flow[q].at = "scanning" /\ flow[q].left = {}
  /\ seen' = [seen EXCEPT !.told = @ \union Others(q) \union {pair[1] : pair \in flow[q].found}]
  /\ flow' = [flow EXCEPT ![q] = Resting]
  /\ UNCHANGED <<scope, journal, contexts, gate, purchase, removing, storekit, asked, attempts>>

-----------------------------------------------------------------------------
(* finishTransaction: Rust asks for it once the backend accepted the receipt. *)

\* A removal that cannot be written changes nothing and refuses the call.
RemoveMetadata(t) ==
  /\ t \in Unfinished /\ t \in seen.told
  /\ journal' = [journal EXCEPT ![t] = 0]
  /\ removing' = removing \union {t}
  /\ seen' = [seen EXCEPT !.settled = @ \union {t}, !.told = @ \ {t}]
  /\ UNCHANGED <<scope, contexts, gate, purchase, flow, storekit, asked, attempts>>

Finish(t) ==
  /\ t \in removing
  /\ removing' = removing \ {t}
  /\ storekit' = [storekit EXCEPT ![t].at = "finished"]
  /\ UNCHANGED <<scope, journal, contexts, gate, purchase, flow, asked, attempts, seen>>

\* Finished already: its metadata is removed once more.
FinishAgain(t) ==
  /\ t \in Finished /\ t \in seen.told
  /\ journal' = [journal EXCEPT ![t] = 0]
  /\ seen' = [seen EXCEPT !.told = @ \ {t}]
  /\ UNCHANGED <<scope, contexts, gate, purchase, flow, removing, storekit, asked, attempts>>

\* The process ends; the journal and StoreKit remain.
Restart ==
  /\ scope.restarts
  /\ cached' = [p \in Products |-> 0]
  /\ latest' = [p \in Products |-> 0]
  /\ promoting' = [t \in Transactions |-> 0]
  /\ gate' = Open
  /\ purchase' = NoPurchase
  /\ flow' = [f \in Flows |-> Resting]
  /\ removing' = {}
  /\ asked' = asked \union {[product |-> purchase.product, attempt |-> purchase.attempt] :
                            x \in {y \in {purchase} : y.at = "buying" /\ y.transaction = NoTransaction}}
  /\ seen' = [seen EXCEPT !.gone = @ \union (1..attempts \ {journal[t] : t \in Transactions}),
                          !.told = {}, !.unheard = {}]
  /\ UNCHANGED <<scope, journal, storekit, attempts>>

Next ==
  \/ \E t \in Transactions :
       \/ \E p \in Products : BoughtElsewhere(t, p)
       \/ \E a \in asked : PurchaseApproved(t, a)
       \/ StoreKitSells(t) \/ UpdateArrives(t)
       \/ RemoveMetadata(t) \/ Finish(t) \/ FinishAgain(t)
  \/ \E p \in Products : BeginPurchase(p)
  \/ ProductMissing \/ PurchasePending \/ PurchaseFails
  \/ StoreMetadata \/ ForgetContext \/ EndPurchase
  \/ \E f \in Flows :
       \/ ReadJournal(f) \/ ReadFails(f) \/ WaitForPromotion(f) \/ ClaimContext(f)
       \/ PromoteContext(f) \/ CommitClaim(f) \/ RollBackClaim(f)
       \/ ReadJournalAgain(f) \/ ConfirmPromotion(f)
  \/ \E q \in Queries :
       BeginQuery(q) \/ ScanNext(q) \/ QueryReturns(q)
  \/ UpdateHandled \/ Restart

Spec == Init /\ [][Next]_vars

-----------------------------------------------------------------------------
FlowStates == {"idle", "scanning", "reading", "claiming", "waiting", "promoting", "committing",
               "rollingBack", "rereading", "confirming", "handled"}

TypeOK ==
  /\ scope \in Scope
  /\ journal \in [Transactions -> 0..MaxAttempts]
  /\ cached \in [Products -> 0..MaxAttempts]
  /\ latest \in [Products -> 0..MaxAttempts]
  /\ promoting \in [Transactions -> 0..MaxAttempts]
  /\ gate \in [inFlight: BOOLEAN, deferred: SUBSET Transactions, suppressed: Seq(Transactions)]
  /\ purchase \in [at: {"idle", "buying", "stored", "succeeded", "failed"},
                   attempt: 0..MaxAttempts, product: Products \union {NoProduct},
                   transaction: Transactions \union {NoTransaction}]
  /\ flow \in [Flows -> [at: FlowStates, restore: BOOLEAN, left: SUBSET Transactions,
                         transaction: Transactions \union {NoTransaction}, claim: 0..MaxAttempts,
                         found: SUBSET (Transactions \X (0..MaxAttempts))]]
  /\ removing \subseteq Transactions
  /\ storekit \in [Transactions -> [at: {"unborn", "unfinished", "finished"},
                                    product: Products \union {NoProduct}, date: 0..MaxAttempts,
                                    attempt: 0..MaxAttempts, renewal: BOOLEAN]]
  /\ asked \subseteq [product: Products, attempt: 1..MaxAttempts]

OwedContext(t) == storekit[t].attempt # 0 /\ storekit[t].attempt \notin seen.gone
                    /\ t \notin seen.settled

Contexts(t) ==
  {journal[t]} \union {pair[2] : pair \in {x \in UNION {flow[q].found : q \in Queries} : x[1] = t}}
    \union {purchase.attempt : p \in {x \in {purchase} : x.transaction = t}}

RecoverableContextIsKept ==
  \A q \in Queries, t \in Transactions : OwedContext(t) => <<t, 0>> \notin flow[q].found

ContextNeverChanges == \A t \in Transactions : Cardinality(Contexts(t) \ {0}) <= 1

FinishedIsForgotten == \A t \in Finished : journal[t] # 0 => t \in seen.late

\* A transaction that an attempt of this app caused is not handed to Rust without
\* that attempt's context, unless its metadata was removed to finish it before, or
\* the context was given up: at a restart, for a newer attempt, to a transaction
\* that could not be told apart (RevenueCatPlugin.swift:566).  The journal, the
\* purchase and the queries never have two contexts for one transaction
\* (LocalTransactionMetadataStore.swift:89, 312), and a finished transaction leaves
\* none behind unless a flow that looked before stored it once more (:40).
AttributionIsKept ==
  RecoverableContextIsKept /\ ContextNeverChanges /\ FinishedIsForgotten

\* A flow that waits for a promotion is resumed by the flow that promotes.
WaitersHaveAnOwner ==
  \A f \in Flows : flow[f].at = "waiting" =>
    \E g \in Flows : /\ flow[g].at \in {"promoting", "committing", "rollingBack"}
                      /\ flow[g].transaction = flow[f].transaction
                      /\ flow[g].claim = promoting[flow[f].transaction]

\* An update is followed by a notification, unless its transaction was returned
\* by purchase: none is swallowed while a purchase is in flight, and none waits
\* for the context of its transaction without a flow that will resume it
\* (RevenueCatPlugin.swift:149, LocalTransactionMetadataStore.swift:345).
UpdatesAreHeard ==
  /\ WaitersHaveAnOwner
  /\ \A t \in seen.unheard :
       \/ flow[Updates].transaction = t
       \/ gate.inFlight /\ t \in gate.deferred
=============================================================================

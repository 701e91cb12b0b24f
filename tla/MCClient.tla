------------------------------ MODULE MCClient ------------------------------
(* Seven components of the client that share no state, checked by one run:    *)
(* the configure command, the HTTP client, the diagnostics queue, the store   *)
(* plans of offerings, the iOS plugin's purchases, the customer caches, and   *)
(* what a customer is entitled to.  A behaviour is about one of them          *)
(* (`part`), whose variables are the first of s1 to s13; the rest of them     *)
(* stays Nothing.                                                             *)
EXTENDS ConfigureOptions, DeviceCache, FiniteSets, TLC

CONSTANTS
  Callers, Fetchers, Nothing,
  Receipts, NoToken, Nobody, MaxCalls, MaxTime, NoReply, NoRequest, NoResult,
  MaxStored, BatchSize, MaxRetries, MaxEvents,
  Fingerprints, Plans, NoPlan, MaxPerUser, MaxKnown,
  StoreProducts, Transactions, Queries, Updates, MaxJournal, MaxRemembered, MaxAttempts, Scopes,
  NoProduct, NoTransaction,
  Period, GraceDays, MaxDay, Never,
  NoUser

\* The limits of the diagnostics queue are numbers.
ASSUME QueueAssumption == MaxStored \in Nat /\ BatchSize \in Nat /\ MaxEvents \in Nat

\* How many requests are made is a number.
ASSUME CallsAssumption == MaxCalls \in Nat

\* A package shows one of finitely many things, and the registry has a size.
ASSUME FingerprintsAssumption == IsFiniteSet(Fingerprints) /\ MaxPerUser \in Nat

\* Time is a number of days.
ASSUME DaysAssumption == MaxDay \in Nat /\ Period \in Nat /\ GraceDays \in Nat

VARIABLES part, s1, s2, s3, s4, s5, s6, s7, s8, s9, s10, s11, s12, s13

-----------------------------------------------------------------------------
\* Endpoints that meet in the cache, in the backend's state or nowhere.
Apps == {{"get_customer", "post_receipt"}, {"get_customer", "log_in"},
         {"get_offerings", "get_products"}, {"get_virtual_currencies", "attributes"},
         {"post_receipt", "log_in"}, {"post_redeem_web_purchase"}}

\* Two attempts and their transaction beside updates and restores; two transactions
\* beside updates; two transactions beside a query.
IosScopes ==
  {[transactions |-> 1, attempts |-> 2, updates |-> TRUE, restarts |-> TRUE,
    restores |-> {TRUE}],
   [transactions |-> 2, attempts |-> 2, updates |-> TRUE, restarts |-> TRUE, restores |-> {}],
   [transactions |-> 2, attempts |-> 1, updates |-> FALSE, restarts |-> TRUE,
    restores |-> {FALSE}]}

\* Options that are the same to the process and options that differ in one way from
\* those before; the builder refuses the last ones.
ConfiguredWith ==
  LET base == [key |-> CHOOSE k \in TestKeys : TRUE, user |-> Absent, proxy |-> Absent,
               mode |-> Absent, root |-> Absent, allow |-> FALSE]
      native == [base EXCEPT !.key = CHOOSE k \in StoreKeys : TRUE]
      named == [native EXCEPT !.user = CHOOSE u \in Names : TRUE]
  IN {native, [native EXCEPT !.user = Empty, !.proxy = Empty, !.mode = "informational"],
      [native EXCEPT !.mode = "enforced"],
      [native EXCEPT !.user = Blank, !.proxy = "loopback", !.mode = "disabled",
                     !.root = "malformed"],
      [named EXCEPT !.mode = "enforced", !.root = "usable", !.proxy = "https"],
      base, [base EXCEPT !.user = named.user, !.allow = TRUE],
      [base EXCEPT !.mode = "misspelt"], [base EXCEPT !.user = TooLong],
      [base EXCEPT !.key = Blank], [base EXCEPT !.root = "malformed"],
      [base EXCEPT !.proxy = "http"]}

Config == INSTANCE Configuration WITH
  build <- s1, instance <- s2, journal <- s3, holder <- s4, call <- s5, answered <- s6

Caches == INSTANCE CustomerCaches WITH
  user <- s1, identity <- s2, now <- s3, cached <- s4, call <- s5, dropped <- s6

Http == INSTANCE HttpClient WITH
  mode <- s1, app <- s2, etags <- s3, call <- s4, calls <- s5, server <- s6

Events == INSTANCE Diagnostics WITH
  entries <- s1, failures <- s2, syncing <- s3, flush <- s4, owed <- s5, tracked <- s6,
  received <- s7, dropped <- s8, Flushes <- Callers

Offers == INSTANCE StoreOptions WITH
  user <- s1, offers <- s2, options <- s3, known <- s4, saturated <- s5, fetch <- s6,
  buying <- s7, issued <- s8, issuedNow <- s9, Callers <- Fetchers

StoreKit == INSTANCE StoreKitPurchases WITH
  scope <- s1, journal <- s2, cached <- s3, latest <- s4, promoting <- s5, gate <- s6,
  purchase <- s7, flow <- s8, removing <- s9, storekit <- s10, asked <- s11,
  attempts <- s12, seen <- s13, Products <- StoreProducts

\* The updates task is not a query, and no transaction stands for none.
ASSUME StoreKitAssumption ==
  /\ Updates \notin Queries /\ NoTransaction \notin Transactions
  /\ MaxAttempts \in Nat /\ MaxRemembered \in Nat
  /\ Scopes \subseteq StoreKit!Scope

Customer == INSTANCE Entitlements WITH
  day <- s1, catalog <- s2, held <- s3, replay <- s4, cache <- s5, answer <- s6

from7 == <<s7, s8, s9, s10, s11, s12, s13>>
from9 == <<s9, s10, s11, s12, s13>>
from10 == <<s10, s11, s12, s13>>

Unused10 == s10 = Nothing /\ s11 = Nothing /\ s12 = Nothing /\ s13 = Nothing
Unused9 == s9 = Nothing /\ Unused10
Unused7 == s7 = Nothing /\ s8 = Nothing /\ Unused9

Init == \/ part = "configure" /\ Config!Init /\ Unused7
        \/ part = "caches" /\ Caches!Init /\ Unused7
        \/ part = "http" /\ Http!Init /\ Unused7
        \/ part = "diagnostics" /\ Events!Init /\ Unused9
        \/ part = "offerings" /\ Offers!Init /\ Unused10
        \/ part = "ios" /\ StoreKit!Init
        \/ part = "entitled" /\ Customer!Init /\ Unused7

Next == \/ part = "configure" /\ Config!Next /\ UNCHANGED <<part, from7>>
        \/ part = "caches" /\ Caches!Next /\ UNCHANGED <<part, from7>>
        \/ part = "http" /\ Http!Next /\ UNCHANGED <<part, from7>>
        \/ part = "diagnostics" /\ Events!Next /\ UNCHANGED <<part, from9>>
        \/ part = "offerings" /\ Offers!Next /\ UNCHANGED <<part, from10>>
        \/ part = "ios" /\ StoreKit!Next /\ UNCHANGED part
        \/ part = "entitled" /\ Customer!Next /\ UNCHANGED <<part, from7>>

vars == <<part, s1, s2, s3, s4, s5, s6, from7>>

Spec == Init /\ [][Next]_vars

Interchangeable ==
  Permutations(Callers) \union Permutations(Users) \union Permutations(Transactions)

-----------------------------------------------------------------------------
\* The type invariants, and the inductive invariants of Configuration and CustomerCaches.
TypesOK == CASE part = "configure"   -> Config!IInv
             [] part = "caches"      -> Caches!IInv
             [] part = "http"        -> Http!TypeOK
             [] part = "diagnostics" -> Events!TypeOK
             [] part = "offerings"   -> Offers!TypeOK
             [] part = "ios"         -> StoreKit!TypeOK
             [] part = "entitled"    -> Customer!TypeOK

\* Configuration: every call that was told "configured" asked for the instance there
\* is (commands.rs:339).
ConfiguredAsAsked == part = "configure" => Config!ConfiguredAsAsked

\* CustomerCaches: what was invalidated or cleared is only brought back by an answer
\* for the same user that was on its way at that moment (cache.rs:56,
\* identity_operations.rs:259).
OnlyLateAnswersRevive == part = "caches" => Caches!OnlyLateAnswersRevive

\* HttpClient: a result that says it is verified is what the backend sent, and a
\* GET answers its own user (client.rs:385, etag.rs:40).
VerifiedIsGenuine == part = "http" => Http!VerifiedIsGenuine

\* HttpClient: the backend handles a POST once at most (client.rs:393).
HandledOnce == part = "http" => Http!HandledOnce

\* Diagnostics: one flush has a batch, the queue is bounded, and what is given up
\* leaves a marker (diagnostics.rs:111, 141).
EventsAreAccountedFor == part = "diagnostics" => Events!EventsAreAccountedFor

\* StoreOptions: a package is bought with the plan it was offered with
\* (store_options.rs:219, 252).
PackageKeepsItsPlan == part = "offerings" => Offers!PackageKeepsItsPlan

\* StoreKitPurchases: a transaction is reported with the context of the attempt it
\* comes from (RevenueCatPlugin.swift:566).
AttributionIsKept == part = "ios" => StoreKit!AttributionIsKept

\* StoreKitPurchases: every update leads to a notification or to a purchase's
\* result (RevenueCatPlugin.swift:149).
UpdatesAreHeard == part = "ios" => StoreKit!UpdatesAreHeard

\* Entitlements: what ended is not granted by an answer that was fetched
\* (customer_info.rs:428).
FetchedEntitlementsEnd == [][part = "entitled" => Customer!EndedIsNotFetched]_vars
=============================================================================

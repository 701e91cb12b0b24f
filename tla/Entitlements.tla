---------------------------- MODULE Entitlements ----------------------------
(* What a customer may use, and until when: purchases at the mock backend    *)
(* and the envelope it answers (server.rs), how the envelope is read into a  *)
(* CustomerInfo (customer_info.rs), and how long the SDK keeps that: the     *)
(* policies of getCustomerInfo (purchases.rs), the device cache (cache.rs)   *)
(* and answers replayed from the ETag cache.  One customer, one entitlement, *)
(* granted by a subscription and by a product that is bought once.  Time is  *)
(* in days, and the device's clock is right.                                 *)
EXTENDS Naturals

CONSTANTS Period,    \* of the subscription
          GraceDays, \* REQUEST_DATE_GRACE
          MaxDay,    \* bound
          Never,     \* no expiration date
          Nothing

Products == {"monthly", "forever"}

Day == 0..MaxDay
Expiry == 0..(MaxDay + Period) \union {Never}

Policies == {"CacheOnly", "FetchCurrent", "CachedOrFetched", "NotStaleCachedOrFetched"}

VARIABLES
  day,
  catalog,  \* ServerState.products: their order
  held,     \* Subscriber: the expiration date of what was bought
  replay,   \* the stored answer of the ETag cache
  cache,    \* DeviceCache.customer_info
  answer    \* the last result of getCustomerInfo

vars == <<day, catalog, held, replay, cache, answer>>

-----------------------------------------------------------------------------
(* The backend *)

ExpiryFor(product) == IF product = "monthly" THEN day + Period ELSE Never

GrantProduct(product) == [held EXCEPT ![product] = ExpiryFor(product)]

Entitlement(product, expires) == [product |-> product, expires |-> expires]

\* One product after the other: a subscription replaces an entitlement without an
\* expiration date or an earlier one, any other product replaces whatever is there.
WithProduct(granted, product, bought) ==
  IF \/ bought[product] = Nothing
     \/ /\ product = "monthly" /\ granted # Nothing
        /\ granted.expires # Never /\ granted.expires >= bought["monthly"]
  THEN granted
  ELSE Entitlement(product, bought[product])

Granted(bought) ==
  WithProduct(WithProduct(Nothing, catalog[1], bought), catalog[2], bought)

\* subscriber_envelope, of a customer who bought that.
Envelope(bought) == [requestDate |-> day, entitlement |-> Granted(bought),
                     subscription |-> bought["monthly"]]

-----------------------------------------------------------------------------
(* Reading an answer *)

\* Faulty variant of Reference: always the server's date.
ReferenceOfAnswer(requestDate) == requestDate

\* is_active_at: by the server's date, or by the device's when that is too old.
Reference(requestDate) == IF day - requestDate <= GraceDays THEN requestDate ELSE day

IsActiveAt(expires, requestDate) == expires = Never \/ expires >= Reference(requestDate)

WillRenew(store, expires, unsubscribed, billingIssue, periodType) ==
  /\ store # "promotional"
  /\ expires # Never
  /\ periodType # "prepaid"
  /\ ~unsubscribed /\ ~billingIssue

\* The mock's subscriptions are normal ones of the test store, never cancelled.
BuildSubscription(body) ==
  [expires   |-> body.subscription,
   isActive  |-> IsActiveAt(body.subscription, body.requestDate),
   willRenew |-> WillRenew("test_store", body.subscription, FALSE, FALSE, "normal")]

\* The subscription of the granting product backs the entitlement.
BuildEntitlement(body) ==
  LET backed == body.entitlement.product = "monthly" IN
  [expires   |-> body.entitlement.expires,
   isActive  |-> IsActiveAt(body.entitlement.expires, body.requestDate),
   willRenew |-> WillRenew(IF backed THEN "test_store" ELSE "unknown",
                           body.entitlement.expires, FALSE, FALSE, "normal")]

FromResponse(body) ==
  [requestDate  |-> body.requestDate,
   entitlement  |-> IF body.entitlement = Nothing THEN Nothing ELSE BuildEntitlement(body),
   subscription |-> IF body.subscription = Nothing THEN Nothing ELSE BuildSubscription(body)]

-----------------------------------------------------------------------------
Init == /\ day = 0
        /\ catalog \in {<<"monthly", "forever">>, <<"forever", "monthly">>}
        /\ held = [p \in Products |-> Nothing]
        /\ replay = Nothing
        /\ cache = Nothing
        /\ answer = Nothing

DayPasses == /\ day < MaxDay
             /\ day' = day + 1
             /\ answer' = Nothing
             /\ UNCHANGED <<catalog, held, replay, cache>>

\* A purchase by way of the SDK answers, and caches, the new state.
Purchase(product) ==
  /\ held' = GrantProduct(product)
  /\ LET info == FromResponse(Envelope(GrantProduct(product))) IN
     /\ cache' = info
     /\ answer' = info
  /\ UNCHANGED <<day, catalog, replay>>

\* A purchase elsewhere, or a renewal.
PurchaseElsewhere(product) ==
  /\ held' = GrantProduct(product)
  /\ answer' = Nothing
  /\ UNCHANGED <<day, catalog, replay, cache>>

FetchAndCache(body) ==
  LET info == FromResponse(body) IN
  /\ cache' = info
  /\ answer' = info
  /\ replay' = body

ServeCached == /\ answer' = cache
               /\ UNCHANGED <<replay, cache>>

\* The answer is the current one, or 304: the stored one, which says the same
\* but for the date.
SameAsCurrent(body) == body # Nothing /\ [body EXCEPT !.requestDate = day] = Envelope(held)

FetchCustomerInfo ==
  \/ FetchAndCache(Envelope(held))
  \/ SameAsCurrent(replay) /\ FetchAndCache(replay)

\* Whatever its age an entry may count as fresh: Instant leaves out the time the
\* device sleeps.
GetCustomerInfo(policy) ==
  /\ \/ policy # "FetchCurrent" /\ cache # Nothing
        /\ ServeCached
     \/ policy \in {"FetchCurrent", "NotStaleCachedOrFetched"} /\ FetchCustomerInfo
     \/ policy = "CachedOrFetched" /\ cache = Nothing /\ FetchCustomerInfo
  /\ UNCHANGED <<day, catalog, held>>

InvalidateCustomerInfoCache ==
  /\ cache' = Nothing
  /\ answer' = Nothing
  /\ UNCHANGED <<day, catalog, held, replay>>

Next ==
  \/ DayPasses
  \/ \E product \in Products : Purchase(product) \/ PurchaseElsewhere(product)
  \/ \E policy \in Policies : GetCustomerInfo(policy)
  \/ InvalidateCustomerInfoCache

Spec == Init /\ [][Next]_vars

-----------------------------------------------------------------------------
Infos == [requestDate: Day,
          entitlement: [expires: Expiry, isActive: BOOLEAN, willRenew: BOOLEAN] \union {Nothing},
          subscription: [expires: Expiry, isActive: BOOLEAN, willRenew: BOOLEAN] \union {Nothing}]

TypeOK ==
  /\ day \in Day
  /\ held \in [Products -> Expiry \union {Nothing}]
  /\ cache \in Infos \union {Nothing}
  /\ answer \in Infos \union {Nothing}

\* Of an answer: the entitlement is granted, and it ended that many days ago.
Active(info) == info.entitlement # Nothing /\ info.entitlement.isActive

Ended(info, days) == info.entitlement # Nothing /\ info.entitlement.expires # Never
                       /\ info.entitlement.expires + days < day

EndedIsNotFetched == FetchCustomerInfo => ~(Active(answer') /\ Ended(answer', GraceDays))

\* An entitlement ends: an answer that comes by the network, the current one or
\* a stored one the backend confirmed with 304, grants nothing that ended longer
\* ago than the grace period, however old the stored answer is
\* (customer_info.rs:428, is_active_at).
FetchedEntitlementsEnd == [][EndedIsNotFetched]_vars
=============================================================================

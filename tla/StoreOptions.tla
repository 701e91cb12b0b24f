---------------------------- MODULE StoreOptions ----------------------------
(* Offerings and the store plan a package was offered with: get_offerings    *)
(* and the first half of purchase_package (purchases.rs), the registry       *)
(* (purchases/store_options.rs) and the offerings cache (cache.rs).          *)
(*                                                                           *)
(* A package value does not carry its plan: the registry finds it by what    *)
(* the package shows (offering, package, product, placement, targeting).     *)
(* The app may keep a package as long as it likes, across later fetches and  *)
(* identity changes, or build one itself.                                    *)
EXTENDS Naturals, FiniteSets

CONSTANTS Users, Callers,
          Fingerprints,      \* what a package shows
          Plans, NoPlan,     \* the option of a package; NoPlan is None
          MaxPerUser,        \* MAX_PACKAGE_FINGERPRINTS_PER_USER
          MaxKnown,          \* MAX_KNOWN_PACKAGE_FINGERPRINTS
          Nothing

Options == Plans \union {NoPlan}

\* Offerings as an app gets them: the packages and the option of each.
Catalogs == {s \in SUBSET (Fingerprints \X Options) : \A p, q \in s : p[1] = q[1] => p = q}

VARIABLES
  user,      \* the current user
  offers,    \* DeviceCache.offerings
  options,   \* options_by_user
  known,     \* known_packages.packages
  saturated, \* known_packages.saturated
  fetch,     \* get_offerings of each caller
  buying,    \* the purchase that holds the identity lock
  issued,    \* history: the packages the SDK returned
  issuedNow  \* history: those returned since the last switch, with their option

vars == <<user, offers, options, known, saturated, fetch, buying, issued, issuedNow>>

registry == <<options, known, saturated>>

Resting == [at |-> "idle", user |-> Nothing, response |-> {}]

Init == /\ user \in Users
        /\ offers = [u \in Users |-> Nothing]
        /\ options = [u \in Users |-> {}]
        /\ known = {}
        /\ saturated = FALSE
        /\ fetch = [c \in Callers |-> Resting]
        /\ buying = Nothing
        /\ issued = {}
        /\ issuedNow = {}

-----------------------------------------------------------------------------
Shown(packages) == {p[1] : p \in packages}

Matching(stored, f) == {p \in stored : p[1] = f}

IdentityIsFree == buying = Nothing

Issue(packages) == /\ issued' = issued \union Shown(packages)
                   /\ issuedNow' = issuedNow \union packages

\* The user is read under the identity lock, the cache after it; an entry older
\* than its time to live is not used, which may be any entry.
GetOfferings(c) ==
  /\ fetch[c].at = "idle"
  /\ IdentityIsFree
  /\ fetch' = [fetch EXCEPT ![c] = [at |-> "reading", user |-> user, response |-> {}]]
  /\ UNCHANGED <<user, offers, registry, buying, issued, issuedNow>>

ServeCached(c) ==
  /\ fetch[c].at = "reading"
  /\ offers[fetch[c].user] # Nothing
  /\ Issue(offers[fetch[c].user])
  /\ fetch' = [fetch EXCEPT ![c] = Resting]
  /\ UNCHANGED <<user, offers, registry, buying>>

\* The backend's and the store's answers, which may change from fetch to fetch.
OfferingsArrive(c) ==
  /\ fetch[c].at = "reading"
  /\ \E response \in Catalogs :
       fetch' = [fetch EXCEPT ![c].at = "resolved", ![c].response = response]
  /\ UNCHANGED <<user, offers, registry, buying, issued, issuedNow>>

\* A request fails.
FetchFails(c) ==
  /\ fetch[c].at = "reading"
  /\ fetch' = [fetch EXCEPT ![c] = Resting]
  /\ UNCHANGED <<user, offers, registry, buying, issued, issuedNow>>

-----------------------------------------------------------------------------
\* Of what is new, as much as there is room for.
Admitted(admitted, new, room) ==
  /\ admitted \subseteq new
  /\ Cardinality(admitted) <= room
  /\ admitted = new \/ Cardinality(admitted) = room

\* A second option of a known fingerprint is kept, a third adds nothing.
Conflicting(stored, incoming) ==
  {p \in incoming : Matching(stored, p[1]) # {} /\ p \notin stored
                    /\ \A q, r \in Matching(stored, p[1]) : q = r}

\* Faulty variant of RememberOptions: the newest option takes the place of others.
RememberNewest(stored, incoming, admitted) ==
  {p \in stored : Matching(incoming, p[1]) = {}}
    \union {p \in incoming : p[1] \in admitted \/ Matching(stored, p[1]) # {}}

RememberOptions(stored, incoming, admitted) ==
  stored \union Conflicting(stored, incoming) \union {p \in incoming : p[1] \in admitted}

\* remember_for_user: the provenance and the options.
RememberForUser(u, incoming) ==
  /\ \E admitted \in SUBSET (Shown(incoming) \ known) :
       /\ Admitted(admitted, Shown(incoming) \ known, MaxKnown - Cardinality(known))
       /\ known' = known \union admitted
       /\ saturated' = (saturated \/ admitted # Shown(incoming) \ known)
  /\ \E admitted \in SUBSET (Shown(incoming) \ Shown(options[u])) :
       /\ Admitted(admitted, Shown(incoming) \ Shown(options[u]),
                   MaxPerUser - Cardinality(Shown(options[u])))
       /\ options' = [options EXCEPT ![u] = RememberOptions(@, incoming, admitted)]

\* Under the identity lock: only for the user who is still current.
StoreOfferings(c) ==
  /\ fetch[c].at = "resolved"
  /\ IdentityIsFree
  /\ fetch' = [fetch EXCEPT ![c] = Resting]
  /\ IF fetch[c].user = user
     THEN /\ RememberForUser(user, fetch[c].response)
          /\ offers' = [offers EXCEPT ![user] = fetch[c].response]
          /\ Issue(fetch[c].response)
     ELSE UNCHANGED <<offers, registry, issued, issuedNow>>
  /\ UNCHANGED <<user, buying>>

\* clear_identity_scoped_state; what is known stays.
SwitchIdentity ==
  /\ IdentityIsFree
  /\ user' \in Users \ {user}
  /\ offers' = [u \in Users |-> Nothing]
  /\ options' = [u \in Users |-> {}]
  /\ issuedNow' = {}
  /\ UNCHANGED <<known, saturated, fetch, buying, issued>>

-----------------------------------------------------------------------------
WasIssuedBySdk(f) == saturated \/ f \in known

\* store_purchase_option_for_package: the options it may launch with.
PurchaseOptions(f) ==
  LET matching == Matching(options[user], f) IN
  IF matching = {}
  THEN IF WasIssuedBySdk(f) THEN {} ELSE {NoPlan}
  ELSE IF \A p, q \in matching : p = q THEN {p[2] : p \in matching} ELSE {}

\* The app buys a package; the identity lock is held until the call returns.
PurchasePackage(f) ==
  /\ IdentityIsFree
  /\ \E option \in PurchaseOptions(f) : buying' = [package |-> f, option |-> option]
  /\ UNCHANGED <<user, offers, registry, fetch, issued, issuedNow>>

PurchaseReturns ==
  /\ buying # Nothing
  /\ buying' = Nothing
  /\ UNCHANGED <<user, offers, registry, fetch, issued, issuedNow>>

Next ==
  \/ \E c \in Callers : GetOfferings(c) \/ ServeCached(c) \/ OfferingsArrive(c)
                          \/ FetchFails(c) \/ StoreOfferings(c)
  \/ \E f \in Fingerprints : PurchasePackage(f)
  \/ PurchaseReturns \/ SwitchIdentity

Spec == Init /\ [][Next]_vars

-----------------------------------------------------------------------------
TypeOK ==
  /\ user \in Users
  /\ offers \in [Users -> {Nothing} \union SUBSET (Fingerprints \X Options)]
  /\ options \in [Users -> SUBSET (Fingerprints \X Options)]
  /\ known \subseteq Fingerprints
  /\ saturated \in BOOLEAN
  /\ fetch \in [Callers -> [at: {"idle", "reading", "resolved"}, user: Users \union {Nothing},
                            response: SUBSET (Fingerprints \X Options)]]
  /\ buying \in [package: Fingerprints, option: Options] \union {Nothing}
  /\ issued \subseteq Fingerprints
  /\ issuedNow \subseteq Fingerprints \X Options

OnlyCurrentUserHasOffers ==
  \A u \in Users \ {user} : offers[u] = Nothing /\ options[u] = {}

\* A package is bought with the option it was offered with to the current user,
\* and only if it was offered with no other; without a plan only if the SDK never
\* issued such a package, or issued it without one (store_options.rs:103, 252).
\* Nothing of an earlier identity is left to be served or bought
\* (purchases.rs:266, identity_operations.rs:259).
PackageKeepsItsPlan ==
  /\ OnlyCurrentUserHasOffers
  /\ buying # Nothing =>
       /\ \A p \in issuedNow : p[1] = buying.package => p[2] = buying.option
       /\ buying.package \in issued => <<buying.package, buying.option>> \in issuedNow
=============================================================================

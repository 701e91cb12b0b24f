---------------------------- MODULE DeviceCache ----------------------------
(* The in-memory cache of customer info and virtual currencies per user    *)
(* (cache.rs), and the policies it is read with.  An entry is the version  *)
(* of the backend's data it was made from.                                 *)
EXTENDS Integers

CONSTANTS
  Users,
  MaxVersion,  \* bound: changes of the backend's data
  NoEntry

Kinds == {"info", "currencies"}
Versions == 0..MaxVersion
Policies == {"CacheOnly", "FetchCurrent", "CachedOrFetched", "NotStaleCachedOrFetched"}

ASSUME VersionsAssumption == MaxVersion \in Nat /\ NoEntry \notin Versions

DeviceCaches == [Kinds -> [Users -> Versions \union {NoEntry}]]

EmptyCache == [k \in Kinds |-> [u \in Users |-> NoEntry]]

\* invalidate_customer_info, invalidate_virtual_currencies: the entries of these kinds
\* and users go.  DeviceCache::clear drops them all.
Without(cache, kinds, users) ==
  [k \in Kinds |-> [u \in Users |->
     IF k \in kinds /\ u \in users THEN NoEntry ELSE cache[k][u]]]

\* What get_customer_info_for_user may do with an entry.  Whether it is stale depends
\* on the time that passed: any entry may be.
MayAnswer(policy, entry) ==
  \/ policy = "CacheOnly"
  \/ policy # "FetchCurrent" /\ entry # NoEntry

MayFetch(policy, entry) ==
  \/ policy \in {"FetchCurrent", "NotStaleCachedOrFetched"}
  \/ policy = "CachedOrFetched" /\ entry = NoEntry
=============================================================================

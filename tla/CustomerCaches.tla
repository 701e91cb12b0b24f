--------------------------- MODULE CustomerCaches ---------------------------
(***************************************************************************)
(* The caches of customer info and of virtual currencies (cache.rs) under  *)
(* the calls that read and fill them (purchases.rs,                        *)
(* customer_operations.rs) and the identity changes that clear them        *)
(* (identity_operations.rs).                                               *)
(*                                                                         *)
(* A call waits until no identity change is under way, takes the user of   *)
(* that moment and lets the lock go; its request is then on its way while  *)
(* caches are invalidated, cleared and filled by others.  The backend's    *)
(* data has a version that grows with every change.                        *)
(***************************************************************************)
EXTENDS DeviceCache

CONSTANTS Callers, NoUser

VARIABLES
  user,      \* identity: the current App User ID
  identity,  \* who holds the identity_operation lock: {} or one call
  now,       \* backend: the version of its data
  cached,    \* DeviceCache: per kind and user, the version of the entry
  call,      \* the calls in flight
  dropped    \* history: the last drop of each entry, see LastDrops

vars == <<user, identity, now, cached, call, dropped>>

-----------------------------------------------------------------------------
(* Calls and entries *)

IdleCall == [at |-> "idle", operation |-> "none", kind |-> "info", policy |-> "FetchCurrent",
             user |-> NoUser, version |-> 0]

Operations == {"none", "get", "redeem", "changeIdentity"}

Calls == [at : {"idle", "waiting", "reading", "sent", "answering", "switched", "cleared"},
          operation : Operations, kind : Kinds, policy : Policies,
          user : Users \union {NoUser}, version : Versions]

\* `at` is what the backend had at the drop, `late` the calls whose old answers were on
\* their way then and still are, `revived` whether one of them made the entry.
LastDrops == [at : Versions, late : SUBSET Callers, revived : BOOLEAN]

NeverDropped == [at |-> 0, late |-> {}, revived |-> FALSE]

Return(c) ==
  /\ call' = [call EXCEPT ![c] = IdleCall]
  /\ identity' = identity \ {c}

Goes(c, at) == call' = [call EXCEPT ![c].at = at]

\* The answers of a kind for u that are on their way and already out of date.
OldAnswers(kind, u) ==
  {c \in Callers : /\ call[c].at \in {"answering", "switched", "cleared"}
                   /\ call[c].kind = kind /\ call[c].user = u
                   /\ call[c].version < now}

\* DeviceCache::clear
Cleared == Without(cached, Kinds, Users)

\* The entries of these kinds and users are dropped, because the backend's data may be
\* newer; the old answers that are on their way then are late.
Drops(kinds, users) ==
  dropped' = [k \in Kinds |-> [u \in Users |->
                IF k \in kinds /\ u \in users
                  THEN [at |-> now, late |-> OldAnswers(k, u), revived |-> FALSE]
                  ELSE dropped[k][u]]]

\* Faulty variant of Stored: the answer is filed under the user of the moment.
StoredForCurrent(c) == cached' = [cached EXCEPT ![call[c].kind][user] = call[c].version]

\* DeviceCache::store_customer_info, store_virtual_currencies
Stored(c) == cached' = [cached EXCEPT ![call[c].kind][call[c].user] = call[c].version]

\* The answer of c is on its way no longer: its entry is made from it, or it is lost.
Lands(c) ==
  LET k == call[c].kind
      u == call[c].user
  IN dropped' = [dropped EXCEPT ![k][u] = [at |-> @.at, late |-> @.late \ {c},
                                           revived |-> c \in @.late]]

IsLost(c) == dropped' = [dropped EXCEPT ![call[c].kind][call[c].user].late = @ \ {c}]

-----------------------------------------------------------------------------
(* Calls begin *)

Begin(c, operation, kind, policy, target) ==
  /\ call[c].at = "idle"
  /\ call' = [call EXCEPT ![c] = [at |-> "waiting", operation |-> operation, kind |-> kind,
                                  policy |-> policy, user |-> target, version |-> 0]]
  /\ UNCHANGED <<user, identity, now, cached, dropped>>

\* get_customer_info
GetCustomerInfo(c, policy) == Begin(c, "get", "info", policy, NoUser)

\* get_virtual_currencies serves a fresh cache or fetches.
GetVirtualCurrencies(c) == Begin(c, "get", "currencies", "NotStaleCachedOrFetched", NoUser)

\* redeem_web_purchase; a set of attributes differs only in what it keeps: nothing.
RedeemWebPurchase(c) == Begin(c, "redeem", "info", "FetchCurrent", NoUser)

\* log_in, or log_out to a new anonymous id
ChangeIdentity(c, target) == Begin(c, "changeIdentity", "info", "CachedOrFetched", target)

\* app_user_id_when_identity_settled: the user is taken when no identity change holds
\* the lock.  A redemption is sent, a read looks at the cache first.
UserSettled(c) ==
  /\ call[c].at = "waiting" /\ call[c].operation \in {"get", "redeem"}
  /\ identity = {}
  /\ call' = [call EXCEPT ![c].user = user,
                          ![c].at = IF call[c].operation = "get" THEN "reading" ELSE "sent"]
  /\ UNCHANGED <<user, identity, now, cached, dropped>>

\* log_in_internal with the lock: another user is requested, the current one answered
\* like a read that keeps the lock.
IdentityBegins(c) ==
  /\ call[c].at = "waiting" /\ call[c].operation = "changeIdentity"
  /\ identity = {}
  /\ identity' = {c}
  /\ call' = [call EXCEPT ![c].operation = IF call[c].user = user THEN "get" ELSE @,
                          ![c].at = IF call[c].user = user THEN "reading" ELSE "sent"]
  /\ UNCHANGED <<user, now, cached, dropped>>

\* An identity change is refused: an invalid id, another transition that is marked, a
\* purchase to recover, a journal that cannot be written (PurchasesCore).
IdentityRefused(c) ==
  /\ call[c].at = "waiting" /\ call[c].operation = "changeIdentity"
  /\ identity = {}
  /\ Return(c)
  /\ UNCHANGED <<user, now, cached, dropped>>

-----------------------------------------------------------------------------
(* The cache is read *)

\* The call is answered from the cache, or CacheOnly finds nothing.
AnsweredFromCache(c) ==
  /\ call[c].at = "reading"
  /\ MayAnswer(call[c].policy, cached[call[c].kind][call[c].user])
  /\ Return(c)
  /\ UNCHANGED <<user, now, cached, dropped>>

Fetch(c) ==
  /\ call[c].at = "reading"
  /\ MayFetch(call[c].policy, cached[call[c].kind][call[c].user])
  /\ Goes(c, "sent")
  /\ UNCHANGED <<user, identity, now, cached, dropped>>

-----------------------------------------------------------------------------
(* Requests and their answers *)

\* The backend's data changes, by a renewal or another device.
BackendChanges ==
  /\ now < MaxVersion
  /\ now' = now + 1
  /\ UNCHANGED <<user, identity, cached, call, dropped>>

\* The backend handles the request and answers; a redemption or login changes its data.
Handled(c) ==
  /\ call[c].at = "sent"
  /\ IF call[c].operation = "get" THEN UNCHANGED now
     ELSE now < MaxVersion /\ now' = now + 1
  /\ call' = [call EXCEPT ![c].at = "answering", ![c].version = now']
  /\ UNCHANGED <<user, identity, cached, dropped>>

\* The request or its answer is lost, or refused.
Fails(c) ==
  /\ call[c].at \in {"sent", "answering"}
  /\ Return(c) /\ IsLost(c)
  /\ UNCHANGED <<user, now, cached>>

\* The answer of a read or a redemption is stored for the user it was requested for.
AnswerStored(c) ==
  /\ call[c].at = "answering" /\ call[c].operation # "changeIdentity"
  /\ Stored(c) /\ Lands(c)
  /\ Return(c)
  /\ UNCHANGED <<user, now>>

\* The answer of an identity change: the user is switched,
SwitchUser(c) ==
  /\ call[c].at = "answering" /\ call[c].operation = "changeIdentity"
  /\ user' = call[c].user
  /\ Goes(c, "switched")
  /\ UNCHANGED <<identity, now, cached, dropped>>

\* the caches of all users are cleared,
ClearIdentityScopedState(c) ==
  /\ call[c].at = "switched"
  /\ cached' = Cleared
  /\ Drops(Kinds, Users)
  /\ Goes(c, "cleared")
  /\ UNCHANGED <<user, identity, now>>

\* and the answer is stored for the new user.
NewInfoStored(c) ==
  /\ call[c].at = "cleared"
  /\ Stored(c) /\ Lands(c)
  /\ Return(c)
  /\ UNCHANGED <<user, now>>

\* invalidate_customer_info_cache, invalidate_virtual_currencies_cache: the current
\* user's entry, without waiting for an identity change.
Invalidate(kind) ==
  /\ cached' = Without(cached, {kind}, {user})
  /\ Drops({kind}, {user})
  /\ UNCHANGED <<user, identity, now, call>>

-----------------------------------------------------------------------------
Init ==
  /\ user \in Users
  /\ identity = {}
  /\ now = 0
  /\ cached = EmptyCache
  /\ call = [c \in Callers |-> IdleCall]
  /\ dropped = [k \in Kinds |-> [u \in Users |-> NeverDropped]]

Step(c) ==
  \/ UserSettled(c) \/ IdentityBegins(c) \/ IdentityRefused(c)
  \/ AnsweredFromCache(c) \/ Fetch(c)
  \/ Handled(c) \/ Fails(c) \/ AnswerStored(c)
  \/ SwitchUser(c) \/ ClearIdentityScopedState(c) \/ NewInfoStored(c)

Next ==
  \/ \E c \in Callers :
       \/ \E policy \in Policies : GetCustomerInfo(c, policy)
       \/ GetVirtualCurrencies(c) \/ RedeemWebPurchase(c)
       \/ \E target \in Users : ChangeIdentity(c, target)
       \/ Step(c)
  \/ BackendChanges
  \/ \E kind \in Kinds : Invalidate(kind)

Spec == Init /\ [][Next]_vars

-----------------------------------------------------------------------------
(* Properties *)

TypeOK ==
  /\ user \in Users
  /\ identity \subseteq Callers
  /\ now \in Versions
  /\ cached \in DeviceCaches
  /\ call \in [Callers -> Calls]
  /\ dropped \in [Kinds -> [Users -> LastDrops]]

\* A call that is past the lock knows its user, and an identity change keeps the lock;
\* an answer on its way is no older than the last drop of its entry, or it was on its
\* way then; the backend is ahead of all.
CallIsSound(c) ==
  /\ call[c].at \notin {"idle", "waiting"} \/ call[c].operation = "changeIdentity"
       => call[c].user \in Users
  /\ call[c].at \notin {"idle", "waiting"} /\ call[c].operation = "changeIdentity"
       => identity = {c}
  /\ call[c].at \in {"switched", "cleared"} => call[c].operation = "changeIdentity"
  /\ call[c].at \in {"answering", "switched", "cleared"}
       => LET drop == dropped[call[c].kind][call[c].user]
          IN call[c].version <= now /\ (drop.at <= call[c].version \/ c \in drop.late)

DropsArePast == \A k \in Kinds, u \in Users : dropped[k][u].at <= now

\* An entry that was invalidated, or cleared by an identity change, does not come back
\* unless a late answer brings it: one the backend gave for the same user before the
\* drop and that was on its way then (cache.rs:56, identity_operations.rs:259).  So an
\* answer for one user never ages the entry of another, and a second drop is final for
\* what the answers of the first one brought.
OnlyLateAnswersRevive ==
  \A k \in Kinds, u \in Users :
    cached[k][u] # NoEntry /\ cached[k][u] < dropped[k][u].at => dropped[k][u].revived

\* The inductive invariant.
IInv ==
  /\ TypeOK
  /\ DropsArePast
  /\ \A c \in Callers : CallIsSound(c)
  /\ OnlyLateAnswersRevive
=============================================================================

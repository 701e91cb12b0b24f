------------------------ MODULE CustomerCachesProofs ------------------------
(* Theorems about CustomerCaches, for any calls, users and number of changes: *)
(* what was invalidated or cleared is only brought back by answers that were  *)
(* on their way then, by the invariant IInv.                                  *)
EXTENDS CustomerCaches, TLAPS

-----------------------------------------------------------------------------
(* Versions and calls *)

LEMMA VersionsAreNaturals == Versions \subseteq Nat /\ 0 \in Versions
  BY VersionsAssumption DEF Versions

LEMMA IdleCallType == IdleCall \in Calls
  BY VersionsAreNaturals DEF IdleCall, Calls, Operations, Kinds, Policies

LEMMA NaturalState ==
  ASSUME TypeOK
  PROVE  /\ now \in Nat
         /\ \A k \in Kinds, u \in Users : dropped[k][u] \in LastDrops /\ dropped[k][u].at \in Nat
         /\ \A c \in Callers : call[c].version \in Nat /\ call[c] \in Calls
<1>1. now \in Nat /\ \A c \in Callers : call[c].version \in Nat /\ call[c] \in Calls
  BY VersionsAreNaturals DEF TypeOK, Calls
<1>2. \A k \in Kinds, u \in Users : dropped[k][u] \in LastDrops
  BY DEF TypeOK
<1>3. \A d \in LastDrops : d.at \in Nat
  BY VersionsAreNaturals DEF LastDrops
<1> QED
  BY <1>1, <1>2, <1>3

\* A drop is as recent as the backend, and the answers on their way keep up or are late.
LEMMA DropsAre ==
  ASSUME TypeOK, \A c \in Callers : CallIsSound(c), NEW kinds, NEW users,
         Drops(kinds, users)
  PROVE  /\ dropped' \in [Kinds -> [Users -> LastDrops]]
         /\ \A k \in Kinds, u \in Users :
              IF k \in kinds /\ u \in users
                THEN dropped'[k][u].at = now /\ dropped'[k][u].late = OldAnswers(k, u)
                ELSE dropped'[k][u] = dropped[k][u]
<1> DEFINE new(k, u) == [at |-> now, late |-> OldAnswers(k, u), revived |-> FALSE]
<1>1. \A k \in Kinds, u \in Users :
        /\ new(k, u) \in LastDrops
        /\ new(k, u).at = now /\ new(k, u).late = OldAnswers(k, u)
  BY DEF TypeOK, LastDrops, OldAnswers
<1>2. dropped' = [k \in Kinds |-> [u \in Users |->
                    IF k \in kinds /\ u \in users THEN new(k, u) ELSE dropped[k][u]]]
  BY DEF Drops
<1> HIDE DEF new
<1> QED
  BY <1>1, <1>2 DEF TypeOK

\* The last drop of an entry after an answer for it arrived,
LEMMA LandsIs ==
  ASSUME TypeOK, NEW c \in Callers, call[c].user \in Users, Lands(c)
  PROVE  /\ dropped' \in [Kinds -> [Users -> LastDrops]]
         /\ \A k \in Kinds, u \in Users :
              /\ dropped'[k][u].at = dropped[k][u].at
              /\ dropped[k][u].late \ {c} \subseteq dropped'[k][u].late
              /\ IF k = call[c].kind /\ u = call[c].user
                   THEN dropped'[k][u].revived = (c \in dropped[k][u].late)
                   ELSE dropped'[k][u] = dropped[k][u]
<1> DEFINE k0 == call[c].kind
           u0 == call[c].user
           old == dropped[k0][u0]
           new == [at |-> old.at, late |-> old.late \ {c}, revived |-> c \in old.late]
<1>1. k0 \in Kinds /\ u0 \in Users /\ dropped \in [Kinds -> [Users -> LastDrops]]
  BY DEF TypeOK, Calls
<1>2. new \in LastDrops
  BY <1>1 DEF LastDrops
<1>3. dropped' = [dropped EXCEPT ![k0][u0] = new]
  BY <1>1 DEF Lands
<1>4. new.at = old.at /\ new.late = old.late \ {c} /\ new.revived = (c \in old.late)
  OBVIOUS
<1> HIDE DEF new
<1>5. ASSUME NEW k \in Kinds, NEW u \in Users
      PROVE  dropped'[k][u] = IF k = k0 /\ u = u0 THEN new ELSE dropped[k][u]
  BY <1>1, <1>3
<1>6. dropped' \in [Kinds -> [Users -> LastDrops]]
  BY <1>1, <1>2, <1>3
<1> QED
  BY <1>4, <1>5, <1>6

\* and after the answer, or the request, was lost.
LEMMA LossIs ==
  ASSUME TypeOK, NEW c \in Callers, call[c].user \in Users, IsLost(c)
  PROVE  /\ dropped' \in [Kinds -> [Users -> LastDrops]]
         /\ \A k \in Kinds, u \in Users :
              /\ dropped'[k][u].at = dropped[k][u].at
              /\ dropped[k][u].late \ {c} \subseteq dropped'[k][u].late
              /\ dropped'[k][u].revived = dropped[k][u].revived
<1> DEFINE k0 == call[c].kind
           u0 == call[c].user
           old == dropped[k0][u0]
           new == [old EXCEPT !.late = @ \ {c}]
<1>1. k0 \in Kinds /\ u0 \in Users /\ dropped \in [Kinds -> [Users -> LastDrops]]
  BY DEF TypeOK, Calls
<1>2. new \in LastDrops
  BY <1>1 DEF LastDrops
<1>3. dropped' = [dropped EXCEPT ![k0][u0] = new]
  BY <1>1 DEF IsLost
<1>4. new.at = old.at /\ new.late = old.late \ {c} /\ new.revived = old.revived
  BY <1>1 DEF LastDrops
<1> HIDE DEF new
<1>5. ASSUME NEW k \in Kinds, NEW u \in Users
      PROVE  dropped'[k][u] = IF k = k0 /\ u = u0 THEN new ELSE dropped[k][u]
  BY <1>1, <1>3
<1>6. dropped' \in [Kinds -> [Users -> LastDrops]]
  BY <1>1, <1>2, <1>3
<1> QED
  BY <1>4, <1>5, <1>6

-----------------------------------------------------------------------------
LEMMA InitIInv == Init => IInv
<1> SUFFICES ASSUME Init PROVE IInv
  OBVIOUS
<1>1. TypeOK
  <2>1. NeverDropped \in LastDrops
    BY VersionsAreNaturals DEF NeverDropped, LastDrops
  <2> QED
    BY <2>1, VersionsAreNaturals, IdleCallType DEF Init, TypeOK, EmptyCache, DeviceCaches
<1>2. DropsArePast
  BY DEF Init, DropsArePast, NeverDropped
<1>3. \A c \in Callers : CallIsSound(c)
  BY DEF Init, CallIsSound, IdleCall
<1>4. OnlyLateAnswersRevive
  BY DEF Init, OnlyLateAnswersRevive, EmptyCache
<1> QED
  BY <1>1, <1>2, <1>3, <1>4 DEF IInv

-----------------------------------------------------------------------------
(* One call moves; the caches and the backend stay *)

\* The new record of a call that moves is sound, the others are as they were.
LEMMA MoveKeeps ==
  ASSUME IInv, NEW c \in Callers, NEW new \in Calls,
         call' = [call EXCEPT ![c] = new],
         \/ identity' \in {identity, identity \ {c}}
         \/ identity = {} /\ identity' = {c},
         user' \in Users,
         now' \in Versions, now <= now',
         UNCHANGED <<cached, dropped>>,
         CallIsSound(c)'
  PROVE  IInv'
<1> USE DEF IInv
<1>1. \A d \in Callers \ {c} : call'[d] = call[d]
  BY DEF TypeOK
<1>2. TypeOK'
  BY DEF TypeOK
<1>3. now \in Nat /\ now' \in Nat /\ \A k \in Kinds, u \in Users : dropped[k][u].at \in Nat
  BY NaturalState, VersionsAreNaturals
<1>4. DropsArePast'
  BY <1>3 DEF DropsArePast
<1>5. ASSUME NEW d \in Callers \ {c} PROVE CallIsSound(d)'
  <2>1. call'[d] = call[d] /\ CallIsSound(d) /\ call[d].version \in Nat
    BY <1>1, NaturalState
  <2>2. identity = {d} => identity' = {d}
    OBVIOUS
  <2>3. call[d].version <= now => call[d].version <= now'
    BY <1>3, <2>1
  <2> QED
    BY <2>1, <2>2, <2>3 DEF CallIsSound
<1>6. OnlyLateAnswersRevive'
  BY DEF OnlyLateAnswersRevive
<1> QED
  BY <1>2, <1>4, <1>5, <1>6

\* A call that returns.
LEMMA ReturnKeeps ==
  ASSUME IInv, NEW c \in Callers, Return(c), UNCHANGED <<user, now, cached, dropped>>
  PROVE  IInv'
<1>1. /\ call' = [call EXCEPT ![c] = IdleCall]
      /\ identity' = identity \ {c}
  BY DEF Return
<1>2. call'[c] = IdleCall
  BY <1>1 DEF IInv, TypeOK
<1>3. CallIsSound(c)'
  BY <1>2 DEF CallIsSound, IdleCall
<1>4. user' \in Users /\ now' \in Versions /\ now <= now'
  BY NaturalState DEF IInv, TypeOK
<1> QED
  BY <1>1, <1>3, <1>4, IdleCallType, MoveKeeps

LEMMA BeginKeeps ==
  ASSUME IInv, NEW c \in Callers, NEW operation \in Operations, NEW kind \in Kinds,
         NEW policy \in Policies, NEW target \in Users \union {NoUser},
         operation = "changeIdentity" => target \in Users,
         Begin(c, operation, kind, policy, target)
  PROVE  IInv'
<1> DEFINE new == [at |-> "waiting", operation |-> operation, kind |-> kind,
                   policy |-> policy, user |-> target, version |-> 0]
<1>1. new \in Calls
  BY VersionsAreNaturals DEF Calls
<1>2. call' = [call EXCEPT ![c] = new] /\ UNCHANGED <<user, identity, now, cached, dropped>>
  BY DEF Begin
<1>3. call'[c] = new
  BY <1>2 DEF IInv, TypeOK
<1>4. CallIsSound(c)'
  BY <1>3 DEF CallIsSound
<1>5. user' \in Users /\ now' \in Versions /\ now <= now'
  BY <1>2, NaturalState DEF IInv, TypeOK
<1> HIDE DEF new
<1> QED
  BY <1>1, <1>2, <1>4, <1>5, MoveKeeps

\* A call that goes on with the lock as it was, or with the lock that was free.
LEMMA GoesKeeps ==
  ASSUME IInv, NEW c \in Callers,
         NEW new \in Calls, call' = [call EXCEPT ![c] = new],
         identity' = identity \/ (identity = {} /\ identity' = {c}),
         UNCHANGED <<user, now, cached, dropped>>,
         new.user \in Users,
         new.at \in {"waiting", "reading", "sent"},
         new.at # "waiting" /\ new.operation = "changeIdentity" => identity' = {c}
  PROVE  IInv'
<1>1. call'[c] = new
  BY DEF IInv, TypeOK
<1>2. CallIsSound(c)'
  BY <1>1 DEF CallIsSound
<1>3. user' \in Users /\ now' \in Versions /\ now <= now'
  BY NaturalState DEF IInv, TypeOK
<1> QED
  BY <1>2, <1>3, MoveKeeps

LEMMA UserSettledKeeps ==
  ASSUME IInv, NEW c \in Callers, UserSettled(c)
  PROVE  IInv'
<1> DEFINE new == [call[c] EXCEPT !.user = user,
                     !.at = IF call[c].operation = "get" THEN "reading" ELSE "sent"]
<1>1. call[c] \in Calls /\ user \in Users /\ call \in [Callers -> Calls]
  BY DEF IInv, TypeOK
<1>2. /\ new \in Calls /\ new.user = user /\ new.operation = call[c].operation
      /\ new.at \in {"reading", "sent"}
  BY <1>1 DEF Calls
<1>3. call' = [call EXCEPT ![c] = new] /\ new.operation # "changeIdentity"
  BY <1>1, <1>2 DEF UserSettled
<1>4. identity' = identity /\ UNCHANGED <<user, now, cached, dropped>>
  BY DEF UserSettled
<1>5. /\ new.user \in Users /\ new.at \in {"waiting", "reading", "sent"}
      /\ new.at # "waiting" /\ new.operation = "changeIdentity" => identity' = {c}
  BY <1>1, <1>2, <1>3, <1>4
<1> HIDE DEF new
<1> QED
  BY <1>2, <1>3, <1>4, <1>5, GoesKeeps

LEMMA IdentityBeginsKeeps ==
  ASSUME IInv, NEW c \in Callers, IdentityBegins(c)
  PROVE  IInv'
<1> DEFINE same == call[c].user = user
           new == [call[c] EXCEPT !.operation = IF same THEN "get" ELSE @,
                                  !.at = IF same THEN "reading" ELSE "sent"]
<1>1. call[c] \in Calls /\ call \in [Callers -> Calls] /\ call[c].user \in Users
  BY DEF IInv, TypeOK, CallIsSound, IdentityBegins
<1>2. new \in Calls /\ new.user = call[c].user /\ new.at \in {"reading", "sent"}
  BY <1>1 DEF Calls, Operations
<1>3. call' = [call EXCEPT ![c] = new]
  BY <1>1 DEF IdentityBegins
<1>4. identity = {} /\ identity' = {c} /\ UNCHANGED <<user, now, cached, dropped>>
  BY DEF IdentityBegins
<1> HIDE DEF new
<1> QED
  BY <1>1, <1>2, <1>3, <1>4, GoesKeeps

LEMMA FetchKeeps ==
  ASSUME IInv, NEW c \in Callers, Fetch(c)
  PROVE  IInv'
<1> DEFINE new == [call[c] EXCEPT !.at = "sent"]
<1>1. /\ call[c] \in Calls /\ call[c].user \in Users
      /\ call[c].operation = "changeIdentity" => identity = {c}
  BY DEF IInv, TypeOK, CallIsSound, Fetch
<1>2. /\ new \in Calls /\ new.user = call[c].user /\ new.operation = call[c].operation
      /\ new.at = "sent"
  BY <1>1 DEF Calls
<1>3. call' = [call EXCEPT ![c] = new]
  BY DEF Fetch, Goes
<1>4. identity' = identity /\ UNCHANGED <<user, now, cached, dropped>>
  BY DEF Fetch
<1>5. /\ new.user \in Users /\ new.at \in {"waiting", "reading", "sent"}
      /\ new.at # "waiting" /\ new.operation = "changeIdentity" => identity' = {c}
  BY <1>1, <1>2, <1>3, <1>4
<1> HIDE DEF new
<1> QED
  BY <1>2, <1>3, <1>4, <1>5, GoesKeeps

-----------------------------------------------------------------------------
(* Requests and their answers *)

\* A call that ends leaves the others as they were.
LEMMA CallEnds ==
  ASSUME TypeOK, \A d \in Callers : CallIsSound(d), NEW c \in Callers,
         call' = [call EXCEPT ![c] = IdleCall], identity' = identity \ {c}, now' = now,
         \A k \in Kinds, u \in Users :
           /\ dropped'[k][u].at = dropped[k][u].at
           /\ dropped[k][u].late \ {c} \subseteq dropped'[k][u].late
  PROVE  \A d \in Callers : CallIsSound(d)'
<1> SUFFICES ASSUME NEW d \in Callers PROVE CallIsSound(d)'
  OBVIOUS
<1>1. CASE d = c
  BY <1>1 DEF TypeOK, CallIsSound, IdleCall
<1>2. CASE d # c
  <2>1. call'[d] = call[d] /\ (identity = {d} => identity' = {d}) /\ CallIsSound(d)
    BY <1>2 DEF TypeOK
  <2>2. call[d].kind \in Kinds
    BY DEF TypeOK, Calls
  <2>3. CASE call[d].at \in {"answering", "switched", "cleared"}
    <3> DEFINE old == dropped[call[d].kind][call[d].user]
               new == dropped'[call[d].kind][call[d].user]
    <3>1. new.at = old.at /\ (d \in old.late => d \in new.late)
      BY <1>2, <2>1, <2>2, <2>3 DEF CallIsSound
    <3>2. call[d].version <= now /\ (old.at <= call[d].version \/ d \in old.late)
      BY <2>1, <2>3 DEF CallIsSound
    <3> QED
      BY <2>1, <3>1, <3>2 DEF CallIsSound
  <2>4. CASE call[d].at \notin {"answering", "switched", "cleared"}
    BY <2>1, <2>4 DEF CallIsSound
  <2> QED
    BY <2>3, <2>4
<1> QED
  BY <1>1, <1>2

\* A new answer is as recent as the backend.
LEMMA HandledKeeps ==
  ASSUME IInv, NEW c \in Callers, Handled(c)
  PROVE  IInv'
<1> USE DEF IInv
<1> DEFINE new == [call[c] EXCEPT !.at = "answering", !.version = now']
<1>1. /\ call[c] \in Calls /\ call[c].user \in Users /\ call[c].kind \in Kinds
      /\ call[c].operation = "changeIdentity" => identity = {c}
      /\ now \in Nat /\ dropped[call[c].kind][call[c].user].at \in Nat
      /\ dropped[call[c].kind][call[c].user].at <= now
  BY NaturalState DEF TypeOK, CallIsSound, Handled, Calls, DropsArePast
<1>2. now' \in Versions /\ now <= now'
  BY <1>1, VersionsAssumption DEF Handled, Versions, TypeOK
<1>3. /\ new \in Calls /\ new.user = call[c].user /\ new.operation = call[c].operation
      /\ new.kind = call[c].kind /\ new.at = "answering" /\ new.version = now'
  BY <1>1, <1>2 DEF Calls
<1>4. call' = [call EXCEPT ![c] = new] /\ UNCHANGED <<user, identity, cached, dropped>>
  BY DEF Handled
<1>5. call'[c] = new
  BY <1>4 DEF TypeOK
<1>6. dropped[new.kind][new.user].at <= now'
  BY <1>1, <1>2, <1>3, VersionsAreNaturals
<1>7. CallIsSound(c)'
  <2>1. now' <= now'
    BY <1>2, VersionsAreNaturals
  <2> QED
    BY <1>1, <1>3, <1>4, <1>5, <1>6, <2>1 DEF CallIsSound
<1> HIDE DEF new
<1>8. user' \in Users
  BY <1>4 DEF TypeOK
<1> QED
  BY <1>2, <1>3, <1>4, <1>7, <1>8, MoveKeeps

LEMMA SwitchUserKeeps ==
  ASSUME IInv, NEW c \in Callers, SwitchUser(c)
  PROVE  IInv'
<1> USE DEF IInv
<1> DEFINE new == [call[c] EXCEPT !.at = "switched"]
<1>1. /\ call[c] \in Calls /\ call[c].at = "answering"
      /\ call[c].operation = "changeIdentity" /\ CallIsSound(c)
  BY DEF TypeOK, SwitchUser
<1>2. /\ new \in Calls /\ new.user = call[c].user /\ new.operation = call[c].operation
      /\ new.kind = call[c].kind /\ new.version = call[c].version /\ new.at = "switched"
  BY <1>1 DEF Calls
<1>3. call' = [call EXCEPT ![c] = new] /\ UNCHANGED <<identity, now, cached, dropped>>
      /\ user' = call[c].user
  BY DEF SwitchUser, Goes
<1>4. call'[c] = new
  BY <1>3 DEF TypeOK
<1>5. CallIsSound(c)'
  BY <1>1, <1>2, <1>3, <1>4 DEF CallIsSound
<1>6. user' \in Users /\ now' \in Versions /\ now <= now'
  BY <1>1, <1>3, NaturalState DEF CallIsSound, TypeOK
<1> HIDE DEF new
<1> QED
  BY <1>2, <1>3, <1>5, <1>6, MoveKeeps

\* An answer that is lost changes no entry and revives none.
LEMMA FailsKeeps ==
  ASSUME IInv, NEW c \in Callers, Fails(c)
  PROVE  IInv'
<1> USE DEF IInv
<1>1. /\ call' = [call EXCEPT ![c] = IdleCall] /\ identity' = identity \ {c}
      /\ IsLost(c) /\ UNCHANGED <<user, now, cached>>
  BY DEF Fails, Return
<1>2. call[c].user \in Users
  BY DEF Fails, CallIsSound
<1>3. /\ dropped' \in [Kinds -> [Users -> LastDrops]]
      /\ \A k \in Kinds, u \in Users :
           /\ dropped'[k][u].at = dropped[k][u].at
           /\ dropped[k][u].late \ {c} \subseteq dropped'[k][u].late
           /\ dropped'[k][u].revived = dropped[k][u].revived
  BY <1>1, <1>2, LossIs
<1>4. TypeOK' /\ DropsArePast'
  BY <1>1, <1>3, IdleCallType DEF TypeOK, DropsArePast
<1>5. \A d \in Callers : CallIsSound(d)'
  <2>1. TypeOK /\ (\A d \in Callers : CallIsSound(d)) /\ now' = now
    BY <1>1
  <2>2. call' = [call EXCEPT ![c] = IdleCall] /\ identity' = identity \ {c}
    BY <1>1
  <2>3. \A k \in Kinds, u \in Users :
          /\ dropped'[k][u].at = dropped[k][u].at
          /\ dropped[k][u].late \ {c} \subseteq dropped'[k][u].late
    BY <1>3
  <2> QED
    BY <2>1, <2>2, <2>3, CallEnds, Zenon
<1>6. OnlyLateAnswersRevive'
  BY <1>1, <1>3 DEF OnlyLateAnswersRevive
<1> QED
  BY <1>4, <1>5, <1>6

\* What is stored is no older than the last drop of its entry, or its answer was late.
LEMMA StoredKeeps ==
  ASSUME IInv, NEW c \in Callers, call[c].at \in {"answering", "cleared"},
         Stored(c), Lands(c), Return(c), UNCHANGED <<user, now>>
  PROVE  IInv'
<1> USE DEF IInv
<1> DEFINE k0 == call[c].kind
           u0 == call[c].user
<1>1. /\ k0 \in Kinds /\ u0 \in Users /\ call[c].version \in Versions
      /\ dropped[k0][u0].at <= call[c].version \/ c \in dropped[k0][u0].late
  BY DEF TypeOK, Calls, CallIsSound
<1>2. /\ dropped' \in [Kinds -> [Users -> LastDrops]]
      /\ \A k \in Kinds, u \in Users :
           /\ dropped'[k][u].at = dropped[k][u].at
           /\ dropped[k][u].late \ {c} \subseteq dropped'[k][u].late
           /\ IF k = k0 /\ u = u0
                THEN dropped'[k][u].revived = (c \in dropped[k][u].late)
                ELSE dropped'[k][u] = dropped[k][u]
  BY <1>1, LandsIs
<1>3. /\ cached' \in [Kinds -> [Users -> Versions \union {NoEntry}]]
      /\ \A k \in Kinds, u \in Users :
           cached'[k][u] = IF k = k0 /\ u = u0 THEN call[c].version ELSE cached[k][u]
  BY <1>1 DEF Stored, TypeOK, DeviceCaches
<1>4. call' = [call EXCEPT ![c] = IdleCall] /\ identity' = identity \ {c}
  BY DEF Return
<1>5. TypeOK' /\ DropsArePast'
  BY <1>2, <1>3, <1>4, IdleCallType DEF TypeOK, DropsArePast, DeviceCaches
<1>6. \A d \in Callers : CallIsSound(d)'
  <2>1. TypeOK /\ (\A d \in Callers : CallIsSound(d)) /\ now' = now
    OBVIOUS
  <2>2. \A k \in Kinds, u \in Users :
          /\ dropped'[k][u].at = dropped[k][u].at
          /\ dropped[k][u].late \ {c} \subseteq dropped'[k][u].late
    BY <1>2
  <2> QED
    BY <1>4, <2>1, <2>2, CallEnds, Zenon
<1>7. OnlyLateAnswersRevive'
  <2> SUFFICES ASSUME NEW k \in Kinds, NEW u \in Users,
                      cached'[k][u] # NoEntry, cached'[k][u] < dropped'[k][u].at
               PROVE  dropped'[k][u].revived
    BY DEF OnlyLateAnswersRevive
  <2>1. CASE k = k0 /\ u = u0
    <3>1. ~(dropped[k][u].at <= call[c].version)
      BY <1>1, <1>2, <1>3, <2>1, NaturalState, VersionsAreNaturals
    <3> QED
      BY <1>1, <1>2, <2>1, <3>1
  <2>2. CASE ~(k = k0 /\ u = u0)
    BY <1>2, <1>3, <2>2 DEF OnlyLateAnswersRevive
  <2> QED
    BY <2>1, <2>2
<1> QED
  BY <1>5, <1>6, <1>7

\* After a drop every answer on its way is recent, or late.
LEMMA DropsKeep ==
  ASSUME IInv, NEW kinds, NEW users, cached' = Without(cached, kinds, users), Drops(kinds, users),
         call' \in [Callers -> Calls],
         \A c \in Callers :
           /\ call'[c].kind = call[c].kind /\ call'[c].user = call[c].user
           /\ call'[c].version = call[c].version /\ call'[c].operation = call[c].operation
           /\ \/ call'[c].at = call[c].at
              \/ call[c].at = "switched" /\ call'[c].at = "cleared",
         UNCHANGED <<user, identity, now>>
  PROVE  IInv'
<1> USE DEF IInv
<1>1. /\ dropped' \in [Kinds -> [Users -> LastDrops]]
      /\ \A k \in Kinds, u \in Users :
           IF k \in kinds /\ u \in users
             THEN dropped'[k][u].at = now /\ dropped'[k][u].late = OldAnswers(k, u)
             ELSE dropped'[k][u] = dropped[k][u]
  BY DropsAre
<1>2. /\ cached' \in [Kinds -> [Users -> Versions \union {NoEntry}]]
      /\ \A k \in Kinds, u \in Users :
           cached'[k][u] = IF k \in kinds /\ u \in users THEN NoEntry ELSE cached[k][u]
  BY DEF Without, TypeOK, DeviceCaches
<1>3. TypeOK'
  BY <1>1, <1>2 DEF TypeOK, DeviceCaches
<1>4. DropsArePast'
  <2> SUFFICES ASSUME NEW k \in Kinds, NEW u \in Users PROVE dropped'[k][u].at <= now
    BY DEF DropsArePast
  <2>1. CASE k \in kinds /\ u \in users
    BY <1>1, <2>1, NaturalState
  <2>2. CASE ~(k \in kinds /\ u \in users)
    BY <1>1, <2>2 DEF DropsArePast
  <2> QED
    BY <2>1, <2>2
<1>5. ASSUME NEW c \in Callers PROVE CallIsSound(c)'
  <2>1. CallIsSound(c) /\ call[c] \in Calls /\ call[c].version \in Nat /\ now \in Nat
    BY NaturalState
  <2>2. ASSUME call'[c].at \in {"answering", "switched", "cleared"}
        PROVE  LET drop == dropped'[call[c].kind][call[c].user]
               IN drop.at <= call[c].version \/ c \in drop.late
    <3> DEFINE k == call[c].kind
               u == call[c].user
    <3>1. /\ call[c].at \in {"answering", "switched", "cleared"}
          /\ k \in Kinds /\ u \in Users
      BY <2>1, <2>2 DEF CallIsSound, Calls
    <3>2. CASE k \in kinds /\ u \in users
      <4>1. dropped'[k][u].at = now /\ dropped'[k][u].late = OldAnswers(k, u)
        BY <1>1, <3>1, <3>2
      <4>2. call[c].version < now => c \in OldAnswers(k, u)
        BY <3>1 DEF OldAnswers
      <4> QED
        BY <2>1, <4>1, <4>2
    <3>3. CASE ~(k \in kinds /\ u \in users)
      BY <1>1, <2>1, <3>1, <3>3 DEF CallIsSound
    <3> QED
      BY <3>2, <3>3
  <2> QED
    BY <2>1, <2>2 DEF CallIsSound
<1>6. OnlyLateAnswersRevive'
  <2> SUFFICES ASSUME NEW k \in Kinds, NEW u \in Users,
                      cached'[k][u] # NoEntry, cached'[k][u] < dropped'[k][u].at
               PROVE  dropped'[k][u].revived
    BY DEF OnlyLateAnswersRevive
  <2> QED
    BY <1>1, <1>2 DEF OnlyLateAnswersRevive
<1> QED
  BY <1>3, <1>4, <1>5, <1>6

LEMMA ClearKeeps ==
  ASSUME IInv, NEW c \in Callers, ClearIdentityScopedState(c)
  PROVE  IInv'
<1> DEFINE new == [call[c] EXCEPT !.at = "cleared"]
<1>1. call \in [Callers -> Calls] /\ call[c] \in Calls /\ call[c].at = "switched"
  BY DEF IInv, TypeOK, ClearIdentityScopedState
<1>2. /\ new \in Calls /\ new.user = call[c].user /\ new.operation = call[c].operation
      /\ new.kind = call[c].kind /\ new.version = call[c].version /\ new.at = "cleared"
  BY <1>1 DEF Calls
<1>3. /\ call' = [call EXCEPT ![c] = new] /\ cached' = Without(cached, Kinds, Users)
      /\ Drops(Kinds, Users) /\ UNCHANGED <<user, identity, now>>
  BY DEF ClearIdentityScopedState, Goes, Cleared
<1> HIDE DEF new
<1>4. call' \in [Callers -> Calls]
  BY <1>1, <1>2, <1>3
<1>5. ASSUME NEW d \in Callers
      PROVE  /\ call'[d].kind = call[d].kind /\ call'[d].user = call[d].user
             /\ call'[d].version = call[d].version /\ call'[d].operation = call[d].operation
             /\ \/ call'[d].at = call[d].at
                \/ call[d].at = "switched" /\ call'[d].at = "cleared"
  BY <1>1, <1>2, <1>3
<1> QED
  BY <1>3, <1>4, <1>5, DropsKeep

LEMMA InvalidateKeeps ==
  ASSUME IInv, NEW kind \in Kinds, Invalidate(kind)
  PROVE  IInv'
<1>1. /\ cached' = Without(cached, {kind}, {user}) /\ Drops({kind}, {user})
      /\ UNCHANGED <<user, identity, now>> /\ call' = call
  BY DEF Invalidate
<1>2. call' \in [Callers -> Calls]
  BY <1>1 DEF IInv, TypeOK
<1> QED
  BY <1>1, <1>2, DropsKeep

LEMMA BackendChangesKeeps ==
  ASSUME IInv, BackendChanges
  PROVE  IInv'
<1> USE DEF IInv
<1>1. /\ now' = now + 1 /\ now \in Nat /\ now' \in Versions
      /\ UNCHANGED <<user, identity, cached, call, dropped>>
  BY VersionsAssumption DEF BackendChanges, TypeOK, Versions
<1>2. TypeOK'
  BY <1>1 DEF TypeOK
<1>3. DropsArePast'
  BY <1>1, NaturalState DEF DropsArePast
<1>4. ASSUME NEW c \in Callers PROVE CallIsSound(c)'
  BY <1>1, NaturalState DEF CallIsSound
<1>5. OnlyLateAnswersRevive'
  BY <1>1 DEF OnlyLateAnswersRevive
<1> QED
  BY <1>2, <1>3, <1>4, <1>5

-----------------------------------------------------------------------------
(* All steps *)

LEMMA StepKeeps ==
  ASSUME IInv, NEW c \in Callers, Step(c)
  PROVE  IInv'
<1>1. CASE UserSettled(c) \/ IdentityBegins(c) \/ Fetch(c)
  BY <1>1, UserSettledKeeps, IdentityBeginsKeeps, FetchKeeps
<1>2. CASE IdentityRefused(c) \/ AnsweredFromCache(c) \/ Fails(c)
  BY <1>2, ReturnKeeps, FailsKeeps DEF IdentityRefused, AnsweredFromCache
<1>3. CASE AnswerStored(c) \/ NewInfoStored(c)
  BY <1>3, StoredKeeps DEF AnswerStored, NewInfoStored
<1>4. CASE Handled(c) \/ SwitchUser(c) \/ ClearIdentityScopedState(c)
  BY <1>4, HandledKeeps, SwitchUserKeeps, ClearKeeps
<1> QED
  BY <1>1, <1>2, <1>3, <1>4 DEF Step

LEMMA BeginsKeep ==
  ASSUME IInv, NEW c \in Callers,
         \/ \E policy \in Policies : GetCustomerInfo(c, policy)
         \/ GetVirtualCurrencies(c) \/ RedeemWebPurchase(c)
         \/ \E target \in Users : ChangeIdentity(c, target)
  PROVE  IInv'
<1> USE DEF Operations, Kinds, Policies
<1>1. ASSUME NEW policy \in Policies, GetCustomerInfo(c, policy) PROVE IInv'
  BY <1>1, BeginKeeps DEF GetCustomerInfo
<1>2. CASE GetVirtualCurrencies(c)
  BY <1>2, BeginKeeps DEF GetVirtualCurrencies
<1>3. CASE RedeemWebPurchase(c)
  BY <1>3, BeginKeeps DEF RedeemWebPurchase
<1>4. ASSUME NEW target \in Users, ChangeIdentity(c, target) PROVE IInv'
  BY <1>4, BeginKeeps DEF ChangeIdentity
<1> QED
  BY <1>1, <1>2, <1>3, <1>4

LEMMA NextKeeps == IInv /\ [Next]_vars => IInv'
<1> SUFFICES ASSUME IInv, [Next]_vars PROVE IInv'
  OBVIOUS
<1>1. CASE UNCHANGED vars
  BY <1>1 DEF vars, IInv, TypeOK, DropsArePast, CallIsSound, OnlyLateAnswersRevive
<1>2. CASE BackendChanges \/ \E kind \in Kinds : Invalidate(kind)
  BY <1>2, BackendChangesKeeps, InvalidateKeeps
<1>3. CASE \E c \in Callers : Step(c)
  BY <1>3, StepKeeps
<1> QED
  BY <1>1, <1>2, <1>3, BeginsKeep DEF Next

-----------------------------------------------------------------------------
(* The theorems *)

\* The invariant holds in every reachable state.
THEOREM InvariantHolds == Spec => []IInv
  BY InitIInv, NextKeeps, PTL DEF Spec

\* What was invalidated or cleared (cache.rs) is only brought back by an answer for the
\* same user that was on its way at that moment.
THEOREM RevivalsAreLate == Spec => []OnlyLateAnswersRevive
  BY InvariantHolds, PTL DEF IInv
=============================================================================

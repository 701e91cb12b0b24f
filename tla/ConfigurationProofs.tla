------------------------- MODULE ConfigurationProofs -------------------------
(* Theorems about Configuration, for any calls and options: a call is told    *)
(* that the process is configured only as it asked, by the invariant IInv.    *)
EXTENDS Configuration, TLAPS

-----------------------------------------------------------------------------
(* Fingerprints and users *)

LEMMA OptionsType == /\ \A o \in CallOptions : o \in ConfigureOptions /\ o # NoOptions
                     /\ NoOptions \notin CallOptions
  BY OptionsAssumption

LEMMA IdleCallType == IdleCall \in Calls
  BY DEF IdleCall, Calls

\* Calls with one fingerprint ask for one instance.
LEMMA FingerprintDecides ==
  ASSUME NEW o \in CallOptions, NEW p \in CallOptions, Fingerprint(o) = Fingerprint(p)
  PROVE  /\ ClientOf(o) = ClientOf(p)
         /\ StoreOf(build, o) = StoreOf(build, p)
         /\ Explicit(o) = Explicit(p)
         /\ \A user : Valid(build, o, user) <=> Valid(build, p, user)
<1>1. /\ o.key = p.key /\ Explicit(o) = Explicit(p)
      /\ NonEmpty(o.proxy) = NonEmpty(p.proxy)
      /\ VerificationMode(o) = VerificationMode(p)
      /\ o.root = p.root /\ o.allow = p.allow
  BY DEF Fingerprint
<1>2. NonEmpty(o.proxy) # Absent => o.proxy = p.proxy
  BY <1>1 DEF NonEmpty
<1> QED
  BY <1>1, <1>2 DEF ClientOf, StoreOf, Valid

LEMMA JournalTypes ==
  /\ \A user \in AppUserIDs \union {Absent} : Settled(user) \in Journals
  /\ \A j \in Journals :
       /\ j.current \in AppUserIDs \union {Absent} /\ j.pending \in AppUserIDs \union {Absent}
       /\ j.pending # Absent => j.current \in AppUserIDs /\ j.pending \in AppUserIDs
  BY UsersAssumption DEF Journals, Settled

LEMMA InitialUserTypes ==
  ASSUME journal \in Journals, NEW o \in CallOptions, NEW user \in InitialUsers(o)
  PROVE  /\ user \in AppUserIDs \union {TooLong}
         /\ journal.pending = Absent /\ Explicit(o) \in AppUserIDs => user = Explicit(o)
<1>1. o.user \in AppUserIDs \union {Absent, Empty, Blank, TooLong}
  BY OptionsType DEF ConfigureOptions
<1>2. Explicit(o) \in AppUserIDs \union {Absent, Blank, TooLong}
  BY <1>1 DEF Explicit, NonEmpty
<1>3. Generated \subseteq AppUserIDs
  BY DEF Generated, AppUserIDs
<1> QED
  BY <1>2, <1>3, JournalTypes, UsersAssumption DEF InitialUsers

-----------------------------------------------------------------------------
LEMMA InitIInv == Init => IInv
<1> SUFFICES ASSUME Init PROVE IInv
  OBVIOUS
<1>1. TypeOK
  BY IdleCallType DEF Init, TypeOK
<1>2. \A c \in Callers : CallIsSound(c)
  BY DEF Init, CallIsSound, IdleCall
<1> QED
  BY <1>1, <1>2 DEF Init, IInv, InstanceIsSound, ConfiguredAsAsked

-----------------------------------------------------------------------------
(* Endings of a call *)

\* Who may be the one that has the lock.
LEMMA LockIsTaken ==
  ASSUME IInv, NEW c \in Callers, holder \in {{}, {c}}
  PROVE  \A d \in Callers : d # c => holder # {d}
  OBVIOUS

LEMMA RefusedKeeps ==
  ASSUME IInv, NEW c \in Callers, holder \in {{}, {c}}, instance = NoInstance,
         Refused(c), journal' \in Journals, UNCHANGED build
  PROVE  IInv'
<1> USE DEF IInv
<1>1. /\ call' = [call EXCEPT ![c] = IdleCall] /\ holder' = {}
      /\ UNCHANGED <<instance, answered, build>>
  BY DEF Refused, Return
<1>2. TypeOK'
  BY <1>1, IdleCallType DEF TypeOK
<1>3. \A d \in Callers : CallIsSound(d)'
  <2> SUFFICES ASSUME NEW d \in Callers PROVE CallIsSound(d)'
    OBVIOUS
  <2>1. holder' # {d}
    BY <1>1
  <2>2. CASE d = c
    BY <1>1, <2>1, <2>2 DEF TypeOK, CallIsSound, IdleCall
  <2>3. CASE d # c
    <3>1. call'[d] = call[d] /\ holder # {d}
      BY <1>1, <2>3, LockIsTaken DEF TypeOK
    <3> QED
      BY <3>1, <2>1 DEF CallIsSound
  <2> QED
    BY <2>2, <2>3
<1>4. InstanceIsSound' /\ ConfiguredAsAsked'
  BY <1>1 DEF InstanceIsSound, ConfiguredAsAsked
<1> QED
  BY <1>2, <1>3, <1>4

LEMMA AwaitsKeeps ==
  ASSUME IInv, NEW c \in Callers, holder \in {{}, {c}}, instance = NoInstance,
         NEW at \in {"asking", "resuming"}, NEW user \in InitialUsers(call[c].options),
         call[c].at # "idle", ~Conflicts(call[c].options),
         at = "asking" => call[c].options.key \notin TestKeys /\ Mobile(build),
         at = "resuming" => journal.pending # Absent /\ Valid(build, call[c].options, user),
         Awaits(c, at, user), UNCHANGED <<journal, build>>
  PROVE  IInv'
<1> USE DEF IInv
<1>1. /\ call' = [call EXCEPT ![c].at = at, ![c].user = user] /\ holder' = {c}
      /\ UNCHANGED <<instance, answered, build, journal>>
  BY DEF Awaits
<1>2. call[c].options \in CallOptions /\ call[c].options.mode # "misspelt" /\ call[c] \in Calls
  BY DEF CallIsSound, TypeOK
<1>3. /\ call'[c].at = at /\ call'[c].user = user /\ call'[c].options = call[c].options
      /\ \A d \in Callers \ {c} : call'[d] = call[d]
  BY <1>1 DEF TypeOK, Calls
<1>4. user \in AppUserIDs \union {Absent, TooLong}
  BY <1>2, InitialUserTypes DEF TypeOK
<1>5. call' \in [Callers -> Calls]
  BY <1>1, <1>2, <1>4 DEF TypeOK, Calls
<1>6. TypeOK'
  BY <1>1, <1>5 DEF TypeOK
<1>7. CallIsSound(c)'
  BY <1>1, <1>2, <1>3
  DEF CallIsSound, Conflicts, InitialUsers, Generated, Explicit, Mobile, Valid
<1>8. ASSUME NEW d \in Callers \ {c} PROVE CallIsSound(d)'
  BY <1>1, <1>3, <1>8, LockIsTaken DEF CallIsSound
<1>9. InstanceIsSound' /\ ConfiguredAsAsked'
  BY <1>1 DEF InstanceIsSound, ConfiguredAsAsked
<1> QED
  BY <1>6, <1>7, <1>8, <1>9

LEMMA InstallKeeps ==
  ASSUME IInv, NEW c \in Callers, holder \in {{}, {c}}, instance = NoInstance,
         NEW o \in CallOptions, NEW user \in AppUserIDs, Valid(build, o, user),
         Explicit(o) \in AppUserIDs => user = Explicit(o),
         Install(c, o, user), journal' \in Journals, UNCHANGED build
  PROVE  IInv'
<1> USE DEF IInv
<1> DEFINE new == [fingerprint |-> Fingerprint(o), client |-> ClientOf(o),
                   store |-> StoreOf(build, o), user |-> user]
<1>1. /\ call' = [call EXCEPT ![c] = IdleCall] /\ holder' = {}
      /\ instance' = new /\ answered' = answered \union {o} /\ UNCHANGED build
  BY DEF Install, Return
<1>2. new \in Instances /\ new # NoInstance
  <2>1. StoreOf(build, o) \in {"test store", "play store", "app store"}
    BY DEF StoreOf
  <2> HIDE DEF new
  <2>2. new \in Instances
    BY <2>1 DEF new, Instances
  <2> QED
    BY <2>2, NoInstanceAssumption
<1>3. answered = {}
  BY DEF ConfiguredAsAsked
<1>4. TypeOK'
  BY <1>1, <1>2, IdleCallType DEF TypeOK
<1>5. \A d \in Callers : CallIsSound(d)'
  <2> SUFFICES ASSUME NEW d \in Callers PROVE CallIsSound(d)'
    OBVIOUS
  <2>1. holder' # {d}
    BY <1>1
  <2>2. CASE d = c
    BY <1>1, <2>1, <2>2 DEF TypeOK, CallIsSound, IdleCall
  <2>3. CASE d # c
    <3>1. call'[d] = call[d] /\ holder # {d}
      BY <1>1, <2>3, LockIsTaken DEF TypeOK
    <3> QED
      BY <3>1, <2>1 DEF CallIsSound
  <2> QED
    BY <2>2, <2>3
<1>6. InstanceIsSound'
  BY <1>1 DEF InstanceIsSound
<1>7. ConfiguredAsAsked'
  BY <1>1, <1>2, <1>3 DEF ConfiguredAsAsked, Valid, StoreOf, Mobile
<1> QED
  BY <1>4, <1>5, <1>6, <1>7

LEMMA BuildKeeps ==
  ASSUME IInv, NEW c \in Callers, holder \in {{}, {c}}, instance = NoInstance,
         call[c].at # "idle", ~Conflicts(call[c].options),
         NEW user \in InitialUsers(call[c].options),
         Build(c, call[c].options, user), UNCHANGED build
  PROVE  IInv'
<1> DEFINE o == call[c].options
<1>1. /\ journal \in Journals /\ o \in CallOptions
      /\ user \in AppUserIDs \union {TooLong}
      /\ journal.pending = Absent /\ Explicit(o) \in AppUserIDs => user = Explicit(o)
  BY InitialUserTypes DEF IInv, TypeOK, CallIsSound
<1>2. CASE ~Valid(build, o, user)
  <2>1. Refused(c) /\ journal' \in Journals
    BY <1>1, <1>2 DEF Build
  <2> QED
    BY <2>1, RefusedKeeps
<1>3. CASE Valid(build, o, user) /\ journal.pending # Absent
  <2>1. Awaits(c, "resuming", user) /\ UNCHANGED journal
    BY <1>3 DEF Build
  <2> QED
    BY <2>1, <1>3, AwaitsKeeps
<1>4. CASE Valid(build, o, user) /\ journal.pending = Absent
  <2>1. user \in AppUserIDs
    BY <1>1, <1>4 DEF Valid
  <2>2. Settled(user) \in Journals
    BY <2>1, JournalTypes
  <2>3. Settle(c, o, user)
    BY <1>4 DEF Build
  <2>4. CASE journal' = Settled(user) /\ Install(c, o, user)
    BY <1>1, <1>4, <2>1, <2>2, <2>4, InstallKeeps
  <2>5. CASE journal' \in {journal, Settled(user)} /\ Refused(c)
    <3>1. journal' \in Journals
      BY <1>1, <2>2, <2>5
    <3> QED
      BY <3>1, <2>5, RefusedKeeps
  <2> QED
    BY <2>3, <2>4, <2>5 DEF Settle
<1> QED
  BY <1>2, <1>3, <1>4

-----------------------------------------------------------------------------
(* The steps of configure *)

LEMMA ConfigureKeeps ==
  ASSUME IInv, NEW c \in Callers, NEW o \in CallOptions, Configure(c, o)
  PROVE  IInv'
<1> USE DEF IInv
<1> DEFINE new == [at |-> "waiting", options |-> o, user |-> Absent]
<1>1. /\ call[c].at = "idle" /\ o.mode # "misspelt"
      /\ call' = [call EXCEPT ![c] = new] /\ new \in Calls
      /\ UNCHANGED <<build, instance, journal, holder, answered>>
  BY DEF Configure, Calls
<1>2. TypeOK'
  BY <1>1 DEF TypeOK
<1>3. holder # {c}
  BY <1>1 DEF CallIsSound
<1>4. CallIsSound(c)'
  BY <1>1, <1>3 DEF TypeOK, CallIsSound
<1>5. ASSUME NEW d \in Callers \ {c} PROVE CallIsSound(d)'
  <2>1. call'[d] = call[d] /\ CallIsSound(d)
    BY <1>1 DEF TypeOK
  <2> QED
    BY <1>1, <2>1 DEF CallIsSound, Conflicts, InitialUsers, Generated, Mobile, Valid
<1>6. InstanceIsSound'
  BY <1>1 DEF InstanceIsSound
<1>7. ConfiguredAsAsked'
  BY <1>1 DEF ConfiguredAsAsked, Valid, StoreOf, Mobile
<1> QED
  BY <1>2, <1>4, <1>5, <1>6, <1>7

\* The other call asked for what the instance was installed with.
LEMMA EnterConfiguredKeeps ==
  ASSUME IInv, NEW c \in Callers, EnterConfigured(c)
  PROVE  IInv'
<1> USE DEF IInv
<1> DEFINE o == call[c].options
<1>1. /\ call[c].at = "waiting" /\ holder = {} /\ instance # NoInstance
      /\ call' = [call EXCEPT ![c] = IdleCall] /\ holder' = {}
      /\ answered' = IF instance.fingerprint = Fingerprint(o) THEN answered \union {o}
                     ELSE answered
      /\ UNCHANGED <<build, instance, journal>>
  BY DEF EnterConfigured, MayEnter, Return
<1>2. o \in CallOptions
  BY <1>1 DEF CallIsSound
<1>3. TypeOK'
  BY <1>1, <1>2, IdleCallType DEF TypeOK
<1>4. \A d \in Callers : CallIsSound(d)'
  <2> SUFFICES ASSUME NEW d \in Callers PROVE CallIsSound(d)'
    OBVIOUS
  <2>1. holder' # {d} /\ holder # {d}
    BY <1>1
  <2>2. CASE d = c
    BY <1>1, <2>1, <2>2 DEF TypeOK, CallIsSound, IdleCall
  <2>3. CASE d # c
    <3>1. call'[d] = call[d]
      BY <1>1, <2>3 DEF TypeOK
    <3> QED
      BY <3>1, <2>1 DEF CallIsSound
  <2> QED
    BY <2>2, <2>3
<1>5. InstanceIsSound'
  BY <1>1 DEF InstanceIsSound
<1>6. ConfiguredAsAsked'
  <2> SUFFICES ASSUME NEW p \in answered'
               PROVE  /\ instance' # NoInstance
                      /\ instance'.client = ClientOf(p)
                      /\ instance'.store = StoreOf(build, p)'
                      /\ Valid(build, p, instance.user)'
                      /\ Explicit(p) \in AppUserIDs => instance'.user = Explicit(p)
    BY DEF ConfiguredAsAsked
  <2>1. PICK q \in answered : q \in CallOptions /\ instance.fingerprint = Fingerprint(q)
    BY <1>1 DEF InstanceIsSound, TypeOK
  <2>2. PICK r \in answered : r \in CallOptions /\ Fingerprint(r) = Fingerprint(p) /\ p \in CallOptions
    BY <1>1, <1>2, <2>1 DEF TypeOK
  <2>3. /\ instance.client = ClientOf(p) /\ instance.store = StoreOf(build, p)
        /\ Valid(build, p, instance.user)
        /\ Explicit(p) \in AppUserIDs => instance.user = Explicit(p)
    BY <2>2, FingerprintDecides DEF ConfiguredAsAsked
  <2> QED
    BY <1>1, <2>3 DEF StoreOf, Valid, Mobile
<1> QED
  BY <1>3, <1>4, <1>5, <1>6

LEMMA EnterFirstKeeps ==
  ASSUME IInv, NEW c \in Callers, EnterFirst(c)
  PROVE  IInv'
<1> DEFINE o == call[c].options
<1>1. call[c].at = "waiting" /\ holder \in {{}, {c}} /\ instance = NoInstance
      /\ UNCHANGED build /\ journal \in Journals
  BY DEF EnterFirst, MayEnter, IInv, TypeOK
<1>2. CASE Refused(c) /\ UNCHANGED journal
  BY <1>1, <1>2, RefusedKeeps
<1>3. ASSUME ~Conflicts(o), NEW user \in InitialUsers(o), Build(c, o, user) PROVE IInv'
  BY <1>1, <1>3, BuildKeeps
<1>4. ASSUME ~Conflicts(o), NEW user \in InitialUsers(o), o.key \notin TestKeys, Mobile(build),
             Awaits(c, "asking", user), UNCHANGED journal
      PROVE  IInv'
  BY <1>1, <1>4, AwaitsKeeps
<1> QED
  BY <1>2, <1>3, <1>4 DEF EnterFirst

LEMMA StoreAnswersKeeps ==
  ASSUME IInv, NEW c \in Callers, StoreAnswers(c)
  PROVE  IInv'
<1>1. /\ call[c].at = "asking" /\ holder = {c} /\ instance = NoInstance /\ UNCHANGED build
      /\ ~Conflicts(call[c].options) /\ call[c].user \in InitialUsers(call[c].options)
      /\ journal \in Journals
  BY DEF StoreAnswers, IInv, CallIsSound, InstanceIsSound, TypeOK
<1>2. CASE Build(c, call[c].options, call[c].user)
  BY <1>1, <1>2, BuildKeeps
<1>3. CASE Refused(c) /\ UNCHANGED journal
  BY <1>1, <1>3, RefusedKeeps
<1> QED
  BY <1>2, <1>3 DEF StoreAnswers

LEMMA TransitionResumedKeeps ==
  ASSUME IInv, NEW c \in Callers, TransitionResumed(c)
  PROVE  IInv'
<1> DEFINE o == call[c].options
<1>1. /\ call[c].at = "resuming" /\ holder = {c} /\ instance = NoInstance /\ UNCHANGED build
      /\ ~Conflicts(o) /\ o \in CallOptions
      /\ journal \in Journals /\ journal.pending # Absent
      /\ Valid(build, o, call[c].user)
  BY DEF TransitionResumed, IInv, CallIsSound, InstanceIsSound, TypeOK
<1>2. journal.pending \in AppUserIDs /\ Settled(journal.pending) \in Journals
  BY <1>1, JournalTypes
<1>3. journal' \in Journals
  BY <1>1, <1>2 DEF TransitionResumed
<1>4. CASE Refused(c)
  BY <1>1, <1>3, <1>4, RefusedKeeps
<1>5. CASE Install(c, o, journal.pending)
  <2>1. Valid(build, o, journal.pending)
    BY <1>1, <1>2, UsersAssumption DEF Valid
  <2>2. Explicit(o) \in AppUserIDs => journal.pending = Explicit(o)
    BY <1>1, UsersAssumption DEF Conflicts
  <2> QED
    BY <1>1, <1>2, <1>3, <1>5, <2>1, <2>2, InstallKeeps
<1> QED
  BY <1>4, <1>5 DEF TransitionResumed

LEMMA RestartKeeps ==
  ASSUME IInv, Restart
  PROVE  IInv'
<1>1. TypeOK'
  BY IdleCallType DEF IInv, TypeOK, Restart
<1>2. \A c \in Callers : CallIsSound(c)'
  BY DEF Restart, CallIsSound, IdleCall
<1>3. InstanceIsSound' /\ ConfiguredAsAsked'
  BY DEF Restart, InstanceIsSound, ConfiguredAsAsked
<1> QED
  BY <1>1, <1>2, <1>3 DEF IInv

LEMMA NextKeeps == IInv /\ [Next]_vars => IInv'
<1> SUFFICES ASSUME IInv, [Next]_vars PROVE IInv'
  OBVIOUS
<1>1. CASE \E c \in Callers, o \in CallOptions : Configure(c, o)
  BY <1>1, ConfigureKeeps
<1>2. CASE \E c \in Callers : EnterConfigured(c) \/ EnterFirst(c)
  BY <1>2, EnterConfiguredKeeps, EnterFirstKeeps
<1>3. CASE \E c \in Callers : StoreAnswers(c) \/ TransitionResumed(c)
  BY <1>3, StoreAnswersKeeps, TransitionResumedKeeps
<1>4. CASE Restart
  BY <1>4, RestartKeeps
<1>5. CASE UNCHANGED vars
  BY <1>5 DEF vars, IInv, TypeOK, CallIsSound, InstanceIsSound, ConfiguredAsAsked,
              Conflicts, InitialUsers, Generated, Mobile, Valid, StoreOf
<1> QED
  BY <1>1, <1>2, <1>3, <1>4, <1>5 DEF Next

-----------------------------------------------------------------------------
(* The theorems *)

\* The invariant holds in every reachable state.
THEOREM InvariantHolds == Spec => []IInv
  BY InitIInv, NextKeeps, PTL DEF Spec

\* Whoever is told "configured" asked for the instance there is (commands.rs:configure).
THEOREM AnsweredAsAsked == Spec => []ConfiguredAsAsked
  BY InvariantHolds, PTL DEF IInv
=============================================================================

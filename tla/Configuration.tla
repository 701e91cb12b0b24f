--------------------------- MODULE Configuration ---------------------------
(***************************************************************************)
(* The plugin command configure (commands.rs), from the options of a call  *)
(* to the one instance of the process: the fingerprint that decides        *)
(* whether a second call is the same, the journaled identity it starts     *)
(* with, the store it is attached to, and the checks of                    *)
(* ConfigurationBuilder::build (configuration.rs) and Purchases::configure *)
(* (purchases.rs).                                                         *)
(*                                                                         *)
(* Calls run concurrently and wait twice while they hold the configuration *)
(* lock: for the native store, which knows whether it is a sandbox, and    *)
(* for the backend, when a journaled identity transition is resumed.       *)
(***************************************************************************)
EXTENDS ConfigureOptions

CONSTANT Callers  \* configure calls that run concurrently

VARIABLES
  build,     \* the target and profile the app is compiled for
  instance,  \* Sdk.inner: the configured instance
  journal,   \* the identity journal on disk (IdentityCommands)
  holder,    \* who holds Sdk.configuration_operation: {} or one call
  call,      \* the configure calls in flight
  answered   \* history: the options this process answered "configured"

vars == <<build, instance, journal, holder, call, answered>>

-----------------------------------------------------------------------------
(* The identity a call starts with *)

Settled(user) == [current |-> user, pending |-> Absent]
Journals == {Settled(user) : user \in AppUserIDs \union {Absent}}
            \union {j \in [current : AppUserIDs, pending : AppUserIDs] : j.current # j.pending}

\* resolve_initial_identity: the users the call may start with.  A transition that
\* is pending starts as its current user; a blank id becomes an anonymous one.
Conflicts(o) == journal.pending # Absent /\ Explicit(o) \notin {Absent, journal.pending}
Generated == Anonymous \ {journal.current}
InitialUsers(o) ==
  IF journal.pending # Absent THEN {journal.current}
  ELSE IF Explicit(o) = Blank THEN Generated
  ELSE IF Explicit(o) # Absent THEN {Explicit(o)}
  ELSE IF journal.current # Absent THEN {journal.current}
  ELSE Generated

IdleCall == [at |-> "idle", options |-> NoOptions, user |-> Absent]

-----------------------------------------------------------------------------
(* Endings of a call *)

Return(c) == call' = [call EXCEPT ![c] = IdleCall] /\ holder' = {}

\* The call returns an error.
Refused(c) == Return(c) /\ UNCHANGED <<instance, answered>>

\* The call waits for an answer with the lock held.
Awaits(c, at, user) ==
  /\ call' = [call EXCEPT ![c].at = at, ![c].user = user]
  /\ holder' = {c}
  /\ UNCHANGED <<instance, answered>>

\* configured_with_listener: the instance becomes visible to the other commands.
Install(c, o, user) ==
  /\ instance' = [fingerprint |-> Fingerprint(o), client |-> ClientOf(o),
                  store |-> StoreOf(build, o), user |-> user]
  /\ answered' = answered \union {o}
  /\ Return(c)

\* settle_initial_identity: the user is persisted, then the instance installed.
\* A write that fails may have replaced the file already.
Settle(c, o, user) ==
  \/ journal' = Settled(user) /\ Install(c, o, user)
  \/ journal' \in {journal, Settled(user)} /\ Refused(c)

\* The builder is complete: the instance is made and its identity settled, or the
\* journaled transition is resumed first.
Build(c, o, user) ==
  IF ~Valid(build, o, user) THEN Refused(c) /\ UNCHANGED journal
  ELSE IF journal.pending # Absent THEN Awaits(c, "resuming", user) /\ UNCHANGED journal
  ELSE Settle(c, o, user)

-----------------------------------------------------------------------------
(* The steps of configure *)

\* The fingerprint is made before the lock is taken: a misspelt mode is refused
\* at once.
Configure(c, o) ==
  /\ call[c].at = "idle"
  /\ o.mode # "misspelt"
  /\ call' = [call EXCEPT ![c] = [at |-> "waiting", options |-> o, user |-> Absent]]
  /\ UNCHANGED <<build, instance, journal, holder, answered>>

\* Faulty variant of MayEnter: the lock is not taken.
MayEnterAnyway(c) == call[c].at = "waiting"

MayEnter(c) == call[c].at = "waiting" /\ holder = {}

\* The process has an instance: the same options get it, others an error.
EnterConfigured(c) ==
  LET o == call[c].options IN
  /\ MayEnter(c)
  /\ instance # NoInstance
  /\ Return(c)
  /\ answered' = IF instance.fingerprint = Fingerprint(o) THEN answered \union {o}
                 ELSE answered
  /\ UNCHANGED <<build, instance, journal>>

\* Without an instance: the journal is read, the store attached.  The native store
\* is asked whether it is a sandbox; a desktop build has none.
EnterFirst(c) ==
  LET o == call[c].options IN
  /\ MayEnter(c)
  /\ instance = NoInstance
  /\ \/ Refused(c) /\ UNCHANGED journal
     \/ /\ ~Conflicts(o)
        /\ \E user \in InitialUsers(o) :
             \/ o.key \in TestKeys /\ Build(c, o, user)
             \/ /\ o.key \notin TestKeys /\ Mobile(build)
                /\ Awaits(c, "asking", user) /\ UNCHANGED journal
  /\ UNCHANGED build

\* The native store answers, or the bridge to it fails.
StoreAnswers(c) ==
  /\ call[c].at = "asking"
  /\ \/ Build(c, call[c].options, call[c].user)
     \/ Refused(c) /\ UNCHANGED journal
  /\ UNCHANGED build

\* The resumed transition ends: it failed, perhaps with the journal settled
\* already, or it is settled once more and the instance installed.
TransitionResumed(c) ==
  /\ call[c].at = "resuming"
  /\ \/ journal' \in {journal, Settled(journal.pending)} /\ Refused(c)
     \/ /\ journal' = Settled(journal.pending)
        /\ Install(c, call[c].options, journal.pending) \/ Refused(c)
  /\ UNCHANGED build

\* The process dies and starts again; identity commands of the instance may have
\* changed the journal.
Restart ==
  /\ instance' = NoInstance
  /\ answered' = {}
  /\ call' = [c \in Callers |-> IdleCall]
  /\ holder' = {}
  /\ IF instance = NoInstance THEN UNCHANGED journal ELSE journal' \in Journals
  /\ UNCHANGED build

-----------------------------------------------------------------------------
Init ==
  /\ build \in Builds
  /\ instance = NoInstance
  /\ journal \in Journals
  /\ holder = {}
  /\ call = [c \in Callers |-> IdleCall]
  /\ answered = {}

Next ==
  \/ \E c \in Callers :
       \/ \E o \in CallOptions : Configure(c, o)
       \/ EnterConfigured(c) \/ EnterFirst(c) \/ StoreAnswers(c) \/ TransitionResumed(c)
  \/ Restart

Spec == Init /\ [][Next]_vars

-----------------------------------------------------------------------------
(* Properties *)

Calls == [at : {"idle", "waiting", "asking", "resuming"}, options : CallOptions \union {NoOptions},
          user : AppUserIDs \union {Absent, TooLong}]

TypeOK ==
  /\ build \in Builds
  /\ instance \in Instances \union {NoInstance}
  /\ journal \in Journals
  /\ holder \subseteq Callers
  /\ call \in [Callers -> Calls]
  /\ answered \subseteq CallOptions

\* Every call that was told "configured" in this process asked for the instance there
\* is: its key, host, verification and store, the user it named, and nothing that
\* the builder refuses, like a Test Store key in a release build for phones.
ConfiguredAsAsked ==
  \A o \in answered :
    /\ instance # NoInstance
    /\ instance.client = ClientOf(o)
    /\ instance.store = StoreOf(build, o)
    /\ Valid(build, o, instance.user)
    /\ Explicit(o) \in AppUserIDs => instance.user = Explicit(o)

\* A call under way has options that are spelt; with the lock it goes on as the
\* user the journal and its options determine.
CallIsSound(c) ==
  LET o == call[c].options IN
  /\ call[c].at # "idle" => o \in CallOptions /\ o.mode # "misspelt"
  /\ call[c].at \in {"asking", "resuming"} <=> holder = {c}
  /\ holder = {c} => ~Conflicts(o) /\ call[c].user \in InitialUsers(o)
  /\ call[c].at = "asking" => o.key \notin TestKeys /\ Mobile(build)
  /\ call[c].at = "resuming" => journal.pending # Absent /\ Valid(build, o, call[c].user)

\* The instance was installed by a call, after which nobody needs the lock for long.
InstanceIsSound ==
  instance # NoInstance =>
    /\ holder = {}
    /\ \E o \in answered : instance.fingerprint = Fingerprint(o)

\* The inductive invariant.
IInv ==
  /\ TypeOK
  /\ \A c \in Callers : CallIsSound(c)
  /\ InstanceIsSound
  /\ ConfiguredAsAsked
=============================================================================

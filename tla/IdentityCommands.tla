-------------------------- MODULE IdentityCommands --------------------------
(***************************************************************************)
(* The plugin commands configure, log_in and log_out (commands.rs) over    *)
(* the durable identity journal (commands/identity_persistence.rs) and the *)
(* identity transactions of the Rust facade (identity_operations.rs).      *)
(*                                                                         *)
(* The journal is one small file that is replaced atomically; replacing it *)
(* may fail before or after the new content is in place, and the process   *)
(* may die between any two steps.  The commands read the journal before    *)
(* they wait for the identity lock of the facade.                          *)
(***************************************************************************)
EXTENDS FiniteSets

CONSTANTS
  Callers,    \* command invocations that run concurrently
  Names,      \* App User IDs the app logs in
  Anonymous,  \* generated anonymous ids (bounds how many are generated)
  Nobody, NoUser, NoTransition

ASSUME IdsAssumption == Names \cap Anonymous = {} /\ NoUser \notin Names \union Anonymous
ASSUME CallersAssumption == Nobody \notin Callers

Users == Names \union Anonymous
Operations == {"LogIn", "LogOut"}

\* The transitions an instance can have marked.
Marks == [kind : Operations, target : Users]

ASSUME NoTransitionAssumption == NoTransition \notin Marks

VARIABLES
  configured,      \* Sdk.inner holds a Purchases instance
  user,            \* its current App User ID (NoUser without an instance)
  marked,          \* its pending_identity_transition
  identityHolder,  \* who holds its identity_operation lock
  disk,            \* the journal file
  call,            \* the commands in flight
  accepted,        \* backend: the logins <<from, to>> it accepted
  issued,          \* history: the anonymous ids generated so far
  used             \* history: the ids that have been the current user

vars == <<configured, user, marked, identityHolder, disk, call, accepted, issued, used>>

-----------------------------------------------------------------------------
(* The journal and the calls *)

Settled(u) == [current |-> u, pending |-> NoUser, operation |-> "none"]
Transitioning(u, v, operation) == [current |-> u, pending |-> v, operation |-> operation]
NoFile == Settled(NoUser)

IdleCall == [at |-> "idle", operation |-> "none", target |-> NoUser, resumes |-> FALSE]

Journals == [current : Users \union {NoUser}, pending : Users \union {NoUser},
             operation : Operations \union {"none"}]

Calls == [at : {"idle", "waiting", "requesting", "resuming"},
          operation : Operations \union {"none"}, target : Users \union {NoUser},
          resumes : BOOLEAN]

TypeOK ==
  /\ configured \in BOOLEAN
  /\ user \in Users \union {NoUser}
  /\ marked \in Marks \union {NoTransition}
  /\ identityHolder \in Callers \union {Nobody}
  /\ disk \in Journals
  /\ call \in [Callers -> Calls]
  /\ accepted \subseteq Users \X Users
  /\ issued \subseteq Anonymous
  /\ used \subseteq Users

\* persist: the journal is replaced and the caller is told so.
Persisted(journal) == disk' = journal

\* persist fails; the new content may be in place already (the rename
\* succeeded and syncing the directory did not).
PersistFails(journal) == disk' \in {disk, journal}

Return(c) ==
  /\ call' = [call EXCEPT ![c] = IdleCall]
  /\ identityHolder' = IF identityHolder = c THEN Nobody ELSE identityHolder

\* Faulty variant of TransitionAllowed: any target of the same kind will do.
TransitionAllowedSameKind(kind, target) ==
  marked = NoTransition \/ marked \in [kind : {kind}, target : Users]

\* ensure_identity_transition_allowed, for a tracked transition
TransitionAllowed(kind, target) ==
  marked = NoTransition \/ marked = [kind |-> kind, target |-> target]

\* c is next to take the identity lock of the configured instance.
Granted(c, operation) ==
  /\ call[c].at = "waiting"
  /\ call[c].operation = operation
  /\ identityHolder = Nobody

\* The backend request is sent, with the lock held.
Request(c, target) ==
  /\ call' = [call EXCEPT ![c].at = "requesting", ![c].target = target]
  /\ identityHolder' = c

\* The user switches to target in memory; the transition is over.
SwitchTo(target) ==
  /\ user' = target
  /\ used' = used \union {target}
  /\ marked' = NoTransition

\* The instance is gone, with everything it kept in memory.
InstanceDropped ==
  /\ configured' = FALSE
  /\ user' = NoUser
  /\ marked' = NoTransition

-----------------------------------------------------------------------------
(* configure *)

NobodyConfigures == \A c \in Callers : call[c].at # "resuming"

\* Faulty variant of InitialIds: a missing id is taken as one.
InitialIdsAsGiven(explicit) == {explicit}

\* The ids a configure call may start with when no transition is journaled.
InitialIds(explicit) ==
  IF explicit # NoUser THEN {explicit}
  ELSE IF disk # NoFile THEN {disk.current}
  ELSE Anonymous \ issued

\* configure without a journaled transition: the effective id is persisted,
\* then the instance becomes visible.
ConfigureSettled(c, explicit) ==
  /\ ~configured /\ NobodyConfigures
  /\ call[c].at = "idle"
  /\ disk.pending = NoUser
  /\ \E id \in InitialIds(explicit) :
       /\ issued' = issued \union ({id} \cap Anonymous)
       /\ \/ /\ Persisted(Settled(id))
             /\ configured' = TRUE
             /\ SwitchTo(id)
          \/ /\ PersistFails(Settled(id))
             /\ UNCHANGED <<configured, user, marked, used>>
  /\ UNCHANGED <<identityHolder, call, accepted>>

\* Faulty variant of ConfigureResumes: only the caller who names the pending id
\* may resume.
ConfigureResumesWhenNamed(c, explicit) ==
  /\ ~configured /\ NobodyConfigures
  /\ call[c].at = "idle"
  /\ disk.pending # NoUser
  /\ explicit = disk.pending
  /\ user' = disk.current
  /\ used' = used \union {disk.current}
  /\ marked' = [kind |-> disk.operation, target |-> disk.pending]
  /\ call' = [call EXCEPT ![c] = [at |-> "resuming", operation |-> disk.operation,
                                  target |-> disk.pending, resumes |-> TRUE]]
  /\ UNCHANGED <<configured, identityHolder, disk, accepted, issued>>

\* configure with a journaled transition: the instance starts as the journaled
\* current user and retries the transition, which it does not journal again.
\* An explicit id other than the pending one is an error.
ConfigureResumes(c, explicit) ==
  /\ ~configured /\ NobodyConfigures
  /\ call[c].at = "idle"
  /\ disk.pending # NoUser
  /\ explicit \in {NoUser, disk.pending}
  /\ user' = disk.current
  /\ used' = used \union {disk.current}
  /\ marked' = [kind |-> disk.operation, target |-> disk.pending]
  /\ call' = [call EXCEPT ![c] = [at |-> "resuming", operation |-> disk.operation,
                                  target |-> disk.pending, resumes |-> TRUE]]
  /\ UNCHANGED <<configured, identityHolder, disk, accepted, issued>>

-----------------------------------------------------------------------------
(* log_in and log_out *)

\* The command reads the journal: a journaled transition must be this one.
StartLogIn(c, target) ==
  /\ configured
  /\ call[c].at = "idle"
  /\ disk.pending = NoUser \/ (disk.operation = "LogIn" /\ disk.pending = target)
  /\ call' = [call EXCEPT ![c] = [at |-> "waiting", operation |-> "LogIn",
                                  target |-> target, resumes |-> FALSE]]
  /\ UNCHANGED <<configured, user, marked, identityHolder, disk, accepted, issued, used>>

\* The command reads the journal: a journaled logout is resumed with the id
\* that was read.
StartLogOut(c) ==
  /\ configured
  /\ call[c].at = "idle"
  /\ disk.pending = NoUser \/ disk.operation = "LogOut"
  /\ call' = [call EXCEPT ![c] = [at |-> "waiting", operation |-> "LogOut",
                                  target |-> disk.pending,
                                  resumes |-> disk.pending # NoUser]]
  /\ UNCHANGED <<configured, user, marked, identityHolder, disk, accepted, issued, used>>

\* logIn to another user: marked in memory, then journaled, then requested.
LogInPrepares(c) ==
  LET target == call[c].target
      journal == Transitioning(user, target, "LogIn")
  IN
  /\ Granted(c, "LogIn")
  /\ TransitionAllowed("LogIn", target)
  /\ target # user
  /\ marked' = [kind |-> "LogIn", target |-> target]
  /\ \/ Persisted(journal) /\ Request(c, target)
     \/ PersistFails(journal) /\ Return(c)
  /\ UNCHANGED <<configured, user, accepted, issued, used>>

\* logIn to the current user is only committed again.
LogInAgain(c) ==
  /\ Granted(c, "LogIn")
  /\ TransitionAllowed("LogIn", call[c].target)
  /\ call[c].target = user
  /\ \/ Persisted(Settled(user)) /\ marked' = NoTransition
     \/ PersistFails(Settled(user)) /\ UNCHANGED marked
  /\ Return(c)
  /\ UNCHANGED <<configured, user, accepted, issued, used>>

\* The id a logout takes: the one to resume, the one already marked, or a new one.
LogOutTargets(c) ==
  IF call[c].resumes THEN {call[c].target}
  ELSE IF marked # NoTransition /\ marked.kind = "LogOut" THEN {marked.target}
  ELSE Anonymous \ issued

\* A resumed logout trusts the journal it read and does not write it again.
LogOutPrepares(c) ==
  /\ Granted(c, "LogOut")
  /\ user \notin Anonymous
  /\ \E target \in LogOutTargets(c) :
       LET journal == Transitioning(user, target, "LogOut") IN
       /\ TransitionAllowed("LogOut", target)
       /\ marked' = [kind |-> "LogOut", target |-> target]
       /\ issued' = issued \union {target}
       /\ \/ call[c].resumes /\ UNCHANGED disk /\ Request(c, target)
          \/ ~call[c].resumes /\ Persisted(journal) /\ Request(c, target)
          \/ ~call[c].resumes /\ PersistFails(journal) /\ Return(c)
  /\ UNCHANGED <<configured, user, accepted, used>>

\* The facade refuses: already anonymous, another transition is marked, or a
\* purchase has to be recovered first (PurchasesCore).
Refused(c) ==
  /\ call[c].at = "waiting" /\ identityHolder = Nobody
  /\ Return(c)
  /\ UNCHANGED <<configured, user, marked, disk, accepted, issued, used>>

-----------------------------------------------------------------------------
(* The backend answers *)

\* What the backend remembers of the request of c once it accepted it.
Accept(c) ==
  accepted' = IF call[c].operation = "LogIn"
                THEN accepted \union {<<user, call[c].target>>}
                ELSE accepted

\* Faulty variant of SwitchCommitted: the result of commit is ignored.
SwitchedUncommitted(c) ==
  /\ call[c].at = "requesting"
  /\ Accept(c)
  /\ PersistFails(Settled(call[c].target))
  /\ SwitchTo(call[c].target)
  /\ Return(c)
  /\ UNCHANGED <<configured, issued>>

\* The answer arrives: commit, then the switch in memory.
SwitchCommitted(c) ==
  /\ call[c].at = "requesting"
  /\ Accept(c)
  /\ Persisted(Settled(call[c].target))
  /\ SwitchTo(call[c].target)
  /\ Return(c)
  /\ UNCHANGED <<configured, issued>>

\* Faulty variant of CommitFails: the mark is cleared with the error.
CommitFailsUnmarked(c) ==
  /\ call[c].at = "requesting"
  /\ Accept(c)
  /\ PersistFails(Settled(call[c].target))
  /\ marked' = NoTransition
  /\ Return(c)
  /\ UNCHANGED <<configured, user, issued, used>>

\* The answer arrives and commit fails: the user stays, the mark stays.
CommitFails(c) ==
  /\ call[c].at = "requesting"
  /\ Accept(c)
  /\ PersistFails(Settled(call[c].target))
  /\ Return(c)
  /\ UNCHANGED <<configured, user, marked, issued, used>>

\* The request fails, before or after the backend accepted it.
RequestFails(c) ==
  /\ call[c].at = "requesting"
  /\ Accept(c) \/ UNCHANGED accepted
  /\ Return(c)
  /\ UNCHANGED <<configured, user, marked, disk, issued, used>>

\* configure resumed the transition and persists the settled id once more; if
\* only that fails the instance is dropped with the journal settled.
ResumeCommitted(c) ==
  /\ call[c].at = "resuming"
  /\ Accept(c)
  /\ Persisted(Settled(call[c].target))
  /\ Return(c)
  /\ \/ configured' = TRUE /\ SwitchTo(call[c].target)
     \/ InstanceDropped /\ used' = used \union {call[c].target}
  /\ UNCHANGED issued

\* The resumed transition fails: configure returns the error.
ResumeFails(c) ==
  /\ call[c].at = "resuming"
  /\ \/ UNCHANGED <<accepted, disk>>
     \/ Accept(c) /\ PersistFails(Settled(call[c].target))
  /\ InstanceDropped
  /\ Return(c)
  /\ UNCHANGED <<issued, used>>

\* The process dies: the journal is what is left.
Crash ==
  /\ InstanceDropped
  /\ call' = [c \in Callers |-> IdleCall]
  /\ identityHolder' = Nobody
  /\ UNCHANGED <<disk, accepted, issued, used>>

-----------------------------------------------------------------------------
Init ==
  /\ configured = FALSE
  /\ user = NoUser
  /\ marked = NoTransition
  /\ identityHolder = Nobody
  /\ disk = NoFile
  /\ call = [c \in Callers |-> IdleCall]
  /\ accepted = {}
  /\ issued = {}
  /\ used = {}

Step(c) ==
  \/ LogInPrepares(c) \/ LogInAgain(c) \/ LogOutPrepares(c) \/ Refused(c)
  \/ SwitchCommitted(c) \/ CommitFails(c) \/ RequestFails(c)
  \/ ResumeCommitted(c) \/ ResumeFails(c)

Next ==
  \/ \E c \in Callers :
       \/ \E explicit \in Names \union {NoUser} :
            ConfigureSettled(c, explicit) \/ ConfigureResumes(c, explicit)
       \/ \E target \in Names : StartLogIn(c, target)
       \/ StartLogOut(c)
       \/ Step(c)
  \/ Crash

Spec == Init /\ [][Next]_vars

\* A host that starts again keeps configuring, without naming an id; a resumed
\* transition that is retried again and again is committed in the end.
Fairness ==
  /\ WF_vars(\E c \in Callers : ConfigureResumes(c, NoUser))
  /\ SF_vars(\E c \in Callers : ResumeCommitted(c))
  /\ \A c \in Callers : WF_vars(Step(c))

FairSpec == Spec /\ Fairness

-----------------------------------------------------------------------------
(* Properties *)

\* Whenever the process dies the next configure continues as the current user
\* or completes the switch it was making: with no transition marked the
\* journal names the current user, with one it names nobody else than the two
\* users involved, and the new one only if the backend knows the switch.
RestartKeepsIdentity ==
  configured =>
    IF marked = NoTransition
      THEN disk = Settled(user)
      ELSE \/ disk = Settled(user)
           \/ disk = Transitioning(user, marked.target, marked.kind)
           \/ /\ disk = Settled(marked.target)
              /\ marked.kind = "LogIn" => <<user, marked.target>> \in accepted

\* What a command may rely on in the journal it reads: a transition has two users
\* and an operation, a logout ends as an anonymous user.
JournalIsSound ==
  /\ disk.pending = NoUser <=> disk.operation = "none"
  /\ disk.current = NoUser => disk = NoFile
  /\ disk.pending # NoUser => disk.pending # disk.current
  /\ disk.operation = "LogIn" => disk.pending \in Names
  /\ disk.operation = "LogOut" => disk.pending \in Anonymous

\* Who holds the lock has its request under way; it and a configure that resumes
\* make the very transition that is marked.
CallIsSound(c) ==
  /\ call[c].at # "idle" => call[c].operation \in Operations
  /\ call[c].operation = "LogIn" => call[c].target \in Names
  /\ call[c].operation = "LogOut" /\ (call[c].at # "waiting" \/ call[c].resumes)
       => call[c].target \in Anonymous
  /\ call[c].at = "requesting" <=> identityHolder = c
  /\ call[c].at \in {"requesting", "resuming"}
       => marked = [kind |-> call[c].operation, target |-> call[c].target]
  /\ call[c].at = "resuming"
       => /\ user \in Users
          /\ disk = Transitioning(user, call[c].target, call[c].operation)

\* Without an instance at most one configure is under way; the marked transition
\* leads to another user, and a logout to an anonymous one.
InstanceIsSound ==
  /\ configured => user \in Users /\ NobodyConfigures
  /\ ~configured => \A c \in Callers : call[c].at \in {"idle", "resuming"}
  /\ \A c, d \in Callers : call[c].at = "resuming" /\ call[d].at = "resuming" => c = d
  /\ marked # NoTransition =>
       /\ marked.target # user
       /\ marked.kind = "LogOut" => marked.target \in Anonymous

\* The inductive invariant.
JournalIInv ==
  /\ TypeOK
  /\ JournalIsSound
  /\ \A c \in Callers : CallIsSound(c)
  /\ InstanceIsSound
  /\ RestartKeepsIdentity

\* A journaled transition is never dropped or replaced, by another command, a
\* failed write or a restart: the journal changes only to settle its target.
JournaledTransitionSurvives ==
  [][disk.pending # NoUser => disk' \in {disk, Settled(disk.pending)}]_vars

\* The user never switches in memory by a login the backend did not accept,
\* nor before the journal says so.
SwitchIsDurable ==
  [][configured /\ configured' /\ user' # user =>
       /\ disk' = Settled(user')
       /\ user' \in Names => <<user, user'>> \in accepted']_vars

\* A journaled transition is resumed by a later configure: if the process
\* keeps being restarted the journal settles (docs/COMPATIBILITY.md:73).
RestartsSettleTheJournal ==
  []<>(~configured) => (disk.pending # NoUser ~> disk.pending = NoUser)

\* guest-js/index.ts:603 "Sign out to a fresh anonymous id": a logout never
\* takes an id that was the current user before.
LogOutIsFresh ==
  [][configured /\ configured' /\ user' # user /\ user' \in Anonymous => user' \notin used]_vars

\* docs/COMPATIBILITY.md:72 "settle it only after the backend and local
\* identity switch succeed": a settled journal names the current user.
SettlesAfterTheSwitch ==
  configured /\ disk.pending = NoUser => disk.current = user
=============================================================================

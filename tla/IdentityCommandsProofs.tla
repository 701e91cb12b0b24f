------------------------ MODULE IdentityCommandsProofs ------------------------
(* Theorems about IdentityCommands, for any number of commands and any ids:   *)
(* what a restart finds in the journal, that a journaled transition is never  *)
(* dropped, and that no user is switched to before the journal says so, by    *)
(* the invariant JournalIInv.                                                       *)
EXTENDS IdentityCommands, TLAPS

-----------------------------------------------------------------------------
(* Journals and calls *)

LEMMA JournalTypes ==
  /\ \A u \in Users \union {NoUser} : Settled(u) \in Journals
  /\ \A u, v \in Users, operation \in Operations : Transitioning(u, v, operation) \in Journals
  BY DEF Settled, Transitioning, Journals

LEMMA IdleCallType == IdleCall \in Calls
  BY DEF IdleCall, Calls

\* A settled journal is sound.
LEMMA SettledIsSound ==
  ASSUME NEW u \in Users
  PROVE  /\ Settled(u).pending = NoUser /\ Settled(u).operation = "none"
         /\ Settled(u).current = u /\ u # NoUser
  BY IdsAssumption DEF Settled, Users

\* So is that of a transition to another user.
LEMMA TransitioningIsSound ==
  ASSUME NEW u \in Users, NEW v \in Users, NEW operation \in Operations
  PROVE  /\ Transitioning(u, v, operation).pending = v
         /\ Transitioning(u, v, operation).current = u
         /\ Transitioning(u, v, operation).operation = operation
         /\ u # NoUser /\ v # NoUser
  BY IdsAssumption DEF Transitioning, Users

\* Names and anonymous ids are users, no user is both, and NoUser is neither.
LEMMA Ids == /\ Names \subseteq Users /\ Anonymous \subseteq Users
             /\ Names \cap Anonymous = {}
             /\ NoUser \notin Users
  BY IdsAssumption DEF Users

LEMMA MarkTypes ==
  ASSUME NEW operation \in Operations, NEW target \in Users
  PROVE  /\ [kind |-> operation, target |-> target] \in Marks
         /\ [kind |-> operation, target |-> target] # NoTransition
  BY NoTransitionAssumption DEF Marks

-----------------------------------------------------------------------------
LEMMA InitIInv == Init => JournalIInv
<1> SUFFICES ASSUME Init PROVE JournalIInv
  OBVIOUS
<1> USE DEF Init
<1>1. TypeOK
  BY JournalTypes, IdleCallType DEF TypeOK, NoFile, Settled, Journals
<1>2. JournalIsSound
  BY DEF JournalIsSound, NoFile, Settled
<1>3. \A c \in Callers : CallIsSound(c)
  BY CallersAssumption DEF CallIsSound, IdleCall
<1>4. InstanceIsSound
  BY DEF InstanceIsSound, IdleCall
<1> QED
  BY <1>1, <1>2, <1>3, <1>4 DEF JournalIInv, RestartKeepsIdentity

-----------------------------------------------------------------------------
(* A command that starts *)

LEMMA StartLogInKeeps ==
  ASSUME JournalIInv, NEW c \in Callers, NEW target \in Names, StartLogIn(c, target)
  PROVE  JournalIInv'
<1> DEFINE new == [at |-> "waiting", operation |-> "LogIn", target |-> target,
                   resumes |-> FALSE]
<1> USE DEF JournalIInv, TypeOK
<1>1. /\ new \in Calls
      /\ call' = [call EXCEPT ![c] = new]
      /\ call[c].at = "idle"
      /\ UNCHANGED <<configured, user, marked, identityHolder, disk, accepted, issued, used>>
  BY Ids DEF StartLogIn, Calls, Operations
<1>2. TypeOK'
  BY <1>1
<1>3. \A d \in Callers : CallIsSound(d)'
  BY <1>1 DEF CallIsSound, Operations
<1>4. InstanceIsSound'
  BY <1>1 DEF InstanceIsSound, NobodyConfigures, StartLogIn
<1> QED
  BY <1>1, <1>2, <1>3, <1>4 DEF JournalIsSound, RestartKeepsIdentity

LEMMA StartLogOutKeeps ==
  ASSUME JournalIInv, NEW c \in Callers, StartLogOut(c)
  PROVE  JournalIInv'
<1> DEFINE new == [at |-> "waiting", operation |-> "LogOut", target |-> disk.pending,
                   resumes |-> disk.pending # NoUser]
<1> USE DEF JournalIInv, TypeOK
<1>1. /\ new \in Calls
      /\ call' = [call EXCEPT ![c] = new]
      /\ call[c].at = "idle"
      /\ UNCHANGED <<configured, user, marked, identityHolder, disk, accepted, issued, used>>
  BY DEF StartLogOut, Calls, Operations, Journals
<1>2. TypeOK'
  BY <1>1
<1>3. new.resumes => new.target \in Anonymous
  BY DEF StartLogOut, JournalIsSound
<1>4. \A d \in Callers : CallIsSound(d)'
  BY <1>1, <1>3 DEF CallIsSound, Operations
<1>5. InstanceIsSound'
  BY <1>1 DEF InstanceIsSound, NobodyConfigures, StartLogOut
<1> QED
  BY <1>1, <1>2, <1>4, <1>5 DEF JournalIsSound, RestartKeepsIdentity

-----------------------------------------------------------------------------
(* configure *)

LEMMA ConfigureSettledKeeps ==
  ASSUME JournalIInv, NEW c \in Callers, NEW explicit \in Names \union {NoUser},
         ConfigureSettled(c, explicit)
  PROVE  JournalIInv'
<1> USE DEF JournalIInv, TypeOK
<1>1. PICK id \in InitialIds(explicit) :
        /\ issued' = issued \union ({id} \cap Anonymous)
        /\ \/ /\ Persisted(Settled(id))
              /\ configured' = TRUE
              /\ SwitchTo(id)
           \/ /\ PersistFails(Settled(id))
              /\ UNCHANGED <<configured, user, marked, used>>
  BY DEF ConfigureSettled
<1>2. /\ ~configured /\ NobodyConfigures /\ disk.pending = NoUser
      /\ UNCHANGED <<identityHolder, call, accepted>>
  BY DEF ConfigureSettled
<1>3. disk # NoFile => disk.current # NoUser
  BY <1>2 DEF JournalIsSound
<1>4. id \in Users
  <2>1. CASE explicit # NoUser
    BY <1>1, <2>1, Ids DEF InitialIds
  <2>2. CASE explicit = NoUser /\ disk # NoFile
    BY <1>1, <1>3, <2>2 DEF InitialIds, Journals
  <2>3. CASE explicit = NoUser /\ disk = NoFile
    BY <1>1, <2>3, Ids DEF InitialIds
  <2> QED
    BY <2>1, <2>2, <2>3
<1>5. \A d \in Callers : call[d].at = "idle"
  BY <1>2 DEF InstanceIsSound, NobodyConfigures
<1>6. disk' \in {disk, Settled(id)}
  BY <1>1 DEF Persisted, PersistFails
<1>7. JournalIsSound'
  BY <1>4, <1>6, SettledIsSound DEF JournalIsSound
<1>8. \A d \in Callers : CallIsSound(d)'
  BY <1>2, <1>5 DEF CallIsSound
<1>9. InstanceIsSound'
  BY <1>1, <1>2, <1>4, <1>5 DEF InstanceIsSound, NobodyConfigures, SwitchTo
<1>10. TypeOK'
  <2>1. disk' \in Journals /\ issued' \subseteq Anonymous
    BY <1>1, <1>4, <1>6, JournalTypes, Zenon
  <2>2. /\ configured' \in BOOLEAN /\ user' \in Users \union {NoUser}
        /\ marked' \in Marks \union {NoTransition} /\ used' \subseteq Users
    BY <1>1, <1>4 DEF SwitchTo
  <2> QED
    BY <1>2, <2>1, <2>2
<1> QED
  BY <1>1, <1>2, <1>7, <1>8, <1>9, <1>10 DEF RestartKeepsIdentity, SwitchTo, Persisted

LEMMA ConfigureResumesKeeps ==
  ASSUME JournalIInv, NEW c \in Callers, NEW explicit \in Names \union {NoUser},
         ConfigureResumes(c, explicit)
  PROVE  JournalIInv'
<1> DEFINE new == [at |-> "resuming", operation |-> disk.operation,
                   target |-> disk.pending, resumes |-> TRUE]
<1> USE DEF JournalIInv, TypeOK
<1>1. /\ call' = [call EXCEPT ![c] = new]
      /\ user' = disk.current /\ used' = used \union {disk.current}
      /\ marked' = [kind |-> disk.operation, target |-> disk.pending]
      /\ ~configured /\ NobodyConfigures /\ disk.pending # NoUser
      /\ UNCHANGED <<configured, identityHolder, disk, accepted, issued>>
  BY DEF ConfigureResumes
<1>2. /\ disk.current \in Users /\ disk.pending \in Users
      /\ disk.operation \in Operations /\ disk.pending # disk.current
      /\ disk.operation = "LogIn" => disk.pending \in Names
      /\ disk.operation = "LogOut" => disk.pending \in Anonymous
  <2>1. disk # NoFile
    BY <1>1 DEF NoFile, Settled
  <2> QED
    BY <1>1, <2>1 DEF JournalIsSound, Journals, Operations
<1>3. new \in Calls
  BY <1>2 DEF Calls
<1>4. disk = Transitioning(disk.current, disk.pending, disk.operation)
  BY DEF Transitioning, Journals
<1>5. \A d \in Callers : call[d].at = "idle" /\ identityHolder # d
  BY <1>1 DEF InstanceIsSound, NobodyConfigures, CallIsSound
<1>6. TypeOK'
  BY <1>1, <1>2, <1>3, MarkTypes
<1>7. \A d \in Callers : CallIsSound(d)'
  BY <1>1, <1>2, <1>4, <1>5 DEF CallIsSound
<1>8. InstanceIsSound'
  BY <1>1, <1>2, <1>5 DEF InstanceIsSound
<1> QED
  BY <1>1, <1>6, <1>7, <1>8 DEF JournalIsSound, RestartKeepsIdentity

-----------------------------------------------------------------------------
(* log_in and log_out, with the lock *)

\* A request is sent with the lock held: its transition is the marked one.
LEMMA RequestKeeps ==
  ASSUME JournalIInv, NEW c \in Callers, NEW operation \in Operations, NEW target \in Users,
         Granted(c, operation),
         operation = "LogIn" => target \in Names,
         operation = "LogOut" => target \in Anonymous,
         target # user,
         Request(c, target),
         marked' = [kind |-> operation, target |-> target],
         UNCHANGED <<configured, user>>
  PROVE  /\ call' \in [Callers -> Calls] /\ identityHolder' \in Callers
         /\ marked' \in Marks
         /\ \A d \in Callers : CallIsSound(d)'
         /\ InstanceIsSound'
<1> USE DEF JournalIInv, TypeOK
<1>1. /\ configured /\ user \in Users /\ identityHolder = Nobody
      /\ call[c].at = "waiting" /\ call[c].operation = operation
      /\ \A d \in Callers : call[d].at \in {"idle", "waiting"}
  <2>1. configured
    BY DEF InstanceIsSound, Granted
  <2>2. \A d \in Callers : call[d].at # "requesting" /\ call[d].at # "resuming"
    BY <2>1, CallersAssumption DEF Granted, CallIsSound, InstanceIsSound, NobodyConfigures
  <2> QED
    BY <2>1, <2>2 DEF Granted, InstanceIsSound, Calls
<1>2. /\ call' \in [Callers -> Calls]
      /\ \A d \in Callers \ {c} : call'[d] = call[d]
      /\ call'[c].at = "requesting" /\ call'[c].operation = operation
      /\ call'[c].target = target
      /\ identityHolder' = c
  BY <1>1 DEF Request, Calls
<1>3. marked' \in Marks /\ marked' # NoTransition
  BY MarkTypes
<1>4. \A d \in Callers : CallIsSound(d)'
  BY <1>1, <1>2 DEF CallIsSound
<1>5. InstanceIsSound'
  BY <1>1, <1>2, <1>3 DEF InstanceIsSound, NobodyConfigures
<1> QED
  BY <1>2, <1>3, <1>4, <1>5

\* A command returns: it does not hold the lock any more, the others stay.
LEMMA ReturnKeeps ==
  ASSUME JournalIInv, NEW c \in Callers, Return(c), call[c].at # "idle",
         identityHolder \in {c, Nobody}
  PROVE  /\ call' \in [Callers -> Calls] /\ identityHolder' = Nobody
         /\ call'[c] = IdleCall
         /\ \A d \in Callers \ {c} : call'[d] = call[d] /\ call[d].at # "requesting"
  BY IdleCallType, CallersAssumption DEF JournalIInv, TypeOK, Return, CallIsSound

\* A waiting command returns while the instance and its journal stay in step.
LEMMA ReturnWaitingKeeps ==
  ASSUME JournalIInv, NEW c \in Callers, Return(c), call[c].at = "waiting",
         identityHolder = Nobody,
         marked' \in Marks \union {NoTransition},
         marked' # NoTransition =>
           /\ marked'.target # user
           /\ marked'.kind = "LogOut" => marked'.target \in Anonymous,
         UNCHANGED <<configured, user>>
  PROVE  /\ call' \in [Callers -> Calls] /\ identityHolder' = Nobody
         /\ \A d \in Callers : CallIsSound(d)'
         /\ InstanceIsSound'
<1> USE DEF JournalIInv, TypeOK
<1>1. /\ configured /\ user \in Users
      /\ \A d \in Callers : call[d].at \in {"idle", "waiting"}
  <2>1. configured
    BY DEF InstanceIsSound
  <2>2. \A d \in Callers : call[d].at # "requesting" /\ call[d].at # "resuming"
    BY <2>1, CallersAssumption DEF CallIsSound, InstanceIsSound, NobodyConfigures
  <2> QED
    BY <2>1, <2>2 DEF InstanceIsSound, Calls
<1>2. /\ call' \in [Callers -> Calls] /\ identityHolder' = Nobody
      /\ call'[c] = IdleCall
      /\ \A d \in Callers \ {c} : call'[d] = call[d]
  BY ReturnKeeps
<1>3. \A d \in Callers : CallIsSound(d)'
  BY <1>1, <1>2, CallersAssumption DEF CallIsSound, IdleCall
<1>4. InstanceIsSound'
  BY <1>1, <1>2 DEF InstanceIsSound, NobodyConfigures, IdleCall
<1> QED
  BY <1>2, <1>3, <1>4

\* The journal of a transition that is prepared, or the one before.
LEMMA PreparedJournal ==
  ASSUME JournalIInv, NEW operation \in Operations, NEW target \in Users, configured,
         operation = "LogIn" => target \in Names,
         operation = "LogOut" => target \in Anonymous,
         target # user,
         TransitionAllowed(operation, target),
         marked' = [kind |-> operation, target |-> target],
         UNCHANGED <<configured, user, accepted>>,
         disk' \in {disk, Transitioning(user, target, operation)}
  PROVE  /\ disk' \in Journals
         /\ JournalIsSound'
         /\ RestartKeepsIdentity'
         /\ disk.pending # NoUser => disk' = disk
<1> USE DEF JournalIInv, TypeOK
<1>1. user \in Users
  BY DEF InstanceIsSound
<1>2. JournalIsSound' /\ disk' \in Journals
  BY <1>1, TransitioningIsSound, JournalTypes DEF JournalIsSound, Operations
<1>3. marked' # NoTransition
  BY MarkTypes
<1>4. \/ disk = Settled(user)
      \/ disk = Transitioning(user, target, operation)
      \/ /\ disk = Settled(target)
         /\ operation = "LogIn" => <<user, target>> \in accepted
  <2>1. CASE marked = NoTransition
    BY <2>1 DEF RestartKeepsIdentity
  <2>2. CASE marked # NoTransition
    <3>1. marked.kind = operation /\ marked.target = target
      BY <2>2 DEF TransitionAllowed
    <3> QED
      BY <2>2, <3>1 DEF RestartKeepsIdentity
  <2> QED
    BY <2>1, <2>2
<1>5. disk.pending # NoUser => disk = Transitioning(user, target, operation)
  BY <1>1, <1>4, SettledIsSound
<1> QED
  BY <1>2, <1>3, <1>4, <1>5 DEF RestartKeepsIdentity

LEMMA LogInPreparesKeeps ==
  ASSUME JournalIInv, NEW c \in Callers, LogInPrepares(c)
  PROVE  JournalIInv' /\ (disk.pending # NoUser => disk' = disk)
<1> DEFINE target == call[c].target
<1> USE DEF JournalIInv, TypeOK
<1>1. /\ Granted(c, "LogIn") /\ TransitionAllowed("LogIn", target) /\ target # user
      /\ marked' = [kind |-> "LogIn", target |-> target]
      /\ UNCHANGED <<configured, user, accepted, issued, used>>
      /\ disk' \in {disk, Transitioning(user, target, "LogIn")}
      /\ Request(c, target) \/ Return(c)
  BY DEF LogInPrepares, Persisted, PersistFails
<1>2. target \in Names /\ configured /\ call[c].at = "waiting" /\ identityHolder = Nobody
  BY <1>1 DEF Granted, CallIsSound, InstanceIsSound
<1>3. /\ disk' \in Journals /\ JournalIsSound' /\ RestartKeepsIdentity'
      /\ disk.pending # NoUser => disk' = disk
  BY <1>1, <1>2, PreparedJournal, Ids DEF Operations
<1>4. marked' \in Marks /\ marked'.target # user /\ marked'.kind = "LogIn"
  BY <1>1, <1>2, MarkTypes, Ids DEF Operations
<1>5. /\ call' \in [Callers -> Calls] /\ identityHolder' \in Callers \union {Nobody}
      /\ \A d \in Callers : CallIsSound(d)'
      /\ InstanceIsSound'
  <2>1. CASE Request(c, target)
    BY <1>1, <1>2, <2>1, RequestKeeps, Ids DEF Operations
  <2>2. CASE Return(c)
    BY <1>1, <1>2, <1>4, <2>2, ReturnWaitingKeeps
  <2> QED
    BY <1>1, <2>1, <2>2
<1> QED
  BY <1>1, <1>3, <1>4, <1>5

LEMMA LogInAgainKeeps ==
  ASSUME JournalIInv, NEW c \in Callers, LogInAgain(c)
  PROVE  JournalIInv' /\ (disk.pending # NoUser => disk' = disk)
<1> USE DEF JournalIInv, TypeOK
<1>1. /\ Granted(c, "LogIn") /\ TransitionAllowed("LogIn", user)
      /\ UNCHANGED <<configured, user, accepted, issued, used>>
      /\ disk' \in {disk, Settled(user)}
      /\ marked' \in {marked, NoTransition}
      /\ Return(c)
  BY DEF LogInAgain, Persisted, PersistFails
<1>2. /\ configured /\ call[c].at = "waiting" /\ identityHolder = Nobody
      /\ user \in Users
  BY <1>1 DEF Granted, InstanceIsSound
<1>3. marked = NoTransition
  BY <1>1 DEF TransitionAllowed, InstanceIsSound
<1>4. disk = Settled(user) /\ disk' = Settled(user)
  BY <1>1, <1>2, <1>3 DEF RestartKeepsIdentity
<1>5. RestartKeepsIdentity'
  BY <1>1, <1>3, <1>4 DEF RestartKeepsIdentity
<1>6. /\ call' \in [Callers -> Calls] /\ identityHolder' = Nobody
      /\ \A d \in Callers : CallIsSound(d)'
      /\ InstanceIsSound'
  BY <1>1, <1>2, <1>3, ReturnWaitingKeeps
<1> QED
  BY <1>1, <1>3, <1>4, <1>5, <1>6 DEF JournalIsSound

LEMMA LogOutPreparesKeeps ==
  ASSUME JournalIInv, NEW c \in Callers, LogOutPrepares(c)
  PROVE  JournalIInv' /\ (disk.pending # NoUser => disk' = disk)
<1> USE DEF JournalIInv, TypeOK
<1>1. PICK target \in LogOutTargets(c) :
        LET journal == Transitioning(user, target, "LogOut") IN
        /\ TransitionAllowed("LogOut", target)
        /\ marked' = [kind |-> "LogOut", target |-> target]
        /\ issued' = issued \union {target}
        /\ \/ call[c].resumes /\ UNCHANGED disk /\ Request(c, target)
           \/ ~call[c].resumes /\ Persisted(journal) /\ Request(c, target)
           \/ ~call[c].resumes /\ PersistFails(journal) /\ Return(c)
  BY DEF LogOutPrepares
<1>2. /\ Granted(c, "LogOut") /\ user \notin Anonymous
      /\ UNCHANGED <<configured, user, accepted, used>>
      /\ disk' \in {disk, Transitioning(user, target, "LogOut")}
      /\ Request(c, target) \/ Return(c)
  BY <1>1 DEF LogOutPrepares, Persisted, PersistFails
<1>3. configured /\ call[c].at = "waiting" /\ identityHolder = Nobody
      /\ call[c].operation = "LogOut"
  BY <1>2 DEF Granted, InstanceIsSound
<1>4. target \in Anonymous
  <2>1. CASE call[c].resumes
    BY <1>1, <1>3, <2>1 DEF LogOutTargets, CallIsSound
  <2>2. CASE ~call[c].resumes /\ marked # NoTransition /\ marked.kind = "LogOut"
    BY <1>1, <2>2 DEF LogOutTargets, InstanceIsSound
  <2>3. CASE ~call[c].resumes /\ ~(marked # NoTransition /\ marked.kind = "LogOut")
    BY <1>1, <2>3 DEF LogOutTargets
  <2> QED
    BY <2>1, <2>2, <2>3
<1>5. target # user /\ target \in Users /\ issued' \subseteq Anonymous
  BY <1>1, <1>2, <1>4, Ids
<1>6. /\ disk' \in Journals /\ JournalIsSound' /\ RestartKeepsIdentity'
      /\ disk.pending # NoUser => disk' = disk
  BY <1>1, <1>2, <1>3, <1>4, <1>5, PreparedJournal DEF Operations
<1>7. marked' \in Marks /\ marked'.target # user /\ marked'.target \in Anonymous
  BY <1>1, <1>4, <1>5, MarkTypes DEF Operations
<1>8. /\ call' \in [Callers -> Calls] /\ identityHolder' \in Callers \union {Nobody}
      /\ \A d \in Callers : CallIsSound(d)'
      /\ InstanceIsSound'
  <2>1. CASE Request(c, target)
    BY <1>1, <1>2, <1>4, <1>5, <2>1, RequestKeeps DEF Operations
  <2>2. CASE Return(c)
    BY <1>2, <1>3, <1>7, <2>2, ReturnWaitingKeeps
  <2> QED
    BY <1>2, <2>1, <2>2
<1> QED
  BY <1>2, <1>5, <1>6, <1>7, <1>8

LEMMA RefusedKeeps ==
  ASSUME JournalIInv, NEW c \in Callers, Refused(c)
  PROVE  JournalIInv'
<1> USE DEF JournalIInv, TypeOK
<1>1. /\ call[c].at = "waiting" /\ identityHolder = Nobody /\ Return(c)
      /\ UNCHANGED <<configured, user, marked, disk, accepted, issued, used>>
  BY DEF Refused
<1>2. /\ call' \in [Callers -> Calls] /\ identityHolder' = Nobody
      /\ \A d \in Callers : CallIsSound(d)'
      /\ InstanceIsSound'
  BY <1>1, ReturnWaitingKeeps DEF InstanceIsSound
<1> QED
  BY <1>1, <1>2 DEF JournalIsSound, RestartKeepsIdentity

-----------------------------------------------------------------------------
(* The backend answers *)

\* What is known when the request of c is under way: c holds the lock, its
\* transition is the marked one, and the journal knows of no other.
LEMMA UnderWay ==
  ASSUME JournalIInv, NEW c \in Callers, call[c].at = "requesting"
  PROVE  /\ configured /\ user \in Users /\ identityHolder = c
         /\ call[c].operation \in Operations
         /\ call[c].target \in Users /\ call[c].target # user
         /\ call[c].operation = "LogIn" => call[c].target \in Names
         /\ call[c].operation = "LogOut" => call[c].target \in Anonymous
         /\ marked = [kind |-> call[c].operation, target |-> call[c].target]
         /\ marked # NoTransition
         /\ \A d \in Callers \ {c} : call[d].at \in {"idle", "waiting"}
         /\ \/ disk = Settled(user)
            \/ disk = Transitioning(user, call[c].target, call[c].operation)
            \/ /\ disk = Settled(call[c].target)
               /\ call[c].operation = "LogIn" => <<user, call[c].target>> \in accepted
         /\ disk.pending # NoUser => disk.pending = call[c].target
<1> USE DEF JournalIInv, TypeOK
<1>1. /\ configured /\ user \in Users /\ identityHolder = c
      /\ call[c].operation \in Operations
      /\ call[c].operation = "LogIn" => call[c].target \in Names
      /\ call[c].operation = "LogOut" => call[c].target \in Anonymous
      /\ marked = [kind |-> call[c].operation, target |-> call[c].target]
  BY DEF InstanceIsSound, CallIsSound
<1>2. call[c].target \in Users
  BY <1>1, Ids DEF Operations
<1>3. marked # NoTransition
  BY <1>1, <1>2, MarkTypes
<1>4. call[c].target # user
  BY <1>1, <1>3 DEF InstanceIsSound
<1>5. \A d \in Callers \ {c} : call[d].at \in {"idle", "waiting"}
  BY <1>1 DEF InstanceIsSound, NobodyConfigures, CallIsSound, Calls
<1>6. \/ disk = Settled(user)
      \/ disk = Transitioning(user, call[c].target, call[c].operation)
      \/ /\ disk = Settled(call[c].target)
         /\ call[c].operation = "LogIn" => <<user, call[c].target>> \in accepted
  BY <1>1, <1>3 DEF RestartKeepsIdentity
<1>7. disk.pending # NoUser => disk.pending = call[c].target
  BY <1>1, <1>2, <1>6, SettledIsSound, TransitioningIsSound
<1> QED
  BY <1>1, <1>2, <1>3, <1>4, <1>5, <1>6, <1>7

\* c returns with its request answered; the instance stays.
LEMMA ReturnAnsweredKeeps ==
  ASSUME JournalIInv, NEW c \in Callers, Return(c), call[c].at = "requesting", configured',
         marked' \in {marked, NoTransition}, user' \in Users,
         marked' # NoTransition => UNCHANGED user
  PROVE  /\ call' \in [Callers -> Calls] /\ identityHolder' = Nobody
         /\ \A d \in Callers : CallIsSound(d)'
         /\ InstanceIsSound'
<1> USE DEF JournalIInv, TypeOK
<1>1. /\ identityHolder = c
      /\ \A d \in Callers \ {c} : call[d].at \in {"idle", "waiting"}
  BY UnderWay
<1>2. /\ call' \in [Callers -> Calls] /\ identityHolder' = Nobody
      /\ call'[c] = IdleCall
      /\ \A d \in Callers \ {c} : call'[d] = call[d]
  BY <1>1, ReturnKeeps
<1>3. \A d \in Callers : CallIsSound(d)'
  BY <1>1, <1>2, CallersAssumption DEF CallIsSound, IdleCall
<1>4. InstanceIsSound'
  BY <1>1, <1>2 DEF InstanceIsSound, NobodyConfigures, IdleCall
<1> QED
  BY <1>2, <1>3, <1>4

LEMMA AcceptKeeps ==
  ASSUME JournalIInv, NEW c \in Callers, user \in Users, call[c].target \in Users, Accept(c)
  PROVE  /\ accepted \subseteq accepted' /\ accepted' \subseteq Users \X Users
         /\ call[c].operation = "LogIn" => <<user, call[c].target>> \in accepted'
  BY DEF Accept, JournalIInv, TypeOK

LEMMA SwitchCommittedKeeps ==
  ASSUME JournalIInv, NEW c \in Callers, SwitchCommitted(c)
  PROVE  /\ JournalIInv'
         /\ disk.pending # NoUser => disk' = Settled(disk.pending)
         /\ disk' = Settled(user')
         /\ user' \in Names => <<user, user'>> \in accepted'
<1> DEFINE target == call[c].target
<1> USE DEF JournalIInv, TypeOK
<1>1. /\ call[c].at = "requesting" /\ Accept(c) /\ Return(c)
      /\ disk' = Settled(target)
      /\ user' = target /\ used' = used \union {target} /\ marked' = NoTransition
      /\ UNCHANGED <<configured, issued>>
  BY DEF SwitchCommitted, Persisted, SwitchTo
<1>2. /\ configured /\ user \in Users /\ target \in Users
      /\ call[c].operation \in Operations
      /\ call[c].operation = "LogOut" => target \in Anonymous
      /\ disk.pending # NoUser => disk.pending = target
  BY <1>1, UnderWay
<1>3. /\ call' \in [Callers -> Calls] /\ identityHolder' = Nobody
      /\ \A d \in Callers : CallIsSound(d)'
      /\ InstanceIsSound'
  BY <1>1, <1>2, ReturnAnsweredKeeps
<1>4. /\ accepted' \subseteq Users \X Users
      /\ call[c].operation = "LogIn" => <<user, target>> \in accepted'
  BY <1>1, <1>2, AcceptKeeps
<1>5. JournalIsSound' /\ disk' \in Journals
  BY <1>1, <1>2, SettledIsSound, JournalTypes DEF JournalIsSound
<1>6. RestartKeepsIdentity'
  BY <1>1 DEF RestartKeepsIdentity
<1>7. user' \in Names => call[c].operation = "LogIn"
  BY <1>1, <1>2, Ids DEF Operations
<1> QED
  BY <1>1, <1>2, <1>3, <1>4, <1>5, <1>6, <1>7

\* A commit or a request that fails leaves the mark, which says how to go on.
LEMMA FailureKeeps ==
  ASSUME JournalIInv, NEW c \in Callers, CommitFails(c) \/ RequestFails(c)
  PROVE  JournalIInv' /\ (disk.pending # NoUser => disk' \in {disk, Settled(disk.pending)})
<1> DEFINE target == call[c].target
<1> USE DEF JournalIInv, TypeOK
<1>1. /\ call[c].at = "requesting" /\ Return(c)
      /\ \/ Accept(c) /\ disk' \in {disk, Settled(target)}
         \/ UNCHANGED <<accepted, disk>>
      /\ UNCHANGED <<configured, user, marked, issued, used>>
  BY DEF CommitFails, RequestFails, PersistFails
<1>2. /\ configured /\ user \in Users /\ target \in Users /\ marked # NoTransition
      /\ marked = [kind |-> call[c].operation, target |-> target]
      /\ \/ disk = Settled(user)
         \/ disk = Transitioning(user, target, call[c].operation)
         \/ /\ disk = Settled(target)
            /\ call[c].operation = "LogIn" => <<user, target>> \in accepted
      /\ disk.pending # NoUser => disk.pending = target
  BY <1>1, UnderWay
<1>3. /\ call' \in [Callers -> Calls] /\ identityHolder' = Nobody
      /\ \A d \in Callers : CallIsSound(d)'
      /\ InstanceIsSound'
  BY <1>1, <1>2, ReturnAnsweredKeeps
<1>4. /\ accepted \subseteq accepted' /\ accepted' \subseteq Users \X Users
      /\ disk' # disk /\ call[c].operation = "LogIn" => <<user, target>> \in accepted'
  BY <1>1, <1>2, AcceptKeeps
<1>5. JournalIsSound' /\ disk' \in Journals
  BY <1>1, <1>2, SettledIsSound, JournalTypes DEF JournalIsSound
<1>6. RestartKeepsIdentity'
  BY <1>1, <1>2, <1>4 DEF RestartKeepsIdentity
<1> QED
  BY <1>1, <1>2, <1>3, <1>4, <1>5, <1>6

-----------------------------------------------------------------------------
(* configure ends a resumed transition; the process dies *)

LEMMA Resuming ==
  ASSUME JournalIInv, NEW c \in Callers, call[c].at = "resuming"
  PROVE  /\ ~configured /\ user \in Users /\ call[c].target \in Users
         /\ disk = Transitioning(user, call[c].target, call[c].operation)
         /\ disk.pending = call[c].target
         /\ \A d \in Callers : identityHolder # d
         /\ \A d \in Callers \ {c} : call[d].at = "idle"
<1> USE DEF JournalIInv, TypeOK
<1>1. /\ ~configured /\ user \in Users /\ call[c].operation \in Operations
      /\ disk = Transitioning(user, call[c].target, call[c].operation)
  BY DEF InstanceIsSound, NobodyConfigures, CallIsSound
<1>2. call[c].target \in Users
  BY <1>1, Ids DEF CallIsSound, Operations
<1>3. \A d \in Callers \ {c} : call[d].at = "idle"
  BY <1>1 DEF InstanceIsSound
<1>4. \A d \in Callers : identityHolder # d
  BY <1>3 DEF CallIsSound
<1> QED
  BY <1>1, <1>2, <1>3, <1>4, TransitioningIsSound

LEMMA ResumeEndsKeeps ==
  ASSUME JournalIInv, NEW c \in Callers, ResumeCommitted(c) \/ ResumeFails(c)
  PROVE  JournalIInv' /\ (disk.pending # NoUser => disk' \in {disk, Settled(disk.pending)})
<1> DEFINE target == call[c].target
<1> USE DEF JournalIInv, TypeOK
<1>1. /\ call[c].at = "resuming" /\ Return(c)
      /\ Accept(c) \/ UNCHANGED accepted
      /\ disk' \in {disk, Settled(target)}
      /\ \/ InstanceDropped
         \/ configured' = TRUE /\ SwitchTo(target) /\ disk' = Settled(target)
      /\ used' \in {used, used \union {target}}
      /\ UNCHANGED issued
  BY DEF ResumeCommitted, ResumeFails, Persisted, PersistFails, SwitchTo
<1>2. /\ ~configured /\ user \in Users /\ target \in Users
      /\ disk = Transitioning(user, target, call[c].operation)
      /\ disk.pending = target
      /\ \A d \in Callers : identityHolder # d
      /\ \A d \in Callers \ {c} : call[d].at = "idle"
  BY <1>1, Resuming
<1>3. /\ call' \in [Callers -> Calls] /\ identityHolder' = Nobody
      /\ \A d \in Callers : call'[d].at = "idle"
      /\ \A d \in Callers \ {c} : call'[d] = call[d]
      /\ call'[c] = IdleCall
  BY <1>1, <1>2, IdleCallType DEF Return, IdleCall
<1>4. \A d \in Callers : CallIsSound(d)'
  BY <1>3, CallersAssumption DEF CallIsSound, IdleCall
<1>5. accepted' \subseteq Users \X Users
  BY <1>1, <1>2, AcceptKeeps
<1>6. JournalIsSound' /\ disk' \in Journals
  BY <1>1, <1>2, SettledIsSound, JournalTypes DEF JournalIsSound
<1>7. /\ configured' \in BOOLEAN /\ user' \in Users \union {NoUser}
      /\ marked' = NoTransition /\ used' \subseteq Users
      /\ configured' => user' = target /\ disk' = Settled(target)
  BY <1>1, <1>2 DEF InstanceDropped, SwitchTo
<1>8. InstanceIsSound'
  BY <1>2, <1>3, <1>7 DEF InstanceIsSound, NobodyConfigures
<1>9. RestartKeepsIdentity'
  BY <1>7 DEF RestartKeepsIdentity
<1> QED
  BY <1>1, <1>2, <1>3, <1>4, <1>5, <1>6, <1>7, <1>8, <1>9

LEMMA CrashKeeps ==
  ASSUME JournalIInv, Crash
  PROVE  JournalIInv' /\ UNCHANGED disk
<1> USE DEF JournalIInv, TypeOK, Crash, InstanceDropped
<1>1. call' \in [Callers -> Calls] /\ \A c \in Callers : call'[c] = IdleCall
  BY IdleCallType
<1>2. \A c \in Callers : CallIsSound(c)'
  BY <1>1, CallersAssumption DEF CallIsSound, IdleCall
<1>3. InstanceIsSound'
  BY <1>1 DEF InstanceIsSound, IdleCall
<1> QED
  BY <1>1, <1>2, <1>3 DEF JournalIsSound, RestartKeepsIdentity

-----------------------------------------------------------------------------
(* Every step: the invariant, what becomes of a journaled transition, and     *)
(* what a switch of the user in memory takes.                                 *)

JournalSurvives == disk.pending # NoUser => disk' \in {disk, Settled(disk.pending)}

Switches == configured /\ configured' /\ user' # user

Durable == /\ disk' = Settled(user')
           /\ user' \in Names => <<user, user'>> \in accepted'

LEMMA StepKeeps ==
  ASSUME JournalIInv, NEW c \in Callers, Step(c)
  PROVE  JournalIInv' /\ JournalSurvives /\ (Switches => Durable)
<1>1. CASE LogInPrepares(c)
  BY <1>1, LogInPreparesKeeps DEF JournalSurvives, Switches, LogInPrepares
<1>2. CASE LogInAgain(c)
  BY <1>2, LogInAgainKeeps DEF JournalSurvives, Switches, LogInAgain
<1>3. CASE LogOutPrepares(c)
  BY <1>3, LogOutPreparesKeeps DEF JournalSurvives, Switches, LogOutPrepares
<1>4. CASE Refused(c)
  BY <1>4, RefusedKeeps DEF JournalSurvives, Switches, Refused
<1>5. CASE SwitchCommitted(c)
  BY <1>5, SwitchCommittedKeeps DEF JournalSurvives, Durable
<1>6. CASE CommitFails(c) \/ RequestFails(c)
  BY <1>6, FailureKeeps DEF JournalSurvives, Switches, CommitFails, RequestFails
<1>7. CASE ResumeCommitted(c) \/ ResumeFails(c)
  <2>1. ~configured
    BY <1>7, Resuming DEF ResumeCommitted, ResumeFails
  <2> QED
    BY <1>7, <2>1, ResumeEndsKeeps DEF JournalSurvives, Switches
<1> QED
  BY <1>1, <1>2, <1>3, <1>4, <1>5, <1>6, <1>7 DEF Step

LEMMA NextKeeps ==
  ASSUME JournalIInv, [Next]_vars
  PROVE  JournalIInv' /\ JournalSurvives /\ (Switches => Durable)
<1>1. CASE UNCHANGED vars
  BY <1>1 DEF vars, JournalIInv, TypeOK, JournalIsSound, CallIsSound, InstanceIsSound,
              NobodyConfigures, RestartKeepsIdentity, JournalSurvives, Switches
<1>2. CASE \E c \in Callers, explicit \in Names \union {NoUser} :
             ConfigureSettled(c, explicit) \/ ConfigureResumes(c, explicit)
  BY <1>2, ConfigureSettledKeeps, ConfigureResumesKeeps
  DEF ConfigureSettled, ConfigureResumes, JournalSurvives, Switches
<1>3. CASE \E c \in Callers, target \in Names : StartLogIn(c, target)
  BY <1>3, StartLogInKeeps DEF StartLogIn, JournalSurvives, Switches
<1>4. CASE \E c \in Callers : StartLogOut(c)
  BY <1>4, StartLogOutKeeps DEF StartLogOut, JournalSurvives, Switches
<1>5. CASE \E c \in Callers : Step(c)
  BY <1>5, StepKeeps
<1>6. CASE Crash
  BY <1>6, CrashKeeps DEF Crash, InstanceDropped, JournalSurvives, Switches
<1> QED
  BY <1>1, <1>2, <1>3, <1>4, <1>5, <1>6 DEF Next

-----------------------------------------------------------------------------
(* The theorems *)

\* The invariant holds in every reachable state.
THEOREM InvariantHolds == Spec => []JournalIInv
<1>1. JournalIInv /\ [Next]_vars => JournalIInv'
  BY NextKeeps
<1> QED
  BY <1>1, InitIInv, PTL DEF Spec

\* Whenever the process dies, the journal (identity_persistence.rs) tells the
\* next configure (commands.rs) the current user or the switch it was making.
THEOREM RestartSafe == Spec => []RestartKeepsIdentity
  BY InvariantHolds, PTL DEF JournalIInv

\* A journaled transition is only ever settled (commands.rs:log_in, log_out,
\* settle_initial_identity).
THEOREM JournalIsNeverDropped == Spec => JournaledTransitionSurvives
<1>1. JournalIInv /\ [Next]_vars => [JournalSurvives]_vars
  BY NextKeeps
<1>2. JournaledTransitionSurvives <=> [][JournalSurvives]_vars
  BY DEF JournaledTransitionSurvives, JournalSurvives
<1> QED
  BY <1>1, <1>2, InvariantHolds, PTL DEF Spec

\* No switch in memory precedes the journal or the backend
\* (identity_operations.rs: commit, then switch_user).
THEOREM SwitchesAreDurable == Spec => SwitchIsDurable
<1>1. JournalIInv /\ [Next]_vars => [Switches => Durable]_vars
  BY NextKeeps
<1>2. SwitchIsDurable <=> [][Switches => Durable]_vars
  BY DEF SwitchIsDurable, Switches, Durable
<1> QED
  BY <1>1, <1>2, InvariantHolds, PTL DEF Spec
=============================================================================

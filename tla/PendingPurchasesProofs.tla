----------------------- MODULE PendingPurchasesProofs -----------------------
(* Theorems about PendingPurchases, for any calls, products, tokens and     *)
(* bounds: the journal of the Android plugin is current, fits and is never  *)
(* overwritten when it cannot be read, and a callback is called once, by    *)
(* the inductive invariant StoreIInv.                                            *)
EXTENDS PendingPurchases, FiniteSetTheorems, TLAPS

-----------------------------------------------------------------------------
(* Maps by token *)

LEMMA PartialIs ==
  ASSUME NEW S, NEW T, NEW f
  PROVE  f \in Partial(S, T) <=> DOMAIN f \subseteq S /\ f \in [DOMAIN f -> T]
  BY DEF Partial

LEMMA CorrelationsAre ==
  ASSUME NEW f
  PROVE  f \in Correlations <=> DOMAIN f \subseteq Tokens /\ f \in [DOMAIN f -> Correlation]
  BY PartialIs DEF Correlations

LEMMA SnapshotsAre ==
  ASSUME NEW f
  PROVE  f \in Snapshotted <=> DOMAIN f \subseteq Tokens /\ f \in [DOMAIN f -> Observation]
  BY PartialIs DEF Snapshotted

LEMMA NothingIs == Nothing \in Correlations /\ Nothing \in Snapshotted /\ DOMAIN Nothing = {}
<1>1. DOMAIN Nothing = {} /\ Nothing \in [{} -> Correlation] /\ Nothing \in [{} -> Observation]
  BY DEF Nothing
<1> QED
  BY <1>1, CorrelationsAre, SnapshotsAre

\* What two maps say of a token, and the tokens whose correlation they make durable.
Value(deferred, completed, t) ==
  IF t \in DOMAIN completed THEN completed[t] ELSE deferred[t]
DurableTokens(deferred, completed) ==
  {t \in DOMAIN deferred \union DOMAIN completed : Value(deferred, completed, t).durable}

LEMMA DurableIs ==
  ASSUME NEW d, NEW c
  PROVE  /\ Durable(d, c) = [t \in DurableTokens(d, c) |-> Value(d, c, t)]
         /\ DOMAIN Durable(d, c) = DurableTokens(d, c)
<1> DEFINE all == [t \in DOMAIN d \union DOMAIN c |-> Value(d, c, t)]
<1>1. Durable(d, c) = Restrict(all, {t \in DOMAIN all : all[t].durable})
  BY DEF Durable, Value
<1>2. {t \in DOMAIN all : all[t].durable} = DurableTokens(d, c)
  BY DEF DurableTokens
<1>3. Durable(d, c) = [t \in DurableTokens(d, c) |-> all[t]]
  BY <1>1, <1>2 DEF Restrict
<1>4. \A t \in DurableTokens(d, c) : all[t] = Value(d, c, t)
  BY DEF DurableTokens
<1> HIDE DEF all
<1> QED
  BY <1>3, <1>4

LEMMA ValueType ==
  ASSUME NEW d \in Correlations, NEW c \in Correlations, NEW t \in DOMAIN d \union DOMAIN c
  PROVE  Value(d, c, t) \in Correlation
  BY CorrelationsAre DEF Value

LEMMA DurableType ==
  ASSUME NEW d \in Correlations, NEW c \in Correlations
  PROVE  /\ Durable(d, c) \in Correlations
         /\ \A t \in DOMAIN Durable(d, c) : Durable(d, c)[t].durable
<1>1. DurableTokens(d, c) \subseteq Tokens
  BY CorrelationsAre DEF DurableTokens
<1>2. \A t \in DurableTokens(d, c) : Value(d, c, t) \in Correlation /\ Value(d, c, t).durable
  BY ValueType DEF DurableTokens
<1>3. Durable(d, c) \in [DurableTokens(d, c) -> Correlation]
  BY <1>2, DurableIs
<1> QED
  BY <1>1, <1>2, <1>3, DurableIs, CorrelationsAre

\* Maps that agree on what is durable have one journal.
LEMMA SameDurable ==
  ASSUME NEW d, NEW c, NEW e, NEW f,
         DurableTokens(d, c) = DurableTokens(e, f),
         \A t \in DurableTokens(d, c) : Value(d, c, t) = Value(e, f, t)
  PROVE  Durable(d, c) = Durable(e, f)
  BY DurableIs

-----------------------------------------------------------------------------
(* Room for tokens *)

LEMMA TokensCount ==
  /\ \A S \in SUBSET Tokens : IsFiniteSet(S) /\ Cardinality(S) \in Nat
  /\ \A S \in SUBSET Tokens : \A T \in SUBSET S : Cardinality(T) <= Cardinality(S)
  /\ \A S \in SUBSET Tokens, t \in Tokens :
       Cardinality(S \union {t}) <= Cardinality(S) + 1
<1>1. ASSUME NEW S \in SUBSET Tokens PROVE IsFiniteSet(S) /\ Cardinality(S) \in Nat
  BY TokensAssumption, FS_Subset, FS_CardinalityType
<1>2. ASSUME NEW S \in SUBSET Tokens, NEW T \in SUBSET S PROVE Cardinality(T) <= Cardinality(S)
  BY <1>1, FS_Subset
<1>3. ASSUME NEW S \in SUBSET Tokens, NEW t \in Tokens
      PROVE  Cardinality(S \union {t}) <= Cardinality(S) + 1
  BY <1>1, FS_AddElement
<1> QED
  BY <1>1, <1>2, <1>3

LEMMA CapacityIsNatural == MaxCorrelated \in Nat
  BY CapacityAssumption

\* The domain of the maps.
LEMMA CorrelatedIs ==
  ASSUME TypeOK
  PROVE  Correlated \subseteq Tokens /\ Cardinality(Correlated) \in Nat
<1>1. Correlated \subseteq Tokens
  BY CorrelationsAre DEF TypeOK, Correlated
<1> QED
  BY <1>1, TokensCount

LEMMA ExistingIs ==
  ASSUME SlotIsReserved, NEW t \in Correlated
  PROVE  Existing(t) = Value(deferredPurchases, completedCorrelations, t)
  BY DEF SlotIsReserved, Existing, Value, Correlated

LEMMA DurableIsExisting ==
  ASSUME SlotIsReserved
  PROVE  DurableTokens(deferredPurchases, completedCorrelations)
           = {t \in Correlated : Existing(t).durable}
  BY ExistingIs DEF DurableTokens, Correlated

-----------------------------------------------------------------------------
(* What a step may leave in the store *)

\* The part of the invariant that is about the two maps and the journal.
StoreIsSound ==
  /\ deferredPurchases \in Correlations /\ completedCorrelations \in Correlations
  /\ metadataPersistenceFailed \in BOOLEAN
  /\ disk \in Correlations /\ corrupt \in BOOLEAN /\ faults \in 0..MaxFaults
  /\ SlotIsReserved /\ JournalIsCurrent /\ JournalFits /\ ClosedIfUnreadable

\* A step may put d and c in the place of the two maps.
MayBecome(d, c) ==
  /\ d \in Correlations /\ c \in Correlations
  /\ DOMAIN d \intersect DOMAIN c = {}
  /\ Cardinality(DOMAIN d \union DOMAIN c) + (IF purchases' = NONE THEN 0 ELSE 1)
       <= MaxCorrelated
  /\ corrupt => purchases' = NONE /\ DurableTokens(d, c) = {}

Before == DurableTokens(deferredPurchases, completedCorrelations)

LEMMA UnreadableHasNoneDurable ==
  ASSUME StoreIsSound
  PROVE  corrupt => Before = {} /\ metadataPersistenceFailed
  BY DurableIsExisting DEF StoreIsSound, ClosedIfUnreadable, JournalIsCurrent, Before

\* The maps as they are when the journal is right about them.
LEMMA MapsFollow ==
  ASSUME NEW d, NEW c, MayBecome(d, c), corrupt' => corrupt,
         deferredPurchases' = d, completedCorrelations' = c
  PROVE  SlotIsReserved' /\ ClosedIfUnreadable'
<1>1. DOMAIN deferredPurchases' \intersect DOMAIN completedCorrelations' = {}
  BY DEF MayBecome
<1>2. Correlated' = DOMAIN d \union DOMAIN c
  BY DEF Correlated
<1>3. SlotIsReserved'
  BY <1>1, <1>2 DEF MayBecome, SlotIsReserved
<1>4. ASSUME corrupt', NEW t \in Correlated' PROVE ~Existing(t)'.durable
  <2>1. DurableTokens(d, c) = {}
    BY <1>4 DEF MayBecome
  <2>2. Existing(t)' = Value(d, c, t)
    BY <1>1, <1>2 DEF Existing, Value
  <2> QED
    BY <1>2, <2>1, <2>2 DEF DurableTokens
<1>5. corrupt' => purchases' = NONE
  BY DEF MayBecome
<1>6. ClosedIfUnreadable'
  BY <1>4, <1>5 DEF ClosedIfUnreadable, Existing
<1> QED
  BY <1>3, <1>6

\* Maps that fit are written to a journal that fits.
LEMMA WrittenFits ==
  ASSUME NEW d, NEW c, MayBecome(d, c)
  PROVE  /\ Durable(d, c) \in Correlations
         /\ Cardinality(DOMAIN Durable(d, c)) <= MaxCorrelated
         /\ \A t \in DOMAIN Durable(d, c) : Durable(d, c)[t].durable
<1>1. DOMAIN d \union DOMAIN c \in SUBSET Tokens
  BY CorrelationsAre DEF MayBecome
<1>2. DOMAIN Durable(d, c) \in SUBSET (DOMAIN d \union DOMAIN c)
  <2>1. DOMAIN Durable(d, c) = DurableTokens(d, c)
    BY DurableIs
  <2> QED
    BY <2>1 DEF DurableTokens
<1>3. /\ Cardinality(DOMAIN Durable(d, c)) <= Cardinality(DOMAIN d \union DOMAIN c)
      /\ Cardinality(DOMAIN Durable(d, c)) \in Nat
      /\ Cardinality(DOMAIN d \union DOMAIN c) \in Nat
  BY <1>1, <1>2, TokensCount
<1>4. Cardinality(DOMAIN d \union DOMAIN c) <= MaxCorrelated
  BY <1>3, CapacityIsNatural DEF MayBecome
<1> QED
  BY <1>3, <1>4, CapacityIsNatural, DurableType DEF MayBecome

\* The journal is left alone when what is durable stays as it is.
LEMMA UnwrittenKeeps ==
  ASSUME StoreIsSound, NEW d, NEW c, MayBecome(d, c),
         Durable(d, c) = Durable(deferredPurchases, completedCorrelations),
         UNCHANGED journal,
         deferredPurchases' = d, completedCorrelations' = c
  PROVE  StoreIsSound' /\ corrupt' = corrupt
<1>1. UNCHANGED <<metadataPersistenceFailed, disk, corrupt, faults>>
  BY DEF journal
<1>2. SlotIsReserved' /\ ClosedIfUnreadable'
  BY <1>1, MapsFollow
<1>3. JournalIsCurrent'
  BY <1>1 DEF StoreIsSound, JournalIsCurrent
<1>4. JournalFits'
  BY <1>1 DEF StoreIsSound, JournalFits
<1> QED
  BY <1>1, <1>2, <1>3, <1>4 DEF StoreIsSound, MayBecome

\* Persisting keeps the journal right: nothing durable was lost, so that a failure can
\* be made good; and over an unreadable journal there is nothing to write.
LEMMA PersistKeeps ==
  ASSUME StoreIsSound, NEW d, NEW c, NEW ok \in BOOLEAN, MayBecome(d, c),
         Before \subseteq DurableTokens(d, c),
         Persist(d, c, FALSE, ok),
         deferredPurchases' = d, completedCorrelations' = c
  PROVE  StoreIsSound' /\ corrupt' = corrupt
<1> DEFINE metadata == Durable(d, c)
<1>1. /\ DOMAIN metadata = DurableTokens(d, c)
      /\ DOMAIN Durable(deferredPurchases, completedCorrelations) = Before
  BY DurableIs DEF Before
<1>2. CASE DOMAIN metadata = {}
  <2>1. UNCHANGED journal
    BY <1>2 DEF Persist, NothingToWrite
  <2>2. Before = {} /\ DurableTokens(d, c) = {}
    BY <1>1, <1>2
  <2>3. metadata = Durable(deferredPurchases, completedCorrelations)
    BY <2>2, SameDurable DEF Before
  <2> QED
    BY <2>1, <2>3, UnwrittenKeeps
<1>3. CASE DOMAIN metadata # {}
  <2>1. ~corrupt
    BY <1>1, <1>3 DEF MayBecome
  <2>2. /\ metadataPersistenceFailed' = ~ok
        /\ \/ ok /\ disk' = metadata /\ corrupt' = FALSE /\ UNCHANGED faults
           \/ ~ok /\ faults < MaxFaults /\ faults' = faults + 1 /\ UNCHANGED <<disk, corrupt>>
    BY <1>3 DEF Persist, NothingToWrite, FailedAfter
  <2>3. corrupt' = corrupt /\ corrupt' = FALSE
    BY <2>1, <2>2 DEF StoreIsSound
  <2>4. SlotIsReserved' /\ ClosedIfUnreadable'
    BY <2>3, MapsFollow
  <2>5. faults' \in 0..MaxFaults
    BY <2>2, BoundsAssumption DEF StoreIsSound
  <2>6. JournalIsCurrent'
    BY <1>3, <2>2, <2>3 DEF JournalIsCurrent
  <2>7. disk' \in Correlations /\ JournalFits'
    BY <2>2, WrittenFits DEF StoreIsSound, JournalFits
  <2> QED
    BY <2>2, <2>3, <2>4, <2>5, <2>6, <2>7 DEF StoreIsSound, MayBecome
<1> QED
  BY <1>2, <1>3

\* One token's correlation changes: its journal is written if it is durable.
LEMMA PersistForKeeps ==
  ASSUME StoreIsSound, NEW d, NEW c, NEW t \in DOMAIN d \union DOMAIN c,
         NEW ok \in BOOLEAN, MayBecome(d, c),
         DOMAIN d \union DOMAIN c = Correlated \union {t},
         \A s \in Correlated \ {t} : Value(d, c, s) = Existing(s),
         t \in Correlated /\ Existing(t).durable => Value(d, c, t).durable,
         deferredPurchases' = d, completedCorrelations' = c,
         PersistFor(Value(d, c, t), ok)
  PROVE  StoreIsSound' /\ corrupt' = corrupt
<1>1. Before = {s \in Correlated : Existing(s).durable}
  BY DurableIsExisting DEF StoreIsSound, Before
<1>2. Before \subseteq DurableTokens(d, c)
  BY <1>1 DEF DurableTokens
<1>3. CASE Value(d, c, t).durable
  <2>1. Persist(d, c, FALSE, ok)
    BY <1>3 DEF PersistFor
  <2> QED
    BY <1>2, <2>1, PersistKeeps
<1>4. CASE ~Value(d, c, t).durable
  <2>1. UNCHANGED journal
    BY <1>4 DEF PersistFor
  <2>2. DurableTokens(d, c) = Before
    BY <1>1, <1>4 DEF DurableTokens
  <2>3. \A s \in Before : Value(d, c, s) = Value(deferredPurchases, completedCorrelations, s)
    BY <1>1, <1>4, ExistingIs DEF StoreIsSound
  <2>4. Durable(d, c) = Durable(deferredPurchases, completedCorrelations)
    BY <2>2, <2>3, SameDurable DEF Before
  <2> QED
    BY <2>1, <2>4, UnwrittenKeeps
<1> QED
  BY <1>3, <1>4

\* A step that does not touch the maps nor the journal.
LEMMA UntouchedKeeps ==
  ASSUME StoreIsSound, TypeOK, UNCHANGED <<deferredPurchases, completedCorrelations, journal>>,
         \/ purchases' # NONE => purchases # NONE
         \/ ~metadataPersistenceFailed /\ Cardinality(Correlated) < MaxCorrelated
  PROVE  StoreIsSound' /\ corrupt' = corrupt
<1> DEFINE d == deferredPurchases
           c == completedCorrelations
<1>1. Cardinality(Correlated) \in Nat
  BY CorrelatedIs
<1>2. corrupt => purchases = NONE /\ metadataPersistenceFailed /\ DurableTokens(d, c) = {}
  BY UnreadableHasNoneDurable DEF StoreIsSound, ClosedIfUnreadable, Before
<1>3. Cardinality(DOMAIN d \union DOMAIN c) + (IF purchases' = NONE THEN 0 ELSE 1)
        <= MaxCorrelated
  BY <1>1, CapacityIsNatural DEF StoreIsSound, SlotIsReserved, Correlated
<1>4. MayBecome(d, c)
  BY <1>2, <1>3 DEF MayBecome, StoreIsSound, SlotIsReserved
<1> QED
  BY <1>4, UnwrittenKeeps

-----------------------------------------------------------------------------
(* What a step may leave of the commands *)

CommandsAreSound ==
  /\ purchases \in Registration \union {NONE} /\ call \in [Calls -> Command]
  /\ CallbacksAreDue /\ CommandsNameProducts

AnswersStay == \A c \in Calls : call[c].answer # NONE => call'[c].answer = call[c].answer

PlayIsSound ==
  /\ owned \in Snapshotted \union {NONE}
  /\ finishing \subseteq Tokens
  /\ play \in [Tokens -> Payment]
  /\ updates \subseteq Update
  /\ handed \subseteq Tokens
  /\ history \in [crashes : 0..MaxCrashes, gifts : 0..MaxGifts, cleared : SUBSET Tokens,
                  older : [Calls -> SUBSET Tokens]]
  /\ ProductsAreNamed

LEMMA PartsOfIInv == StoreIInv <=> StoreIsSound /\ CommandsAreSound /\ PlayIsSound
  BY DEF StoreIInv, TypeOK, StoreIsSound, CommandsAreSound, PlayIsSound

LEMMA PartsOfIInvNext == StoreIInv' <=> StoreIsSound' /\ CommandsAreSound' /\ PlayIsSound'
  BY DEF StoreIInv, TypeOK, StoreIsSound, CommandsAreSound, PlayIsSound

LEMMA CommandsStay ==
  ASSUME CommandsAreSound, UNCHANGED <<purchases, call>>
  PROVE  CommandsAreSound' /\ AnswersStay
  BY DEF CommandsAreSound, CallbacksAreDue, CommandsNameProducts, AnswersStay

\* One command goes on; so may the registered callback, if it stays that of its call.
LEMMA CallbackMoves ==
  ASSUME CommandsAreSound, NEW c \in Calls, NEW new \in Command,
         call' = [call EXCEPT ![c] = new],
         purchases' \in Registration \union {NONE},
         purchases' # NONE => purchases # NONE /\ purchases'.call = purchases.call,
         call[c].answer # NONE => new.answer = call[c].answer,
         new.at \in BeforeRegister => new.answer = NONE,
         new.at # "idle" => new.product \in Products,
         purchases' # NONE /\ purchases'.call = c =>
           new.answer = NONE /\ new.at \notin BeforeRegister
  PROVE  CommandsAreSound' /\ AnswersStay
<1>1. call' \in [Calls -> Command] /\ call'[c] = new
      /\ \A d \in Calls \ {c} : call'[d] = call[d]
  BY DEF CommandsAreSound
<1>2. CallbacksAreDue'
  <2>1. ASSUME purchases' # NONE
        PROVE  call'[purchases'.call].answer = NONE
               /\ call'[purchases'.call].at \notin BeforeRegister
    BY <1>1, <2>1 DEF CommandsAreSound, CallbacksAreDue, Registration
  <2>2. \A d \in Calls : call'[d].at \in BeforeRegister => call'[d].answer = NONE
    BY <1>1 DEF CommandsAreSound, CallbacksAreDue
  <2> QED
    BY <2>1, <2>2 DEF CallbacksAreDue, BeforeRegister
<1>3. CommandsNameProducts'
  BY <1>1 DEF CommandsAreSound, CommandsNameProducts
<1> QED
  BY <1>1, <1>2, <1>3 DEF CommandsAreSound, AnswersStay

LEMMA CommandMoves ==
  ASSUME CommandsAreSound, NEW c \in Calls, NEW new \in Command,
         call' = [call EXCEPT ![c] = new], UNCHANGED purchases,
         call[c].answer # NONE => new.answer = call[c].answer,
         new.at \in BeforeRegister => new.answer = NONE,
         new.at # "idle" => new.product \in Products,
         purchases # NONE /\ purchases.call = c =>
           new.answer = NONE /\ new.at \notin BeforeRegister
  PROVE  CommandsAreSound' /\ AnswersStay
<1>1. purchases' \in Registration \union {NONE}
  BY DEF CommandsAreSound
<1> QED
  BY <1>1, CallbackMoves

LEMMA AnsweredIs ==
  ASSUME NEW calls \in [Calls -> Command], NEW c \in Calls,
         NEW answer \in Tokens \union {"rejected", "lost"}
  PROVE  /\ Answered(calls, c, answer) \in [Calls -> Command]
         /\ Answered(calls, c, answer)[c].answer = answer
         /\ Answered(calls, c, answer)[c].product = calls[c].product
         /\ Answered(calls, c, answer)[c].at \in Unsettled \union {"done"}
         /\ \A d \in Calls \ {c} : Answered(calls, c, answer)[d] = calls[d]
<1> DEFINE at == IF calls[c].at \in Unsettled THEN calls[c].at ELSE "done"
           new == [calls[c] EXCEPT !.answer = answer, !.snapshot = Nothing, !.at = at]
<1>1. calls[c] \in Command
  OBVIOUS
<1>2. at \in Unsettled \union {"done"} /\ at \in Stages
  BY <1>1 DEF Command, Unsettled, Stages
<1> HIDE DEF at
<1>3. new \in Command /\ new.answer = answer /\ new.at = at /\ new.product = calls[c].product
  BY <1>1, <1>2, NothingIs DEF Command
<1>4. Answered(calls, c, answer) = [calls EXCEPT ![c] = new]
  BY DEF Answered, at
<1> HIDE DEF new
<1> QED
  BY <1>2, <1>3, <1>4

LEMMA SettledIsLate == \A at \in Unsettled \union {"done"} : at \notin BeforeRegister
  BY DEF Unsettled, BeforeRegister

\* A command that has not registered its callback is rejected.
LEMMA RejectEarly ==
  ASSUME CommandsAreSound, NEW c \in Calls, call[c].at \in BeforeRegister \ {"idle"},
         Reject(c), UNCHANGED purchases
  PROVE  CommandsAreSound' /\ AnswersStay
<1>1. /\ call' \in [Calls -> Command] /\ call'[c].at \notin BeforeRegister
      /\ call'[c].product = call[c].product
      /\ \A d \in Calls \ {c} : call'[d] = call[d]
  BY AnsweredIs, SettledIsLate DEF Reject, CommandsAreSound
<1>2. call[c].answer = NONE /\ (purchases # NONE => purchases.call # c)
  BY DEF CommandsAreSound, CallbacksAreDue
<1>3. CallbacksAreDue'
  BY <1>1, <1>2 DEF CommandsAreSound, CallbacksAreDue, Registration
<1>4. CommandsNameProducts'
  BY <1>1 DEF CommandsAreSound, CommandsNameProducts
<1> QED
  BY <1>1, <1>2, <1>3, <1>4 DEF CommandsAreSound, AnswersStay

\* The registered callback is called.
LEMMA CallbackIsCalled ==
  ASSUME CommandsAreSound, purchases # NONE, purchases' = NONE,
         NEW calls \in [Calls -> Command], NEW answer \in Tokens \union {"rejected", "lost"},
         \A d \in Calls : calls[d].answer = call[d].answer /\ calls[d].product = call[d].product,
         \A d \in Calls : calls[d].at # "idle" => call[d].at # "idle",
         \A d \in Calls : calls[d].at \in BeforeRegister => call[d].at \in BeforeRegister,
         call' = Answered(calls, purchases.call, answer)
  PROVE  CommandsAreSound' /\ AnswersStay
<1> DEFINE c == purchases.call
<1>1. c \in Calls /\ call[c].answer = NONE /\ call[c].at # "idle"
  BY DEF CommandsAreSound, CallbacksAreDue, Registration, BeforeRegister
<1>2. /\ call' \in [Calls -> Command] /\ call'[c].at \notin BeforeRegister
      /\ call'[c].product = calls[c].product
      /\ \A d \in Calls \ {c} : call'[d] = calls[d]
  BY <1>1, AnsweredIs, SettledIsLate
<1>3. CallbacksAreDue'
  BY <1>2 DEF CommandsAreSound, CallbacksAreDue
<1>4. CommandsNameProducts'
  BY <1>1, <1>2 DEF CommandsAreSound, CommandsNameProducts
<1> QED
  BY <1>1, <1>2, <1>3, <1>4 DEF CommandsAreSound, AnswersStay

LEMMA ReleaseKeeps ==
  ASSUME CommandsAreSound, NEW products, Release(products)
  PROVE  CommandsAreSound' /\ AnswersStay /\ purchases' \in {purchases, NONE}
<1>1. CASE Active(products)
  <2>1. purchases # NONE /\ purchases' = NONE /\ call' = Answered(call, purchases.call, "rejected")
    BY <1>1 DEF Release, Active, Reject
  <2> QED
    BY <2>1, CallbackIsCalled DEF CommandsAreSound
<1>2. CASE ~Active(products)
  BY <1>2, CommandsStay DEF Release
<1> QED
  BY <1>1, <1>2

-----------------------------------------------------------------------------
(* The purchase command *)

\* What every step leaves behind.
Kept == StoreIInv' /\ AnswersStay /\ (corrupt => corrupt')

LEMMA AllKept ==
  ASSUME StoreIsSound', corrupt => corrupt', CommandsAreSound', AnswersStay, PlayIsSound'
  PROVE  Kept
  BY PartsOfIInvNext DEF Kept

LEMMA PlayStays ==
  ASSUME PlayIsSound, UNCHANGED <<owned, finishing, play, updates, handed, history>>
  PROVE  PlayIsSound'
  BY DEF PlayIsSound, ProductsAreNamed

LEMMA SnapshotType == PlayIsSound => Snapshot \in Snapshotted
<1> SUFFICES ASSUME PlayIsSound PROVE Snapshot \in Snapshotted
  OBVIOUS
<1> DEFINE S == {s \in Tokens : play[s].state \in OwnedStates}
           O(t) == [products |-> play[t].products,
                    state |-> IF play[t].state = "pending" THEN "pending" ELSE "purchased"]
<1>1. ASSUME NEW t \in S PROVE O(t) \in Observation
  <2>1. play[t] \in Payment /\ play[t].state # "none"
    BY DEF PlayIsSound, OwnedStates
  <2>2. play[t].products \in (SUBSET Products) \ {{}}
    BY <2>1 DEF PlayIsSound, ProductsAreNamed, Payment
  <2> QED
    BY <2>2 DEF Observation
<1>2. Snapshot = [t \in S |-> O(t)]
  BY DEF Snapshot
<1>3. Snapshot \in [S -> Observation] /\ DOMAIN Snapshot = S
  <2> HIDE DEF O
  <2> QED
    BY <1>1, <1>2
<1> QED
  BY <1>3, SnapshotsAre

LEMMA PurchaseKeeps ==
  ASSUME StoreIInv, NEW c \in Calls, Purchase(c)
  PROVE  Kept
<1>1. PICK p \in Products, context \in {c, NONE} :
        call' = [call EXCEPT ![c].at = "querying", ![c].product = p, ![c].context = context]
  BY DEF Purchase
<1> DEFINE new == [call[c] EXCEPT !.at = "querying", !.product = p, !.context = context]
<1>2. /\ StoreIsSound /\ TypeOK /\ CommandsAreSound /\ PlayIsSound
      /\ call[c] \in Command /\ call[c].at = "idle"
      /\ UNCHANGED <<store, journal, owned, finishing, play, updates, handed, history>>
  BY PartsOfIInv DEF StoreIInv, TypeOK, Purchase
<1>3. new \in Command /\ new.answer = call[c].answer /\ new.at = "querying" /\ new.product \in Products
  BY <1>2 DEF Command, Stages
<1>4. call' = [call EXCEPT ![c] = new]
  BY <1>1, <1>2
<1>5. call[c].answer = NONE /\ (purchases # NONE => purchases.call # c)
  BY <1>2 DEF CommandsAreSound, CallbacksAreDue, BeforeRegister
<1>6. UNCHANGED <<purchases, deferredPurchases, completedCorrelations, journal>>
  BY <1>2 DEF store
<1> HIDE DEF new
<1>7. CommandsAreSound' /\ AnswersStay
  BY <1>2, <1>3, <1>4, <1>5, <1>6, CommandMoves
<1>8. StoreIsSound' /\ corrupt' = corrupt
  BY <1>2, <1>6, UntouchedKeeps
<1> QED
  BY <1>2, <1>7, <1>8, PlayStays, AllKept

LEMMA SnapshotsKeeps ==
  ASSUME StoreIInv, NEW c \in Calls, Snapshots(c)
  PROVE  Kept
<1> DEFINE new == [call[c] EXCEPT !.at = "answered", !.snapshot = Snapshot]
<1>1. /\ StoreIsSound /\ TypeOK /\ CommandsAreSound /\ PlayIsSound
      /\ call[c] \in Command /\ call[c].at = "querying"
      /\ UNCHANGED <<store, journal, owned, finishing, play, updates, handed, history>>
  BY PartsOfIInv DEF StoreIInv, TypeOK, Snapshots
<1>2. UNCHANGED <<purchases, deferredPurchases, completedCorrelations, journal>>
  BY <1>1 DEF store
<1>3. call[c].at \in BeforeRegister \ {"idle"} /\ call[c].answer = NONE
      /\ (purchases # NONE => purchases.call # c)
  BY <1>1 DEF CommandsAreSound, CallbacksAreDue, BeforeRegister
<1>4. CASE Reject(c)
  BY <1>1, <1>2, <1>3, <1>4, RejectEarly, UntouchedKeeps, PlayStays, AllKept
<1>5. CASE call' = [call EXCEPT ![c].at = "answered", ![c].snapshot = Snapshot]
  <2>1. new \in Command /\ new.answer = call[c].answer /\ new.at = "answered"
        /\ new.product = call[c].product /\ call[c].product \in Products
    BY <1>1, SnapshotType DEF Command, Stages, CommandsAreSound, CommandsNameProducts
  <2>2. call' = [call EXCEPT ![c] = new]
    BY <1>5
  <2> HIDE DEF new
  <2>3. CommandsAreSound' /\ AnswersStay
    BY <1>1, <1>2, <1>3, <2>1, <2>2, CommandMoves
  <2> QED
    BY <1>1, <1>2, <2>3, UntouchedKeeps, PlayStays, AllKept
<1> QED
  BY <1>4, <1>5 DEF Snapshots

LEMMA RegisterKeeps ==
  ASSUME StoreIInv, NEW c \in Calls, Register(c)
  PROVE  Kept
<1> DEFINE new == [call[c] EXCEPT !.at = "registered"]
<1>1. /\ StoreIsSound /\ TypeOK /\ CommandsAreSound /\ PlayIsSound
      /\ call \in [Calls -> Command] /\ call[c] \in Command /\ call[c].at = "prepared"
      /\ UNCHANGED <<deferredPurchases, completedCorrelations, journal, owned, finishing,
                     play, updates, handed>>
  BY PartsOfIInv DEF StoreIInv, TypeOK, Register
<1>2. call[c].at \in BeforeRegister \ {"idle"} /\ call[c].answer = NONE
  BY <1>1 DEF CommandsAreSound, CallbacksAreDue, BeforeRegister
<1>3. CASE MayRegister(call[c].product)
  <2>1. /\ purchases' = [call |-> c, product |-> call[c].product, context |-> NONE]
        /\ call' = [call EXCEPT ![c] = new]
        /\ history' = [history EXCEPT !.older[c] = {t \in Tokens : play[t].state # "none"}]
    BY <1>3 DEF Register
  <2>2. new \in Command /\ new.answer = NONE /\ new.at = "registered"
        /\ new.product = call[c].product /\ new.product \in Products
    BY <1>1, <1>2 DEF Command, Stages, CommandsAreSound, CommandsNameProducts
  <2> HIDE DEF new
  <2>3. /\ call' \in [Calls -> Command] /\ call'[c] = new
        /\ \A d \in Calls \ {c} : call'[d] = call[d]
    BY <1>1, <2>1, <2>2
  <2>4. /\ call'[c].answer = NONE /\ call'[c].at \notin BeforeRegister
    BY <2>2, <2>3 DEF BeforeRegister
  <2>5. purchases'.call = c
    BY <2>1
  <2>6. CallbacksAreDue'
    <3>1. purchases' # NONE => /\ call'[purchases'.call].answer = NONE
                               /\ call'[purchases'.call].at \notin BeforeRegister
      BY <2>4, <2>5
    <3>2. \A d \in Calls : call'[d].at \in BeforeRegister => call'[d].answer = NONE
      BY <1>1, <2>3, <2>4 DEF CommandsAreSound, CallbacksAreDue
    <3> QED
      BY <3>1, <3>2 DEF CallbacksAreDue, BeforeRegister
  <2>7. purchases' \in Registration \union {NONE}
    <3>1. call[c].product \in Products
      BY <1>1, <1>2 DEF CommandsAreSound, CommandsNameProducts
    <3> QED
      BY <2>1, <3>1 DEF Registration
  <2>8. CommandsNameProducts'
    BY <1>1, <2>2, <2>3 DEF CommandsAreSound, CommandsNameProducts
  <2>9. CommandsAreSound' /\ AnswersStay
    BY <1>2, <2>3, <2>6, <2>7, <2>8 DEF CommandsAreSound, AnswersStay
  <2>10. StoreIsSound' /\ corrupt' = corrupt
    BY <1>1, <1>3, UntouchedKeeps DEF MayRegister
  <2>11. PlayIsSound'
    BY <1>1, <2>1 DEF PlayIsSound, ProductsAreNamed
  <2> QED
    BY <2>9, <2>10, <2>11, AllKept
<1>4. CASE ~MayRegister(call[c].product)
  <2>1. Reject(c) /\ UNCHANGED <<purchases, history>>
    BY <1>4 DEF Register
  <2> QED
    BY <1>1, <1>2, <2>1, RejectEarly, UntouchedKeeps, PlayStays, AllKept
<1> QED
  BY <1>3, <1>4

\* The sheet opens, or the registered callback is told of the failure.
LEMMA LaunchKeeps ==
  ASSUME StoreIInv, NEW c \in Calls, Launch(c)
  PROVE  Kept
<1> DEFINE mine == Active({call[c].product})
<1>1. /\ StoreIsSound /\ TypeOK /\ CommandsAreSound /\ PlayIsSound
      /\ call \in [Calls -> Command] /\ call[c] \in Command /\ call[c].at = "registered"
      /\ purchases \in Registration \union {NONE}
      /\ UNCHANGED <<deferredPurchases, completedCorrelations, journal, owned, finishing,
                     play, updates, handed, history>>
  BY PartsOfIInv DEF StoreIInv, TypeOK, Launch
<1>2. call[c].product \in Products
  BY <1>1 DEF CommandsAreSound, CommandsNameProducts
<1>3. PlayIsSound'
  BY <1>1, PlayStays
<1>4. ASSUME NEW at \in {"open", "done"}
      PROVE  /\ [call[c] EXCEPT !.at = at] \in Command
             /\ [call[c] EXCEPT !.at = at].answer = call[c].answer
             /\ [call[c] EXCEPT !.at = at].at = at
             /\ [call[c] EXCEPT !.at = at].product = call[c].product
             /\ at \notin BeforeRegister
  BY <1>1, <1>4 DEF Command, Stages, BeforeRegister
<1>5. purchases # NONE => call[purchases.call].answer = NONE
  BY <1>1 DEF CommandsAreSound, CallbacksAreDue
<1>6. CASE /\ purchases' = IF mine THEN [purchases EXCEPT !.context = call[c].context]
                           ELSE purchases
           /\ call' = [call EXCEPT ![c].at = "open"]
  <2> DEFINE new == [call[c] EXCEPT !.at = "open"]
  <2>1. call' = [call EXCEPT ![c] = new]
    BY <1>6
  <2>2. /\ purchases' \in Registration \union {NONE}
        /\ purchases' # NONE => purchases # NONE /\ purchases'.call = purchases.call
    <3>1. call[c].context \in Calls \union {NONE}
      BY <1>1 DEF Command
    <3> QED
      BY <1>1, <1>6, <3>1 DEF Active, Registration
  <2>3. new \in Command /\ new.answer = call[c].answer /\ new.at = "open"
        /\ new.product = call[c].product /\ new.at \notin BeforeRegister
    BY <1>4
  <2> HIDE DEF new
  <2>4. CommandsAreSound' /\ AnswersStay
    <3>1. new.product \in Products
      BY <1>2, <2>3
    <3>2. purchases' # NONE /\ purchases'.call = c => new.answer = NONE
      BY <1>5, <2>2, <2>3
    <3>3. new \in Command /\ CommandsAreSound
      BY <1>1, <2>3
    <3>4. /\ call[c].answer # NONE => new.answer = call[c].answer
          /\ new.at \in BeforeRegister => new.answer = NONE
          /\ new.at # "idle" => new.product \in Products
          /\ purchases' # NONE /\ purchases'.call = c =>
               new.answer = NONE /\ new.at \notin BeforeRegister
      BY <2>3, <3>1, <3>2
    <3> QED
      BY <2>1, <2>2, <3>3, <3>4, CallbackMoves
  <2> QED
    BY <1>1, <1>3, <2>2, <2>4, UntouchedKeeps, AllKept
<1>7. CASE /\ mine /\ purchases' = NONE
           /\ call' = Answered([call EXCEPT ![c].at = "done"], purchases.call, "rejected")
  <2> DEFINE new == [call[c] EXCEPT !.at = "done"]
             over == [call EXCEPT ![c] = new]
  <2>1. new \in Command /\ new.answer = call[c].answer /\ new.at = "done"
        /\ new.product = call[c].product /\ new.at \notin BeforeRegister
    BY <1>4
  <2>2. call' = Answered(over, purchases.call, "rejected") /\ purchases # NONE
    BY <1>7 DEF Active
  <2> HIDE DEF new
  <2>3. over \in [Calls -> Command] /\ over[c] = new /\ \A d \in Calls \ {c} : over[d] = call[d]
    BY <1>1, <2>1
  <2>4. /\ \A d \in Calls : over[d].answer = call[d].answer /\ over[d].product = call[d].product
        /\ \A d \in Calls : over[d].at # "idle" => call[d].at # "idle"
        /\ \A d \in Calls : over[d].at \in BeforeRegister => call[d].at \in BeforeRegister
    BY <1>1, <2>1, <2>3
  <2> HIDE DEF over
  <2>5. CommandsAreSound' /\ AnswersStay
    BY <1>1, <1>7, <2>2, <2>3, <2>4, CallbackIsCalled
  <2> QED
    BY <1>1, <1>3, <1>7, <2>5, UntouchedKeeps, AllKept
<1>8. CASE ~mine /\ call' = [call EXCEPT ![c].at = "done"] /\ UNCHANGED purchases
  <2> DEFINE new == [call[c] EXCEPT !.at = "done"]
  <2>1. call' = [call EXCEPT ![c] = new]
    BY <1>8
  <2>2. new \in Command /\ new.answer = call[c].answer /\ new.at = "done"
        /\ new.product = call[c].product /\ new.at \notin BeforeRegister
    BY <1>4
  <2> HIDE DEF new
  <2>3. CommandsAreSound' /\ AnswersStay
    <3>1. new \in Command /\ CommandsAreSound /\ UNCHANGED purchases
      BY <1>1, <1>8, <2>2
    <3>2. /\ call[c].answer # NONE => new.answer = call[c].answer
          /\ new.at \in BeforeRegister => new.answer = NONE
          /\ new.at # "idle" => new.product \in Products
          /\ purchases # NONE /\ purchases.call = c =>
               new.answer = NONE /\ new.at \notin BeforeRegister
      BY <1>2, <1>5, <2>2
    <3> QED
      BY <2>1, <3>1, <3>2, CommandMoves
  <2> QED
    BY <1>1, <1>3, <1>8, <2>3, UntouchedKeeps, AllKept
<1> QED
  BY <1>6, <1>7, <1>8 DEF Launch

-----------------------------------------------------------------------------
(* What Play does *)

LEMMA StoreStays ==
  ASSUME StoreIsSound, TypeOK, UNCHANGED <<store, journal>>
  PROVE  StoreIsSound' /\ corrupt' = corrupt
<1>1. UNCHANGED <<purchases, deferredPurchases, completedCorrelations, journal>>
  BY DEF store
<1> QED
  BY <1>1, UntouchedKeeps

\* A step of Play leaves the store and the commands alone.
LEMMA PlayMoves ==
  ASSUME StoreIInv, UNCHANGED <<store, journal, call, owned, finishing, handed>>,
         play' \in [Tokens -> Payment], ProductsAreNamed', updates' \subseteq Update,
         history' \in [crashes : 0..MaxCrashes, gifts : 0..MaxGifts, cleared : SUBSET Tokens,
                       older : [Calls -> SUBSET Tokens]]
  PROVE  Kept
<1>1. StoreIsSound /\ TypeOK /\ CommandsAreSound /\ PlayIsSound
  BY PartsOfIInv DEF StoreIInv
<1>2. StoreIsSound' /\ corrupt' = corrupt
  BY <1>1, StoreStays
<1>3. CommandsAreSound' /\ AnswersStay
  BY <1>1, CommandsStay DEF store
<1>4. PlayIsSound'
  BY <1>1 DEF PlayIsSound
<1> QED
  BY <1>2, <1>3, <1>4, AllKept

LEMMA GiftKeeps ==
  ASSUME StoreIInv, NEW t \in Tokens, NEW p \in Products, Gift(t, p)
  PROVE  Kept
<1>1. PICK state \in {"pending", "purchased"} :
        /\ play' = [play EXCEPT ![t] = [state |-> state, products |-> {p}, buyer |-> NONE]]
        /\ Announce(t, state, {p})
  BY DEF Gift
<1> DEFINE new == [state |-> state, products |-> {p}, buyer |-> NONE]
<1>2. new \in Payment /\ new.products # {}
  BY DEF Payment, PlayStates, OwnedStates
<1>3. TypeOK /\ ProductsAreNamed
  BY DEF StoreIInv
<1>4. play' = [play EXCEPT ![t] = new]
  BY <1>1
<1> HIDE DEF new
<1>5. play' \in [Tokens -> Payment] /\ ProductsAreNamed'
  BY <1>2, <1>3, <1>4 DEF TypeOK, ProductsAreNamed
<1>6. updates' \subseteq Update
  BY <1>1, <1>3 DEF TypeOK, Announce, Update
<1>7. history' \in [crashes : 0..MaxCrashes, gifts : 0..MaxGifts, cleared : SUBSET Tokens,
                    older : [Calls -> SUBSET Tokens]]
  BY <1>3, BoundsAssumption DEF TypeOK, Gift
<1> QED
  BY <1>5, <1>6, <1>7, PlayMoves DEF Gift

LEMMA PaymentCompletesKeeps ==
  ASSUME StoreIInv, NEW t \in Tokens, PaymentCompletes(t)
  PROVE  Kept
<1>1. PICK products \in {play[t].products, Products} :
        /\ play' = [play EXCEPT ![t].state = "purchased", ![t].products = products]
        /\ Announce(t, "purchased", products)
  BY DEF PaymentCompletes
<1> DEFINE new == [play[t] EXCEPT !.state = "purchased", !.products = products]
<1>2. TypeOK /\ ProductsAreNamed /\ play[t] \in Payment /\ play[t].state = "pending"
  BY DEF StoreIInv, TypeOK, PaymentCompletes
<1>3. products \in SUBSET Products /\ products # {}
  BY <1>2 DEF ProductsAreNamed, Payment
<1>4. new \in Payment /\ new.products # {}
  BY <1>2, <1>3 DEF Payment, PlayStates, OwnedStates
<1>5. play' = [play EXCEPT ![t] = new]
  BY <1>1
<1> HIDE DEF new
<1>6. play' \in [Tokens -> Payment] /\ ProductsAreNamed'
  BY <1>2, <1>4, <1>5 DEF TypeOK, ProductsAreNamed
<1>7. updates' \subseteq Update
  BY <1>1, <1>2, <1>3 DEF TypeOK, Announce, Update
<1> QED
  BY <1>2, <1>6, <1>7, PlayMoves DEF PaymentCompletes, TypeOK

LEMMA PaymentCancelledKeeps ==
  ASSUME StoreIInv, NEW t \in Tokens, PaymentCancelled(t)
  PROVE  Kept
<1> DEFINE new == [play[t] EXCEPT !.state = "cancelled"]
<1>1. /\ TypeOK /\ ProductsAreNamed /\ play[t] \in Payment /\ play[t].state = "pending"
      /\ play' = [play EXCEPT ![t] = new]
  BY DEF StoreIInv, TypeOK, PaymentCancelled
<1>2. new \in Payment /\ new.products # {}
  BY <1>1 DEF Payment, PlayStates, OwnedStates, ProductsAreNamed
<1> HIDE DEF new
<1>3. play' \in [Tokens -> Payment] /\ ProductsAreNamed'
  BY <1>1, <1>2 DEF TypeOK, ProductsAreNamed
<1> QED
  BY <1>1, <1>3, PlayMoves DEF PaymentCancelled, TypeOK

LEMMA PlayFinishesKeeps ==
  ASSUME StoreIInv, NEW t \in Tokens, PlayFinishes(t)
  PROVE  Kept
<1>1. /\ StoreIsSound /\ TypeOK /\ CommandsAreSound /\ PlayIsSound
      /\ UNCHANGED <<store, journal, call, owned, updates, handed, history>>
      /\ finishing' = finishing \ {t}
  BY PartsOfIInv DEF StoreIInv, PlayFinishes
<1>2. play' \in [Tokens -> Payment] /\ ProductsAreNamed'
  <2>1. CASE UNCHANGED play
    BY <1>1, <2>1 DEF PlayIsSound, ProductsAreNamed
  <2>2. CASE /\ play[t].state \in {"purchased", "acknowledged"}
             /\ \E state \in {"consumed", "acknowledged"} :
                  play' = [play EXCEPT ![t].state = state]
    <3>1. PICK state \in {"consumed", "acknowledged"} : play' = [play EXCEPT ![t].state = state]
      BY <2>2
    <3> DEFINE new == [play[t] EXCEPT !.state = state]
    <3>2. play' = [play EXCEPT ![t] = new] /\ play[t] \in Payment /\ play[t].state # "none"
      BY <1>1, <2>2, <3>1 DEF PlayIsSound
    <3>3. new \in Payment /\ new.products # {}
      BY <1>1, <3>2 DEF Payment, PlayStates, OwnedStates, ProductsAreNamed, PlayIsSound
    <3> HIDE DEF new
    <3> QED
      BY <1>1, <3>2, <3>3 DEF PlayIsSound, ProductsAreNamed
  <2> QED
    BY <2>1, <2>2 DEF PlayFinishes
<1>3. PlayIsSound'
  BY <1>1, <1>2 DEF PlayIsSound
<1>4. CommandsAreSound' /\ AnswersStay
  BY <1>1, CommandsStay DEF store
<1> QED
  BY <1>1, <1>3, <1>4, StoreStays, AllKept

LEMMA SheetClosesKeeps ==
  ASSUME StoreIInv, NEW c \in Calls, SheetCloses(c)
  PROVE  Kept
<1> DEFINE new == [call[c] EXCEPT !.at = "done"]
<1>1. /\ StoreIsSound /\ TypeOK /\ CommandsAreSound /\ PlayIsSound
      /\ call[c] \in Command /\ call[c].at = "open"
      /\ call' = [call EXCEPT ![c] = new]
      /\ UNCHANGED <<store, journal, owned, finishing, handed, history>>
  BY PartsOfIInv DEF StoreIInv, TypeOK, SheetCloses
<1>2. call[c].product \in Products
  BY <1>1 DEF CommandsAreSound, CommandsNameProducts
<1>3. purchases # NONE => call[purchases.call].answer = NONE
  BY <1>1 DEF CommandsAreSound, CallbacksAreDue
<1>4. new \in Command /\ new.answer = call[c].answer /\ new.at \notin BeforeRegister
      /\ new.product \in Products
  BY <1>1, <1>2 DEF Command, Stages, BeforeRegister
<1> HIDE DEF new
<1>5. CommandsAreSound' /\ AnswersStay
  <2>1. UNCHANGED purchases /\ (purchases # NONE /\ purchases.call = c => new.answer = NONE)
    BY <1>1, <1>3, <1>4 DEF store
  <2> QED
    BY <1>1, <1>4, <2>1, CommandMoves
<1>6. play' \in [Tokens -> Payment] /\ ProductsAreNamed'
  <2>1. CASE UNCHANGED play
    BY <1>1, <2>1 DEF PlayIsSound, ProductsAreNamed
  <2>2. ASSUME NEW t \in Tokens, NEW state \in {"pending", "purchased"},
               play' = [play EXCEPT ![t] = [state |-> state, products |-> {call[c].product},
                                            buyer |-> c]]
        PROVE  play' \in [Tokens -> Payment] /\ ProductsAreNamed'
    <3> DEFINE payment == [state |-> state, products |-> {call[c].product}, buyer |-> c]
    <3>1. payment \in Payment /\ payment.products # {}
      BY <1>2 DEF Payment, PlayStates, OwnedStates
    <3>2. play' = [play EXCEPT ![t] = payment]
      BY <2>2
    <3> HIDE DEF payment
    <3> QED
      BY <1>1, <3>1, <3>2 DEF PlayIsSound, ProductsAreNamed
  <2> QED
    BY <2>1, <2>2 DEF SheetCloses
<1>7. updates' \subseteq Update
  <2>1. ASSUME NEW token \in Tokens \union {NONE}, NEW products \in SUBSET Products,
               NEW state \in {"pending", "purchased", "unspecified", "failed"},
               Announce(token, state, products)
        PROVE  updates' \subseteq Update
    BY <1>1, <2>1 DEF PlayIsSound, Announce, Update
  <2> QED
    BY <1>2, <2>1 DEF SheetCloses
<1>8. PlayIsSound'
  BY <1>1, <1>6, <1>7 DEF PlayIsSound
<1> QED
  BY <1>1, <1>5, <1>8, StoreStays, AllKept

-----------------------------------------------------------------------------
(* onPurchasesUpdated *)

LEMMA WithIs ==
  ASSUME NEW map \in Correlations, NEW t \in Tokens, NEW correlation \in Correlation
  PROVE  /\ With(map, t, correlation) \in Correlations
         /\ DOMAIN With(map, t, correlation) = DOMAIN map \union {t}
         /\ With(map, t, correlation)[t] = correlation
         /\ \A s \in DOMAIN map \ {t} : With(map, t, correlation)[s] = map[s]
<1>1. DOMAIN map \subseteq Tokens /\ map \in [DOMAIN map -> Correlation]
  BY CorrelationsAre
<1>2. With(map, t, correlation) \in [DOMAIN map \union {t} -> Correlation]
  BY <1>1 DEF With
<1>3. DOMAIN With(map, t, correlation) = DOMAIN map \union {t}
  BY DEF With
<1> QED
  BY <1>1, <1>2, <1>3, CorrelationsAre DEF With

LEMMA RestrictedIs ==
  ASSUME NEW map \in Correlations, NEW S \in SUBSET DOMAIN map
  PROVE  /\ Restrict(map, S) \in Correlations
         /\ DOMAIN Restrict(map, S) = S
         /\ \A s \in S : Restrict(map, S)[s] = map[s]
<1>1. DOMAIN map \subseteq Tokens /\ map \in [DOMAIN map -> Correlation]
  BY CorrelationsAre
<1>2. Restrict(map, S) \in [S -> Correlation] /\ DOMAIN Restrict(map, S) = S
  BY <1>1 DEF Restrict
<1> QED
  BY <1>1, <1>2, CorrelationsAre DEF Restrict

LEMMA WithoutIs ==
  ASSUME NEW map \in Correlations, NEW t
  PROVE  /\ Without(map, {t}) \in Correlations
         /\ DOMAIN Without(map, {t}) = DOMAIN map \ {t}
         /\ \A s \in DOMAIN map \ {t} : Without(map, {t})[s] = map[s]
  BY RestrictedIs DEF Without

LEMMA ExistingType ==
  ASSUME StoreIsSound, NEW t \in Correlated
  PROVE  Existing(t) \in Correlation
  BY ExistingIs, ValueType DEF StoreIsSound, Correlated

LEMMA ValidatedIs ==
  ASSUME NEW correlation \in Correlation, NEW products
  PROVE  /\ Validated(correlation, products) \in Correlation
         /\ Validated(correlation, products).durable = correlation.durable
  BY DEF Validated, Correlation

LEMMA FreshIs ==
  ASSUME NEW products \in (SUBSET Products) \ {{}}, NEW context \in Calls \union {NONE}
  PROVE  /\ Fresh(products, context) \in Correlation
         /\ context = NONE => ~Fresh(products, context).durable
  BY DEF Fresh, Correlation

\* One token's correlation changes, or is added for the purchase whose place it takes.
LEMMA OneMayChange ==
  ASSUME StoreIsSound, NEW d \in Correlations, NEW c \in Correlations, NEW t \in Tokens,
         DOMAIN d \intersect DOMAIN c = {},
         DOMAIN d \union DOMAIN c = Correlated \union {t},
         \A s \in Correlated \ {t} : Value(d, c, s) = Existing(s),
         \/ t \in Correlated /\ (purchases' # NONE => purchases # NONE)
         \/ purchases # NONE /\ purchases' = NONE,
         corrupt => ~Value(d, c, t).durable
  PROVE  MayBecome(d, c)
<1>1. Correlated \in SUBSET Tokens
  BY CorrelationsAre DEF StoreIsSound, Correlated
<1>2. /\ Cardinality(Correlated) \in Nat
      /\ Cardinality(Correlated \union {t}) \in Nat
      /\ Cardinality(Correlated \union {t}) <= Cardinality(Correlated) + 1
      /\ t \in Correlated => Correlated \union {t} = Correlated
  BY <1>1, TokensCount
<1>3. Cardinality(Correlated) + (IF purchases = NONE THEN 0 ELSE 1) <= MaxCorrelated
  BY DEF StoreIsSound, SlotIsReserved
<1>4. Cardinality(DOMAIN d \union DOMAIN c) + (IF purchases' = NONE THEN 0 ELSE 1)
        <= MaxCorrelated
  BY <1>2, <1>3, CapacityIsNatural
<1>5. corrupt => purchases' = NONE /\ DurableTokens(d, c) = {}
  BY DEF StoreIsSound, ClosedIfUnreadable, DurableTokens
<1> QED
  BY <1>4, <1>5 DEF MayBecome

\* What is heard leaves the announcements.
LEMMA HeardKeeps ==
  ASSUME PlayIsSound, NEW u, Heard(u), UNCHANGED <<owned, finishing, play, history>>,
         handed' \subseteq Tokens
  PROVE  PlayIsSound' /\ u \in Update
  BY DEF PlayIsSound, Heard, ProductsAreNamed

LEMMA HearFailureKeeps ==
  ASSUME StoreIInv, NEW u, HearFailure(u)
  PROVE  Kept
<1>1. StoreIsSound /\ TypeOK /\ CommandsAreSound /\ PlayIsSound
      /\ Release(RejectedProducts(u)) /\ Heard(u)
      /\ UNCHANGED <<owned, finishing, play, handed, history>>
  BY PartsOfIInv DEF StoreIInv, HearFailure
<1>2. CommandsAreSound' /\ AnswersStay /\ purchases' \in {purchases, NONE}
  BY <1>1, ReleaseKeeps
<1>3. UNCHANGED <<deferredPurchases, completedCorrelations, journal>>
  BY <1>1 DEF Release
<1>4. StoreIsSound' /\ corrupt' = corrupt
  BY <1>1, <1>2, <1>3, UntouchedKeeps
<1>5. PlayIsSound'
  BY <1>1, HeardKeeps DEF PlayIsSound
<1> QED
  BY <1>2, <1>4, <1>5, AllKept

\* A pending payment is announced: the callback is rejected and the token takes its place.
LEMMA HearPendingKeeps ==
  ASSUME StoreIInv, NEW u, HearPending(u)
  PROVE  Kept
<1>1. StoreIsSound /\ TypeOK /\ CommandsAreSound /\ PlayIsSound /\ Heard(u)
      /\ UNCHANGED <<owned, finishing, play, handed, history>>
  BY PartsOfIInv DEF StoreIInv, HearPending
<1>2. PlayIsSound' /\ u \in Update
  BY <1>1, HeardKeeps DEF PlayIsSound
<1>3. CASE u.token = NONE \/ ~Active(u.products)
  <2>1. Release(u.products)
    BY <1>3 DEF HearPending
  <2>2. CommandsAreSound' /\ AnswersStay /\ purchases' \in {purchases, NONE}
    BY <1>1, <2>1, ReleaseKeeps
  <2>3. UNCHANGED <<deferredPurchases, completedCorrelations, journal>>
    BY <2>1 DEF Release
  <2> QED
    BY <1>1, <1>2, <2>2, <2>3, UntouchedKeeps, AllKept
<1>4. CASE u.token # NONE /\ Active(u.products)
  <2> DEFINE t == u.token
             context == purchases.context
             correlation ==
               IF t \notin Correlated THEN Fresh(u.products, context)
               ELSE [products |-> Existing(t).products \union u.products,
                     context |-> NONE,
                     durable |-> Existing(t).durable \/ context # NONE]
             d == With(deferredPurchases, t, correlation)
             c == Without(completedCorrelations, {t})
  <2>1. /\ purchases' = NONE /\ call' = Answered(call, purchases.call, "rejected")
        /\ deferredPurchases' = d /\ completedCorrelations' = c
        /\ \E ok \in BOOLEAN : PersistFor(correlation, ok)
    BY <1>4 DEF HearPending, Reject
  <2>2. PICK ok \in BOOLEAN : PersistFor(correlation, ok)
    BY <2>1
  <2>3. /\ t \in Tokens /\ u.products \in (SUBSET Products) \ {{}}
        /\ purchases # NONE /\ purchases \in Registration
    BY <1>1, <1>2, <1>4 DEF Update, Active, CommandsAreSound
  <2>4. context \in Calls \union {NONE}
    BY <2>3 DEF Registration
  <2>5. /\ correlation \in Correlation
        /\ t \in Correlated /\ Existing(t).durable => correlation.durable
    <3>1. CASE t \notin Correlated
      BY <2>3, <2>4, <3>1, FreshIs
    <3>2. CASE t \in Correlated
      <4>1. Existing(t) \in Correlation
        BY <1>1, <3>2, ExistingType
      <4> QED
        BY <2>3, <3>2, <4>1 DEF Correlation
    <3> QED
      BY <3>1, <3>2
  <2> HIDE DEF correlation, context
  <2>6. /\ deferredPurchases \in Correlations /\ completedCorrelations \in Correlations
        /\ DOMAIN deferredPurchases \intersect DOMAIN completedCorrelations = {}
    BY <1>1 DEF StoreIsSound, SlotIsReserved
  <2>7. /\ d \in Correlations /\ DOMAIN d = DOMAIN deferredPurchases \union {t}
        /\ d[t] = correlation /\ \A s \in DOMAIN deferredPurchases \ {t} : d[s] = deferredPurchases[s]
        /\ c \in Correlations /\ DOMAIN c = DOMAIN completedCorrelations \ {t}
        /\ \A s \in DOMAIN completedCorrelations \ {t} : c[s] = completedCorrelations[s]
    <3>1. t \in Tokens /\ correlation \in Correlation
      BY <2>3, <2>5
    <3> HIDE DEF t
    <3>2. /\ d \in Correlations /\ DOMAIN d = DOMAIN deferredPurchases \union {t}
          /\ d[t] = correlation
          /\ \A s \in DOMAIN deferredPurchases \ {t} : d[s] = deferredPurchases[s]
      BY <3>1, <2>6, WithIs
    <3>3. /\ c \in Correlations /\ DOMAIN c = DOMAIN completedCorrelations \ {t}
          /\ \A s \in DOMAIN completedCorrelations \ {t} : c[s] = completedCorrelations[s]
      BY <2>6, WithoutIs
    <3> QED
      BY <3>2, <3>3
  <2> HIDE DEF d, c
  <2>8. /\ DOMAIN d \intersect DOMAIN c = {}
        /\ DOMAIN d \union DOMAIN c = Correlated \union {t}
        /\ Value(d, c, t) = correlation
        /\ \A s \in Correlated \ {t} : Value(d, c, s) = Existing(s)
    BY <2>6, <2>7 DEF Correlated, Value, Existing
  <2>9. ~corrupt
    BY <1>1, <2>3 DEF StoreIsSound, ClosedIfUnreadable
  <2>10. MayBecome(d, c)
    BY <1>1, <2>1, <2>3, <2>7, <2>8, <2>9, OneMayChange
  <2>11. StoreIsSound' /\ corrupt' = corrupt
    BY <1>1, <2>1, <2>2, <2>5, <2>7, <2>8, <2>10, PersistForKeeps
  <2>12. CommandsAreSound' /\ AnswersStay
    BY <1>1, <2>1, <2>3, CallbackIsCalled DEF CommandsAreSound
  <2> QED
    BY <1>2, <2>11, <2>12, AllKept
<1> QED
  BY <1>3, <1>4

\* A purchase is announced: it is known already, or resolves the callback, or nobody waits.
LEMMA HearPurchasedKeeps ==
  ASSUME StoreIInv, NEW u, HearPurchased(u)
  PROVE  Kept
<1> DEFINE t == u.token
<1>1. StoreIsSound /\ TypeOK /\ CommandsAreSound /\ PlayIsSound /\ Heard(u)
      /\ UNCHANGED <<owned, finishing, play, history>>
  BY PartsOfIInv DEF StoreIInv, HearPurchased
<1>2. u \in Update
  BY <1>1 DEF PlayIsSound, Heard
<1>3. handed' \subseteq Tokens => PlayIsSound'
  BY <1>1, HeardKeeps
<1>4. /\ deferredPurchases \in Correlations /\ completedCorrelations \in Correlations
      /\ DOMAIN deferredPurchases \intersect DOMAIN completedCorrelations = {}
      /\ handed \subseteq Tokens
  BY <1>1 DEF StoreIsSound, SlotIsReserved, PlayIsSound
<1>5. CASE t = NONE /\ Release(u.products) /\ UNCHANGED handed
  <2>1. CommandsAreSound' /\ AnswersStay /\ purchases' \in {purchases, NONE}
    BY <1>1, <1>5, ReleaseKeeps
  <2>2. UNCHANGED <<deferredPurchases, completedCorrelations, journal>>
    BY <1>5 DEF Release
  <2> QED
    BY <1>1, <1>3, <1>4, <1>5, <2>1, <2>2, UntouchedKeeps, AllKept
<1>6. CASE t # NONE /\ t \in Correlated /\ UNCHANGED <<purchases, call, handed>>
  <2> DEFINE validated == Validated(Existing(t), u.products)
             d == IF t \in DOMAIN deferredPurchases
                  THEN With(deferredPurchases, t, validated) ELSE deferredPurchases
             c == IF t \in DOMAIN deferredPurchases
                  THEN completedCorrelations ELSE With(completedCorrelations, t, validated)
  <2>1. /\ deferredPurchases' = d /\ completedCorrelations' = c
        /\ \E ok \in BOOLEAN : PersistFor(validated, ok)
    BY <1>6 DEF HearPurchased
  <2>2. PICK ok \in BOOLEAN : PersistFor(validated, ok)
    BY <2>1
  <2>3. t \in Tokens
    BY <1>2, <1>6 DEF Update
  <2>4. validated \in Correlation /\ validated.durable = Existing(t).durable
    BY <1>1, <1>6, ExistingType, ValidatedIs
  <2> HIDE DEF validated
  <2>5. /\ d \in Correlations /\ DOMAIN d = DOMAIN deferredPurchases
        /\ \A s \in DOMAIN d \ {t} : d[s] = deferredPurchases[s]
        /\ t \in DOMAIN d => d[t] = validated
    BY <1>4, <2>3, <2>4, WithIs
  <2>6. /\ c \in Correlations /\ DOMAIN c = DOMAIN completedCorrelations
        /\ \A s \in DOMAIN c \ {t} : c[s] = completedCorrelations[s]
        /\ t \in DOMAIN c => c[t] = validated
    <3>1. t \in Tokens /\ completedCorrelations \in Correlations
      BY <1>4, <2>3
    <3>2. t \notin DOMAIN deferredPurchases => t \in DOMAIN completedCorrelations
      BY <1>6 DEF Correlated
    <3> HIDE DEF t
    <3>3. CASE t \in DOMAIN deferredPurchases
      <4>1. c = completedCorrelations /\ t \notin DOMAIN completedCorrelations
        BY <1>4, <3>3
      <4> QED
        BY <3>1, <4>1
    <3>4. CASE t \notin DOMAIN deferredPurchases
      <4>1. c = With(completedCorrelations, t, validated)
        BY <3>4
      <4> HIDE DEF c
      <4>2. /\ c \in Correlations /\ DOMAIN c = DOMAIN completedCorrelations
            /\ \A s \in DOMAIN c \ {t} : c[s] = completedCorrelations[s]
            /\ c[t] = validated
        <5>1. /\ c \in Correlations /\ DOMAIN c = DOMAIN completedCorrelations \union {t}
              /\ c[t] = validated
              /\ \A s \in DOMAIN completedCorrelations \ {t} : c[s] = completedCorrelations[s]
          BY <2>4, <3>1, <4>1, WithIs
        <5>2. DOMAIN completedCorrelations \union {t} = DOMAIN completedCorrelations
          BY <3>2, <3>4
        <5> QED
          BY <5>1, <5>2
      <4> QED
        BY <4>2
    <3> QED
      BY <3>3, <3>4
  <2> HIDE DEF d, c
  <2>7. /\ DOMAIN d \intersect DOMAIN c = {}
        /\ DOMAIN d \union DOMAIN c = Correlated \union {t}
        /\ t \in DOMAIN d \union DOMAIN c
        /\ Value(d, c, t) = validated
        /\ \A s \in Correlated \ {t} : Value(d, c, s) = Existing(s)
    BY <1>4, <1>6, <2>5, <2>6 DEF Correlated, Value, Existing
  <2>8. corrupt => ~validated.durable
    BY <1>1, <1>6, <2>4 DEF StoreIsSound, ClosedIfUnreadable
  <2>9. MayBecome(d, c)
    BY <1>1, <1>6, <2>3, <2>5, <2>6, <2>7, <2>8, OneMayChange
  <2>10. StoreIsSound' /\ corrupt' = corrupt
    BY <1>1, <2>1, <2>2, <2>4, <2>7, <2>9, PersistForKeeps
  <2> QED
    BY <1>1, <1>3, <1>4, <1>6, <2>10, CommandsStay, AllKept
<1>7. CASE t # NONE /\ t \notin Correlated /\ Active(u.products)
  <2> DEFINE correlation == Fresh(u.products, purchases.context)
             d == deferredPurchases
             c == With(completedCorrelations, t, correlation)
  <2>1. PICK ok \in BOOLEAN :
          /\ purchases' = NONE
          /\ deferredPurchases' = d /\ completedCorrelations' = c
          /\ PersistFor(correlation, ok)
          /\ call' = Answered(call, purchases.call, IF ok THEN t ELSE "rejected")
          /\ handed' = IF ok THEN handed \union {t} ELSE handed
    BY <1>7 DEF HearPurchased, Removed
  <2>2. /\ t \in Tokens /\ u.products \in (SUBSET Products) \ {{}}
        /\ purchases # NONE /\ purchases \in Registration
    BY <1>1, <1>2, <1>7 DEF Update, Active, CommandsAreSound
  <2>3. correlation \in Correlation
    BY <2>2, FreshIs DEF Registration
  <2> HIDE DEF correlation
  <2>4. /\ c \in Correlations /\ DOMAIN c = DOMAIN completedCorrelations \union {t}
        /\ c[t] = correlation
        /\ \A s \in DOMAIN completedCorrelations \ {t} : c[s] = completedCorrelations[s]
    <3>1. completedCorrelations \in Correlations /\ t \in Tokens
      BY <1>4, <2>2
    <3> HIDE DEF t
    <3> QED
      BY <3>1, <2>3, WithIs
  <2> HIDE DEF c
  <2>5. /\ DOMAIN d \intersect DOMAIN c = {}
        /\ DOMAIN d \union DOMAIN c = Correlated \union {t}
        /\ t \in DOMAIN d \union DOMAIN c
        /\ Value(d, c, t) = correlation
        /\ \A s \in Correlated \ {t} : Value(d, c, s) = Existing(s)
    BY <1>4, <1>7, <2>4 DEF Correlated, Value, Existing
  <2>6. ~corrupt
    BY <1>1, <2>2 DEF StoreIsSound, ClosedIfUnreadable
  <2>7. MayBecome(d, c)
    BY <1>1, <1>4, <2>1, <2>2, <2>4, <2>5, <2>6, OneMayChange
  <2>8. StoreIsSound' /\ corrupt' = corrupt
    BY <1>1, <1>7, <2>1, <2>5, <2>7, PersistForKeeps
  <2>9. CommandsAreSound' /\ AnswersStay
    <3>1. (IF ok THEN t ELSE "rejected") \in Tokens \union {"rejected", "lost"}
      BY <2>2
    <3> QED
      BY <1>1, <2>1, <2>2, <3>1, CallbackIsCalled DEF CommandsAreSound
  <2> QED
    BY <1>3, <1>4, <2>1, <2>2, <2>8, <2>9, AllKept
<1>8. CASE UNCHANGED <<store, journal, call, handed>>
  BY <1>1, <1>3, <1>4, <1>8, StoreStays, CommandsStay, AllKept DEF store
<1> QED
  BY <1>5, <1>6, <1>7, <1>8 DEF HearPurchased

-----------------------------------------------------------------------------
(* Preparing a purchase *)

\* The part of a map that is kept.
Limited(map, kept) == Restrict(map, DOMAIN map \intersect kept)

\* Two maps keep the tokens of a set that holds what is durable.
LEMMA LimitedAre ==
  ASSUME NEW d \in Correlations, NEW c \in Correlations, NEW kept,
         DOMAIN d \intersect DOMAIN c = {}, DurableTokens(d, c) \subseteq kept
  PROVE  /\ Limited(d, kept) \in Correlations /\ Limited(c, kept) \in Correlations
         /\ DOMAIN Limited(d, kept) \intersect DOMAIN Limited(c, kept) = {}
         /\ DOMAIN Limited(d, kept) \union DOMAIN Limited(c, kept)
              = (DOMAIN d \union DOMAIN c) \intersect kept
         /\ DurableTokens(Limited(d, kept), Limited(c, kept)) = DurableTokens(d, c)
         /\ \A t \in DOMAIN Limited(d, kept) \union DOMAIN Limited(c, kept) :
              Value(Limited(d, kept), Limited(c, kept), t) = Value(d, c, t)
<1> DEFINE e == Limited(d, kept)
           f == Limited(c, kept)
<1>1. /\ e \in Correlations /\ DOMAIN e = DOMAIN d \intersect kept
      /\ \A s \in DOMAIN e : e[s] = d[s]
  BY RestrictedIs DEF Limited
<1>2. /\ f \in Correlations /\ DOMAIN f = DOMAIN c \intersect kept
      /\ \A s \in DOMAIN f : f[s] = c[s]
  BY RestrictedIs DEF Limited
<1> HIDE DEF e, f
<1>3. /\ DOMAIN e \intersect DOMAIN f = {}
      /\ DOMAIN e \union DOMAIN f = (DOMAIN d \union DOMAIN c) \intersect kept
  BY <1>1, <1>2
<1>4. \A t \in DOMAIN e \union DOMAIN f : Value(e, f, t) = Value(d, c, t)
  BY <1>1, <1>2 DEF Value
<1>5. DurableTokens(e, f) = DurableTokens(d, c)
  BY <1>3, <1>4 DEF DurableTokens
<1> QED
  BY <1>1, <1>2, <1>3, <1>4, <1>5 DEF e, f

\* What the store makes of a token that Play reports.
Observed(t, snapshot) ==
  IF t \in Correlated THEN Validated(Existing(t), snapshot[t].products)
  ELSE Fresh(snapshot[t].products, NONE)

\* What prepareForPurchase makes of the maps: durable correlations stay durable and no
\* other becomes so.
LEMMA PreparedIs ==
  ASSUME StoreIsSound, NEW p, NEW snapshot \in Snapshotted
  PROVE  /\ PreparedMaps(p, snapshot).deferred \in Correlations
         /\ PreparedMaps(p, snapshot).completed \in Correlations
         /\ DOMAIN PreparedMaps(p, snapshot).deferred
              \intersect DOMAIN PreparedMaps(p, snapshot).completed = {}
         /\ DurableTokens(PreparedMaps(p, snapshot).deferred, PreparedMaps(p, snapshot).completed)
              = Before
         /\ \A t \in DOMAIN PreparedMaps(p, snapshot).deferred
                     \union DOMAIN PreparedMaps(p, snapshot).completed :
              LET value == Value(PreparedMaps(p, snapshot).deferred,
                                 PreparedMaps(p, snapshot).completed, t)
              IN \/ t \in DOMAIN snapshot /\ value = Observed(t, snapshot)
                 \/ t \in Correlated /\ value = Existing(t)
<1> DEFINE relevant == {t \in DOMAIN snapshot : p \in snapshot[t].products}
           paying == {t \in relevant : snapshot[t].state = "pending"}
           Others(map) == {t \in DOMAIN map : p \notin map[t].products}
           deferred == (Others(deferredPurchases) \ relevant) \union paying
           durable == {t \in Correlated : Existing(t).durable}
           completed == (Others(completedCorrelations) \ relevant)
                          \union (relevant \ paying) \union (durable \ deferred)
           D(t) == IF t \in paying THEN Observed(t, snapshot) ELSE deferredPurchases[t]
           C(t) == IF t \in relevant THEN Observed(t, snapshot) ELSE Existing(t)
           d == [t \in deferred |-> D(t)]
           c == [t \in completed |-> C(t)]
<1>1. PreparedMaps(p, snapshot).deferred = d /\ PreparedMaps(p, snapshot).completed = c
  BY DEF PreparedMaps, Observed
<1>2. /\ deferredPurchases \in Correlations /\ completedCorrelations \in Correlations
      /\ DOMAIN deferredPurchases \intersect DOMAIN completedCorrelations = {}
  BY DEF StoreIsSound, SlotIsReserved
<1>3. /\ DOMAIN snapshot \subseteq Tokens /\ Correlated \subseteq Tokens
      /\ \A t \in DOMAIN snapshot : snapshot[t].products \in (SUBSET Products) \ {{}}
  BY <1>2, CorrelationsAre, SnapshotsAre DEF Correlated, Observation
<1>4. \A t \in Correlated : Existing(t) \in Correlation
  BY ExistingType
<1>5. ASSUME NEW t \in relevant
      PROVE  /\ Observed(t, snapshot) \in Correlation
             /\ Observed(t, snapshot).durable <=> t \in durable
  <2>1. CASE t \in Correlated
    BY <1>4, <2>1, ValidatedIs DEF Observed
  <2>2. CASE t \notin Correlated
    <3>1. snapshot[t].products \in (SUBSET Products) \ {{}}
      BY <1>3
    <3>2. Fresh(snapshot[t].products, NONE) \in Correlation
          /\ ~Fresh(snapshot[t].products, NONE).durable
      BY <3>1, FreshIs
    <3> QED
      BY <2>2, <3>2 DEF Observed
  <2> QED
    BY <2>1, <2>2
<1>6. /\ deferred \subseteq Tokens /\ completed \subseteq Tokens
      /\ deferred \intersect completed = {}
      /\ durable \subseteq deferred \union completed
      /\ paying \subseteq relevant
      /\ \A t \in deferred \ paying : t \in DOMAIN deferredPurchases
      /\ \A t \in completed \ relevant : t \in Correlated
  BY <1>2, <1>3 DEF Correlated
<1>7. \A t \in DOMAIN deferredPurchases : t \in Correlated /\ Existing(t) = deferredPurchases[t]
  BY DEF Correlated, Existing
<1>8. ASSUME NEW t \in deferred
      PROVE  /\ D(t) \in Correlation /\ (D(t).durable <=> t \in durable)
             /\ \/ t \in DOMAIN snapshot /\ D(t) = Observed(t, snapshot)
                \/ t \in Correlated /\ D(t) = Existing(t)
  <2>1. CASE t \in paying
    BY <1>5, <1>6, <2>1
  <2>2. CASE t \notin paying
    BY <1>4, <1>6, <1>7, <2>2
  <2> QED
    BY <2>1, <2>2
<1>9. ASSUME NEW t \in completed
      PROVE  /\ C(t) \in Correlation /\ (C(t).durable <=> t \in durable)
             /\ \/ t \in DOMAIN snapshot /\ C(t) = Observed(t, snapshot)
                \/ t \in Correlated /\ C(t) = Existing(t)
  <2>1. CASE t \in relevant
    BY <1>5, <2>1
  <2>2. CASE t \notin relevant
    BY <1>4, <1>6, <2>2
  <2> QED
    BY <2>1, <2>2
<1>10. Before = durable
  BY DurableIsExisting DEF StoreIsSound, Before
<1> HIDE DEF D, C, deferred, completed, durable
<1>11. d \in Correlations /\ c \in Correlations
  BY <1>6, <1>8, <1>9, CorrelationsAre
<1>12. DurableTokens(d, c) = durable
  BY <1>6, <1>8, <1>9 DEF DurableTokens, Value
<1>13. \A t \in DOMAIN d \union DOMAIN c :
         \/ t \in DOMAIN snapshot /\ Value(d, c, t) = Observed(t, snapshot)
         \/ t \in Correlated /\ Value(d, c, t) = Existing(t)
  BY <1>6, <1>8, <1>9 DEF Value
<1> HIDE DEF d, c
<1> QED
  BY <1>1, <1>6, <1>10, <1>11, <1>12, <1>13 DEF d, c

LEMMA PrepareForPurchaseKeeps ==
  ASSUME StoreIInv, NEW c \in Calls, PrepareForPurchase(c)
  PROVE  Kept
<1> DEFINE new == [call[c] EXCEPT !.at = "prepared", !.snapshot = Nothing]
           next == PreparedMaps(call[c].product, call[c].snapshot)
           all == DOMAIN next.deferred \union DOMAIN next.completed
           full == Cardinality(all) >= MaxCorrelated
<1>1. /\ StoreIsSound /\ TypeOK /\ CommandsAreSound /\ PlayIsSound
      /\ call[c] \in Command /\ call[c].at = "answered"
      /\ UNCHANGED <<purchases, owned, finishing, play, updates, handed, history>>
  BY PartsOfIInv DEF StoreIInv, TypeOK, PrepareForPurchase
<1>2. call[c].at \in BeforeRegister \ {"idle"} /\ call[c].answer = NONE
      /\ (purchases # NONE => purchases.call # c) /\ call[c].product \in Products
  BY <1>1 DEF CommandsAreSound, CallbacksAreDue, CommandsNameProducts, BeforeRegister
<1>3. ASSUME \/ Reject(c)
             \/ call' = [call EXCEPT ![c].at = "prepared", ![c].snapshot = Nothing]
      PROVE  CommandsAreSound' /\ AnswersStay
  <2>1. CASE Reject(c)
    BY <1>1, <1>2, <2>1, RejectEarly
  <2>2. CASE call' = [call EXCEPT ![c].at = "prepared", ![c].snapshot = Nothing]
    <3>1. call' = [call EXCEPT ![c] = new]
      BY <2>2
    <3>2. new \in Command /\ new.answer = call[c].answer /\ new.at = "prepared"
          /\ new.product = call[c].product
      BY <1>1, NothingIs DEF Command, Stages
    <3> HIDE DEF new
    <3> QED
      BY <1>1, <1>2, <3>1, <3>2, CommandMoves
  <2> QED
    BY <1>3, <2>1, <2>2
<1>4. PlayIsSound'
  BY <1>1, PlayStays
<1>5. CASE ~NoFlow
  <2>1. /\ call' = [call EXCEPT ![c].at = "prepared", ![c].snapshot = Nothing]
        /\ UNCHANGED <<deferredPurchases, completedCorrelations, journal>>
    BY <1>5 DEF PrepareForPurchase
  <2> QED
    BY <1>1, <1>3, <1>4, <2>1, UntouchedKeeps, AllKept
<1>6. CASE NoFlow
  <2>1. PICK kept \in IF full THEN Retained(next.deferred, next.completed) ELSE {Tokens} :
          /\ deferredPurchases' = Limited(next.deferred, kept)
          /\ completedCorrelations' = Limited(next.completed, kept)
          /\ \E ok \in BOOLEAN :
               /\ Persist(deferredPurchases', completedCorrelations', FALSE, ok)
               /\ \/ Reject(c)
                  \/ call' = [call EXCEPT ![c].at = "prepared", ![c].snapshot = Nothing]
    BY <1>6 DEF PrepareForPurchase, Limited
  <2> DEFINE d == Limited(next.deferred, kept)
             e == Limited(next.completed, kept)
  <2>2. PICK ok \in BOOLEAN : Persist(d, e, FALSE, ok)
    BY <2>1
  <2>3. call[c].snapshot \in Snapshotted
    BY <1>1 DEF Command
  <2>4. /\ next.deferred \in Correlations /\ next.completed \in Correlations
        /\ DOMAIN next.deferred \intersect DOMAIN next.completed = {}
        /\ DurableTokens(next.deferred, next.completed) = Before
    BY <1>1, <2>3, PreparedIs
  <2> HIDE DEF next
  <2>5. all \subseteq Tokens
    BY <2>4, CorrelationsAre
  <2>6. DurableTokens(next.deferred, next.completed) \subseteq all
    BY DEF DurableTokens
  <2>7. /\ DurableTokens(next.deferred, next.completed) \subseteq kept
        /\ Cardinality(all \intersect kept) <= MaxCorrelated
    <3>1. CASE full
      <4>1. kept \in Retained(next.deferred, next.completed)
        BY <2>1, <3>1
      <4>2. /\ kept \in SUBSET all /\ Cardinality(kept) = MaxCorrelated
            /\ DOMAIN Durable(next.deferred, next.completed) \subseteq kept
        BY <4>1 DEF Retained
      <4>3. all \intersect kept = kept
        BY <4>2
      <4>4. DOMAIN Durable(next.deferred, next.completed)
              = DurableTokens(next.deferred, next.completed)
        BY DurableIs
      <4>5. Cardinality(all \intersect kept) <= MaxCorrelated
        BY <4>2, <4>3, CapacityIsNatural
      <4> QED
        BY <4>2, <4>4, <4>5
    <3>2. CASE ~full
      <4>1. kept = Tokens
        BY <2>1, <3>2
      <4>2. all \intersect kept = all
        BY <2>5, <4>1
      <4>3. Cardinality(all) \in Nat
        BY <2>5, TokensCount
      <4>4. Cardinality(all \intersect kept) <= MaxCorrelated
        BY <3>2, <4>2, <4>3, CapacityIsNatural
      <4>5. DurableTokens(next.deferred, next.completed) \subseteq kept
        BY <2>5, <2>6, <4>1
      <4> QED
        BY <4>4, <4>5
    <3> QED
      BY <3>1, <3>2
  <2>8. /\ d \in Correlations /\ e \in Correlations
        /\ DOMAIN d \intersect DOMAIN e = {}
        /\ DOMAIN d \union DOMAIN e = all \intersect kept
        /\ DurableTokens(d, e) = Before
    BY <2>4, <2>7, LimitedAre
  <2> HIDE DEF d, e
  <2>9. purchases' = NONE
    BY <1>1, <1>6 DEF NoFlow
  <2>10. corrupt => DurableTokens(d, e) = {}
    BY <1>1, <2>8, UnreadableHasNoneDurable
  <2>11. Cardinality(DOMAIN d \union DOMAIN e) \in Nat
    BY <2>5, <2>8, TokensCount
  <2>12. MayBecome(d, e)
    <3>1. Cardinality(DOMAIN d \union DOMAIN e) <= MaxCorrelated
      BY <2>7, <2>8
    <3>2. Cardinality(DOMAIN d \union DOMAIN e) + (IF purchases' = NONE THEN 0 ELSE 1)
            <= MaxCorrelated
      BY <2>9, <2>11, <3>1, CapacityIsNatural
    <3> QED
      BY <2>8, <2>9, <2>10, <3>2 DEF MayBecome
  <2>13. deferredPurchases' = d /\ completedCorrelations' = e
    BY <2>1 DEF d, e
  <2>14. StoreIsSound' /\ corrupt' = corrupt
    BY <1>1, <2>2, <2>8, <2>12, <2>13, PersistKeeps
  <2> QED
    BY <1>3, <1>4, <2>1, <2>14, AllKept
<1> QED
  BY <1>5, <1>6

-----------------------------------------------------------------------------
(* Queries, finishing, restarts *)

LEMMA QueryPurchasesKeeps ==
  ASSUME StoreIInv, QueryPurchases
  PROVE  Kept
<1>1. /\ StoreIsSound /\ TypeOK /\ CommandsAreSound /\ PlayIsSound
      /\ owned' \in {Snapshot, Nothing}
      /\ UNCHANGED <<store, journal, call, finishing, play, updates, handed, history>>
  BY PartsOfIInv DEF StoreIInv, QueryPurchases
<1>2. owned' \in Snapshotted
  BY <1>1, SnapshotType, NothingIs
<1>3. PlayIsSound'
  BY <1>1, <1>2 DEF PlayIsSound, ProductsAreNamed
<1> QED
  BY <1>1, <1>3, StoreStays, CommandsStay, AllKept DEF store

\* What reconcile makes of the maps: no token is new, and what is durable stays.
LEMMA ReconciledIs ==
  ASSUME StoreIsSound, NEW snapshot \in Snapshotted
  PROVE  /\ ReconciledMaps(snapshot).deferred \in Correlations
         /\ ReconciledMaps(snapshot).completed \in Correlations
         /\ DOMAIN ReconciledMaps(snapshot).deferred
              \intersect DOMAIN ReconciledMaps(snapshot).completed = {}
         /\ DOMAIN ReconciledMaps(snapshot).deferred
              \union DOMAIN ReconciledMaps(snapshot).completed \subseteq Correlated
         /\ DurableTokens(ReconciledMaps(snapshot).deferred, ReconciledMaps(snapshot).completed)
              = Before
         /\ \A t \in DOMAIN ReconciledMaps(snapshot).deferred
                     \union DOMAIN ReconciledMaps(snapshot).completed :
              LET value == Value(ReconciledMaps(snapshot).deferred,
                                 ReconciledMaps(snapshot).completed, t)
              IN \/ t \in DOMAIN snapshot /\ value = Observed(t, snapshot)
                 \/ value = Existing(t)
<1> DEFINE seen == Correlated \intersect DOMAIN snapshot
           paying == {t \in seen : snapshot[t].state = "pending"}
           retried == {t \in Correlated \ seen :
                         t \in DOMAIN completedCorrelations \/ Existing(t).durable}
           Now(t) == IF t \in seen THEN Validated(Existing(t), snapshot[t].products)
                     ELSE Existing(t)
           completed == (seen \ paying) \union retried
           durable == {t \in Correlated : Existing(t).durable}
           d == [t \in paying |-> Now(t)]
           c == [t \in completed |-> Now(t)]
<1>1. ReconciledMaps(snapshot).deferred = d /\ ReconciledMaps(snapshot).completed = c
  BY DEF ReconciledMaps
<1>2. Correlated \subseteq Tokens
  BY CorrelationsAre DEF StoreIsSound, Correlated
<1>3. ASSUME NEW t \in Correlated
      PROVE  /\ Now(t) \in Correlation /\ (Now(t).durable <=> t \in durable)
             /\ \/ t \in DOMAIN snapshot /\ Now(t) = Observed(t, snapshot)
                \/ Now(t) = Existing(t)
  <2>1. Existing(t) \in Correlation
    BY ExistingType
  <2> QED
    BY <2>1, ValidatedIs DEF Observed
<1>4. /\ paying \subseteq Correlated /\ completed \subseteq Correlated
      /\ paying \intersect completed = {} /\ durable \subseteq paying \union completed
  OBVIOUS
<1>5. Before = durable
  BY DurableIsExisting DEF StoreIsSound, Before
<1> HIDE DEF Now, paying, completed
<1>6. d \in Correlations /\ c \in Correlations
  BY <1>2, <1>3, <1>4, CorrelationsAre
<1>7. DurableTokens(d, c) = durable
  BY <1>3, <1>4 DEF DurableTokens, Value
<1>8. \A t \in DOMAIN d \union DOMAIN c :
        \/ t \in DOMAIN snapshot /\ Value(d, c, t) = Observed(t, snapshot)
        \/ Value(d, c, t) = Existing(t)
  BY <1>3, <1>4 DEF Value
<1> HIDE DEF d, c
<1> QED
  BY <1>1, <1>4, <1>5, <1>6, <1>7, <1>8 DEF d, c

LEMMA QueryAnswersKeeps ==
  ASSUME StoreIInv, QueryAnswers
  PROVE  Kept
<1> DEFINE next == ReconciledMaps(owned)
           d == next.deferred
           c == next.completed
<1>1. /\ StoreIsSound /\ TypeOK /\ CommandsAreSound /\ PlayIsSound
      /\ owned \in Snapshotted /\ owned' = NONE
      /\ deferredPurchases' = d /\ completedCorrelations' = c
      /\ UNCHANGED <<purchases, call, finishing, play, updates, history>>
  BY PartsOfIInv DEF StoreIInv, PlayIsSound, QueryAnswers
<1>2. PICK ok \in BOOLEAN : /\ Persist(d, c, FALSE, ok)
                            /\ handed' = IF ok THEN handed \union Bought(owned) ELSE handed
  BY DEF QueryAnswers
<1>3. /\ d \in Correlations /\ c \in Correlations
      /\ DOMAIN d \intersect DOMAIN c = {}
      /\ DOMAIN d \union DOMAIN c \subseteq Correlated
      /\ DurableTokens(d, c) = Before
  BY <1>1, ReconciledIs
<1> HIDE DEF d, c
<1>4. /\ Cardinality(DOMAIN d \union DOMAIN c) <= Cardinality(Correlated)
      /\ Cardinality(DOMAIN d \union DOMAIN c) \in Nat /\ Cardinality(Correlated) \in Nat
  <2>1. Correlated \in SUBSET Tokens
    BY <1>1, CorrelatedIs
  <2>2. DOMAIN d \union DOMAIN c \in SUBSET Correlated
    BY <1>3
  <2> QED
    BY <2>1, <2>2, TokensCount
<1>5. Cardinality(Correlated) + (IF purchases = NONE THEN 0 ELSE 1) <= MaxCorrelated
  BY <1>1 DEF StoreIsSound, SlotIsReserved
<1>6. corrupt => purchases = NONE /\ DurableTokens(d, c) = {}
  BY <1>1, <1>3, UnreadableHasNoneDurable DEF StoreIsSound, ClosedIfUnreadable
<1>7. MayBecome(d, c)
  BY <1>1, <1>3, <1>4, <1>5, <1>6, CapacityIsNatural DEF MayBecome
<1>8. StoreIsSound' /\ corrupt' = corrupt
  BY <1>1, <1>2, <1>3, <1>7, PersistKeeps
<1>9. PlayIsSound'
  <2>1. Bought(owned) \subseteq Tokens
    BY <1>1, SnapshotsAre DEF Bought
  <2> QED
    BY <1>1, <1>2, <2>1 DEF PlayIsSound, ProductsAreNamed
<1> QED
  BY <1>1, <1>8, <1>9, CommandsStay, AllKept

\* The correlation of a finished transaction is removed from the journal first.
LEMMA FinishTransactionKeeps ==
  ASSUME StoreIInv, NEW t \in Tokens, FinishTransaction(t)
  PROVE  Kept
<1> DEFINE d == Without(deferredPurchases, {t})
           c == Without(completedCorrelations, {t})
           known == t \in Correlated /\ Existing(t).durable
<1>1. /\ StoreIsSound /\ TypeOK /\ CommandsAreSound /\ PlayIsSound
      /\ UNCHANGED <<purchases, call, owned, play, updates, handed>>
  BY PartsOfIInv DEF StoreIInv, FinishTransaction
<1>2. PICK ok \in BOOLEAN :
        /\ IF known THEN Persist(d, c, TRUE, ok) ELSE ok /\ UNCHANGED journal
        /\ IF ok
           THEN /\ deferredPurchases' = d /\ completedCorrelations' = c
                /\ finishing' = finishing \union {t}
                /\ history' = [history EXCEPT !.cleared = @ \union {t}]
           ELSE UNCHANGED <<deferredPurchases, completedCorrelations, finishing, history>>
  BY DEF FinishTransaction
<1>3. PlayIsSound'
  BY <1>1, <1>2 DEF PlayIsSound, ProductsAreNamed
<1>4. CommandsAreSound' /\ AnswersStay
  BY <1>1, CommandsStay
<1>5. /\ deferredPurchases \in Correlations /\ completedCorrelations \in Correlations
      /\ DOMAIN deferredPurchases \intersect DOMAIN completedCorrelations = {}
      /\ Correlated \in SUBSET Tokens
  BY <1>1, CorrelatedIs DEF StoreIsSound, SlotIsReserved
<1>6. /\ d \in Correlations /\ DOMAIN d = DOMAIN deferredPurchases \ {t}
      /\ \A s \in DOMAIN d : d[s] = deferredPurchases[s]
      /\ c \in Correlations /\ DOMAIN c = DOMAIN completedCorrelations \ {t}
      /\ \A s \in DOMAIN c : c[s] = completedCorrelations[s]
  <2>1. /\ d \in Correlations /\ DOMAIN d = DOMAIN deferredPurchases \ {t}
        /\ \A s \in DOMAIN deferredPurchases \ {t} : d[s] = deferredPurchases[s]
    BY <1>5, WithoutIs
  <2>2. /\ c \in Correlations /\ DOMAIN c = DOMAIN completedCorrelations \ {t}
        /\ \A s \in DOMAIN completedCorrelations \ {t} : c[s] = completedCorrelations[s]
    BY <1>5, WithoutIs
  <2> HIDE DEF d, c
  <2> QED
    BY <2>1, <2>2
<1> HIDE DEF d, c
<1>7. /\ DOMAIN d \intersect DOMAIN c = {}
      /\ DOMAIN d \union DOMAIN c = Correlated \ {t}
      /\ DOMAIN d \union DOMAIN c \in SUBSET Correlated
      /\ \A s \in Correlated \ {t} : Value(d, c, s) = Existing(s)
  BY <1>5, <1>6 DEF Correlated, Value, Existing
<1>8. Before = {s \in Correlated : Existing(s).durable}
  BY <1>1, DurableIsExisting DEF StoreIsSound, Before
<1>9. DurableTokens(d, c) = Before \ {t}
  BY <1>7, <1>8 DEF DurableTokens
<1>10. MayBecome(d, c)
  <2>1. /\ Cardinality(DOMAIN d \union DOMAIN c) <= Cardinality(Correlated)
        /\ Cardinality(DOMAIN d \union DOMAIN c) \in Nat /\ Cardinality(Correlated) \in Nat
    BY <1>5, <1>7, TokensCount
  <2>2. Cardinality(Correlated) + (IF purchases = NONE THEN 0 ELSE 1) <= MaxCorrelated
    BY <1>1 DEF StoreIsSound, SlotIsReserved
  <2>3. corrupt => purchases = NONE /\ DurableTokens(d, c) = {}
    BY <1>1, <1>9, UnreadableHasNoneDurable DEF StoreIsSound, ClosedIfUnreadable
  <2> QED
    BY <1>1, <1>6, <1>7, <2>1, <2>2, <2>3, CapacityIsNatural DEF MayBecome
<1>11. CASE ~known
  <2>1. deferredPurchases' = d /\ completedCorrelations' = c /\ UNCHANGED journal
    BY <1>2, <1>11
  <2>2. t \notin Before
    BY <1>8, <1>11
  <2>3. DurableTokens(d, c) = Before
    BY <1>9, <2>2
  <2>4. \A s \in Before : Value(d, c, s) = Value(deferredPurchases, completedCorrelations, s)
    BY <1>1, <1>7, <1>8, <2>2, ExistingIs DEF StoreIsSound
  <2>5. Durable(d, c) = Durable(deferredPurchases, completedCorrelations)
    BY <2>3, <2>4, SameDurable DEF Before
  <2>6. StoreIsSound' /\ corrupt' = corrupt
    BY <1>1, <1>10, <2>1, <2>5, UnwrittenKeeps
  <2> QED
    BY <1>3, <1>4, <2>6, AllKept
<1>12. CASE known
  <2>1. t \in Before
    BY <1>8, <1>12
  <2>2. ~corrupt
    BY <1>1, <2>1, UnreadableHasNoneDurable
  <2>3. /\ metadataPersistenceFailed' = ~ok
        /\ \/ ok /\ disk' = Durable(d, c) /\ corrupt' = FALSE /\ UNCHANGED faults
           \/ ~ok /\ faults < MaxFaults /\ faults' = faults + 1 /\ UNCHANGED <<disk, corrupt>>
    BY <1>2, <1>12 DEF Persist, NothingToWrite, FailedAfter
  <2>4. corrupt' = corrupt /\ corrupt' = FALSE
    BY <1>1, <2>2, <2>3 DEF StoreIsSound
  <2>5. faults' \in 0..MaxFaults
    BY <1>1, <2>3, BoundsAssumption DEF StoreIsSound
  <2>6. CASE ok
    <3>1. deferredPurchases' = d /\ completedCorrelations' = c /\ disk' = Durable(d, c)
      BY <1>2, <2>3, <2>6
    <3>2. SlotIsReserved' /\ ClosedIfUnreadable'
      BY <1>10, <2>4, <3>1, MapsFollow
    <3>3. JournalIsCurrent'
      BY <2>3, <2>4, <2>6, <3>1 DEF JournalIsCurrent
    <3>4. disk' \in Correlations /\ JournalFits'
      BY <1>10, <3>1, WrittenFits DEF JournalFits
    <3>5. StoreIsSound'
      BY <1>6, <2>3, <2>4, <2>5, <3>1, <3>2, <3>3, <3>4 DEF StoreIsSound
    <3> QED
      BY <1>3, <1>4, <2>4, <3>5, AllKept
  <2>7. CASE ~ok
    <3>1. UNCHANGED <<deferredPurchases, completedCorrelations, disk, purchases>>
      BY <1>1, <1>2, <2>3, <2>7
    <3>2. SlotIsReserved'
      BY <1>1, <3>1 DEF StoreIsSound, SlotIsReserved, Correlated
    <3>3. ClosedIfUnreadable'
      BY <2>4 DEF ClosedIfUnreadable
    <3>4. JournalIsCurrent'
      BY <2>1, <2>3, <2>7, <3>1, DurableIs DEF JournalIsCurrent, Before
    <3>5. StoreIsSound'
      BY <1>1, <2>3, <2>4, <2>5, <2>7, <3>1, <3>2, <3>3, <3>4 DEF StoreIsSound, JournalFits
    <3> QED
      BY <1>3, <1>4, <2>4, <3>5, AllKept
  <2> QED
    BY <2>6, <2>7
<1> QED
  BY <1>11, <1>12

\* The app starts again: what the journal holds is what the store knows.
LEMMA RestartKeeps ==
  ASSUME StoreIInv, Restart
  PROVE  Kept
<1>1. /\ StoreIsSound /\ TypeOK /\ CommandsAreSound /\ PlayIsSound
      /\ purchases' = NONE /\ deferredPurchases' = Nothing
      /\ owned' = NONE /\ finishing' = {} /\ updates' = {} /\ UNCHANGED <<play, handed>>
      /\ history' = [history EXCEPT !.crashes = @ + 1] /\ history.crashes < MaxCrashes
  BY PartsOfIInv DEF StoreIInv, Restart
<1>2. PlayIsSound'
  <2>1. history' \in [crashes : 0..MaxCrashes, gifts : 0..MaxGifts, cleared : SUBSET Tokens,
                      older : [Calls -> SUBSET Tokens]]
    BY <1>1, BoundsAssumption DEF PlayIsSound
  <2> QED
    BY <1>1, <2>1 DEF PlayIsSound, ProductsAreNamed
<1>3. CommandsAreSound' /\ AnswersStay
  <2> DEFINE New(c) == IF call[c].at = "idle" \/ (call[c].answer # NONE /\ call[c].at # "registered")
                       THEN call[c]
                       ELSE [call[c] EXCEPT !.at = IF @ = "open" THEN @ ELSE "done",
                                            !.answer = IF @ = NONE THEN "lost" ELSE @,
                                            !.snapshot = Nothing]
  <2>1. call' = [c \in Calls |-> New(c)]
    BY DEF Restart
  <2>2. ASSUME NEW c \in Calls
        PROVE  /\ New(c) \in Command
               /\ call[c].answer # NONE => New(c).answer = call[c].answer
               /\ New(c).at \in BeforeRegister => New(c).answer = NONE
               /\ New(c).at # "idle" => New(c).product \in Products
    <3>1. call[c] \in Command /\ (call[c].at # "idle" => call[c].product \in Products)
          /\ (call[c].at \in BeforeRegister => call[c].answer = NONE)
      BY <1>1 DEF CommandsAreSound, CallbacksAreDue, CommandsNameProducts, BeforeRegister
    <3>2. CASE call[c].at = "idle" \/ (call[c].answer # NONE /\ call[c].at # "registered")
      BY <3>1, <3>2
    <3>3. CASE ~(call[c].at = "idle" \/ (call[c].answer # NONE /\ call[c].at # "registered"))
      <4> DEFINE at == IF call[c].at = "open" THEN "open" ELSE "done"
                 answer == IF call[c].answer = NONE THEN "lost" ELSE call[c].answer
                 new == [call[c] EXCEPT !.at = at, !.answer = answer, !.snapshot = Nothing]
      <4>1. New(c) = new
        BY <3>3
      <4>2. at \in Stages /\ at \notin BeforeRegister
        BY DEF Stages, BeforeRegister
      <4>3. answer \in Tokens \union {NONE, "rejected", "lost"}
            /\ (call[c].answer # NONE => answer = call[c].answer)
        BY <3>1 DEF Command
      <4> HIDE DEF at, answer
      <4>4. new \in Command /\ new.at = at /\ new.answer = answer /\ new.product = call[c].product
        BY <3>1, <4>2, <4>3, NothingIs DEF Command
      <4> HIDE DEF new, New
      <4> QED
        BY <3>1, <3>3, <4>1, <4>2, <4>3, <4>4
    <3> QED
      BY <3>2, <3>3
  <2> HIDE DEF New
  <2>3. call' \in [Calls -> Command] /\ \A c \in Calls : call'[c] = New(c)
    BY <2>1, <2>2
  <2>4. CallbacksAreDue' /\ CommandsNameProducts' /\ AnswersStay
    BY <1>1, <2>2, <2>3 DEF CallbacksAreDue, CommandsNameProducts, AnswersStay, BeforeRegister
  <2> QED
    BY <1>1, <2>3, <2>4 DEF CommandsAreSound
<1>4. CASE /\ completedCorrelations' = disk /\ ~corrupt
           /\ metadataPersistenceFailed' = FALSE
           /\ UNCHANGED <<disk, corrupt, faults>>
  <2>1. /\ disk \in Correlations /\ Cardinality(DOMAIN disk) <= MaxCorrelated
        /\ \A t \in DOMAIN disk : disk[t].durable
    BY <1>1 DEF StoreIsSound, JournalFits
  <2>2. DOMAIN disk \in SUBSET Tokens
    BY <2>1, CorrelationsAre
  <2>3. Correlated' = DOMAIN disk
    BY <1>1, <1>4, NothingIs DEF Correlated
  <2>4. SlotIsReserved'
    <3>1. Cardinality(DOMAIN disk) \in Nat
      BY <2>2, TokensCount
    <3> QED
      BY <1>1, <1>4, <2>1, <2>3, <3>1, NothingIs, CapacityIsNatural DEF SlotIsReserved
  <2>5. Durable(Nothing, disk) = disk
    <3>1. DurableTokens(Nothing, disk) = DOMAIN disk
      BY <2>1, NothingIs DEF DurableTokens, Value
    <3>2. \A t \in DOMAIN disk : Value(Nothing, disk, t) = disk[t]
      BY DEF Value
    <3>3. Durable(Nothing, disk) = [t \in DOMAIN disk |-> disk[t]]
      BY <3>1, <3>2, DurableIs
    <3>4. disk \in [DOMAIN disk -> Correlation]
      BY <2>1, CorrelationsAre
    <3> QED
      BY <3>3, <3>4
  <2>6. JournalIsCurrent'
    BY <1>1, <1>4, <2>5 DEF JournalIsCurrent
  <2>7. JournalFits' /\ ClosedIfUnreadable'
    BY <1>4, <2>1 DEF JournalFits, ClosedIfUnreadable
  <2>8. StoreIsSound'
    BY <1>1, <1>4, <2>1, <2>4, <2>6, <2>7, NothingIs DEF StoreIsSound
  <2> QED
    BY <1>2, <1>3, <1>4, <2>8, AllKept
<1>5. CASE /\ \/ corrupt /\ UNCHANGED faults
              \/ ~corrupt /\ faults < MaxFaults /\ faults' = faults + 1
           /\ completedCorrelations' = Nothing /\ disk' = Nothing
           /\ metadataPersistenceFailed' = TRUE /\ corrupt' = TRUE
  <2>1. Correlated' = {} /\ Cardinality({}) = 0
    BY <1>1, <1>5, NothingIs, FS_EmptySet DEF Correlated
  <2>2. SlotIsReserved'
    BY <1>1, <1>5, <2>1, NothingIs, CapacityIsNatural DEF SlotIsReserved
  <2>3. JournalIsCurrent' /\ ClosedIfUnreadable'
    BY <1>1, <1>5, <2>1 DEF JournalIsCurrent, ClosedIfUnreadable
  <2>4. JournalFits'
    BY <1>5, <2>1, NothingIs, CapacityIsNatural DEF JournalFits
  <2>5. faults' \in 0..MaxFaults
    BY <1>1, <1>5, BoundsAssumption DEF StoreIsSound
  <2>6. StoreIsSound'
    BY <1>1, <1>5, <2>2, <2>3, <2>4, <2>5, NothingIs DEF StoreIsSound
  <2> QED
    BY <1>2, <1>3, <1>5, <2>6, AllKept
<1> QED
  BY <1>4, <1>5 DEF Restart, Unreadable

-----------------------------------------------------------------------------
(* The theorems *)

LEMMA InitSound == Init => StoreIInv
<1> SUFFICES ASSUME Init PROVE StoreIInv
  OBVIOUS
<1>1. /\ purchases = NONE /\ deferredPurchases = Nothing /\ completedCorrelations = Nothing
      /\ metadataPersistenceFailed = FALSE /\ disk = Nothing /\ corrupt = FALSE /\ faults = 0
      /\ owned = NONE /\ finishing = {} /\ handed = {} /\ updates = {}
  BY DEF Init
<1>2. Correlated = {} /\ Cardinality({}) = 0 /\ DOMAIN disk = {}
  BY <1>1, NothingIs, FS_EmptySet DEF Correlated
<1>3. Durable(Nothing, Nothing) = Nothing
  <2>1. DurableTokens(Nothing, Nothing) = {}
    BY NothingIs DEF DurableTokens
  <2>2. Durable(Nothing, Nothing) = [t \in {} |-> Value(Nothing, Nothing, t)]
    BY <2>1, DurableIs
  <2> QED
    BY <2>2 DEF Nothing
<1>4. StoreIsSound
  <2>1. SlotIsReserved
    BY <1>1, <1>2, NothingIs, CapacityIsNatural DEF SlotIsReserved
  <2>2. JournalIsCurrent
    BY <1>1, <1>3 DEF JournalIsCurrent
  <2>3. JournalFits /\ ClosedIfUnreadable
    BY <1>1, <1>2, CapacityIsNatural DEF JournalFits, ClosedIfUnreadable
  <2> QED
    <3>1. faults \in 0..MaxFaults
      BY <1>1, BoundsAssumption
    <3>2. metadataPersistenceFailed \in BOOLEAN /\ corrupt \in BOOLEAN
      BY <1>1
    <3>3. /\ deferredPurchases \in Correlations /\ completedCorrelations \in Correlations
          /\ disk \in Correlations
      BY <1>1, NothingIs
    <3> QED
      BY <2>1, <2>2, <2>3, <3>1, <3>2, <3>3 DEF StoreIsSound
<1>5. CommandsAreSound
  <2> DEFINE idle == [at |-> "idle", product |-> NONE, context |-> NONE,
                      snapshot |-> Nothing, answer |-> NONE]
  <2>1. idle \in Command /\ idle.at = "idle" /\ idle.answer = NONE
    BY NothingIs DEF Command, Stages
  <2>2. call = [c \in Calls |-> idle]
    BY DEF Init
  <2> HIDE DEF idle
  <2>3. call \in [Calls -> Command] /\ \A c \in Calls : call[c] = idle
    BY <2>1, <2>2
  <2> QED
    BY <1>1, <2>1, <2>3 DEF CommandsAreSound, CallbacksAreDue, CommandsNameProducts, BeforeRegister
<1>6. PlayIsSound
  <2>1. play \in [Tokens -> Payment] /\ ProductsAreNamed
    BY DEF Init, Payment, PlayStates, ProductsAreNamed
  <2>2. history \in [crashes : 0..MaxCrashes, gifts : 0..MaxGifts, cleared : SUBSET Tokens,
                     older : [Calls -> SUBSET Tokens]]
    BY BoundsAssumption DEF Init
  <2> QED
    BY <1>1, <2>1, <2>2 DEF PlayIsSound
<1> QED
  BY <1>4, <1>5, <1>6, PartsOfIInv

LEMMA StutterKeeps ==
  ASSUME StoreIInv, UNCHANGED vars
  PROVE  Kept
<1>1. StoreIsSound /\ TypeOK /\ CommandsAreSound /\ PlayIsSound
      /\ UNCHANGED <<store, journal, call, owned, finishing, play, updates, handed, history>>
  BY PartsOfIInv DEF StoreIInv, vars
<1> QED
  BY <1>1, StoreStays, CommandsStay, PlayStays, AllKept DEF store

LEMMA NextKeeps ==
  ASSUME StoreIInv, [Next]_vars
  PROVE  Kept
<1>1. ASSUME NEW c \in Calls,
             \/ Purchase(c) \/ Snapshots(c) \/ PrepareForPurchase(c)
             \/ Register(c) \/ Launch(c) \/ SheetCloses(c)
      PROVE  Kept
  BY <1>1, PurchaseKeeps, SnapshotsKeeps, PrepareForPurchaseKeeps, RegisterKeeps, LaunchKeeps,
     SheetClosesKeeps
<1>2. ASSUME NEW t \in Tokens,
             \/ \E p \in Products : Gift(t, p)
             \/ PaymentCompletes(t) \/ PaymentCancelled(t)
             \/ FinishTransaction(t) \/ PlayFinishes(t)
      PROVE  Kept
  BY <1>2, GiftKeeps, PaymentCompletesKeeps, PaymentCancelledKeeps, FinishTransactionKeeps,
     PlayFinishesKeeps
<1>3. ASSUME NEW u \in updates, Hears(u) PROVE Kept
  BY <1>3, HearPurchasedKeeps, HearPendingKeeps, HearFailureKeeps DEF Hears
<1>4. CASE QueryPurchases \/ QueryAnswers \/ Restart
  BY <1>4, QueryPurchasesKeeps, QueryAnswersKeeps, RestartKeeps
<1>5. CASE UNCHANGED vars
  BY <1>5, StutterKeeps
<1> QED
  BY <1>1, <1>2, <1>3, <1>4, <1>5 DEF Next

\* In every state the journal holds exactly the durable correlations unless a write has
\* failed since, the store keeps a place free for the purchase whose sheet is open, and over
\* an unreadable journal it takes no purchase (PendingPurchaseStore.kt:257).
THEOREM InvariantHolds == Spec => []StoreIInv
<1>1. StoreIInv /\ [Next]_vars => StoreIInv'
  BY NextKeeps DEF Kept
<1> QED
  BY <1>1, InitSound, PTL DEF Spec

\* No write replaces a journal that cannot be read (PendingPurchaseStore.kt:522): each of
\* them would write a durable correlation, and the closed store has none.
THEOREM JournalIsKept == Spec => UnreadableJournalIsKept
<1>1. StoreIInv /\ [Next]_vars => [corrupt => corrupt']_vars
  BY NextKeeps DEF Kept
<1> QED
  BY <1>1, InvariantHolds, PTL DEF Spec, UnreadableJournalIsKept

\* No callback is called twice, whatever Play announces and in whatever order.
THEOREM CalledOnce == Spec => AnsweredOnce
<1>1. StoreIInv /\ [Next]_vars
        => [\A c \in Calls : call[c].answer # NONE => call'[c].answer = call[c].answer]_vars
  BY NextKeeps DEF Kept, AnswersStay
<1> QED
  BY <1>1, InvariantHolds, PTL DEF Spec, AnsweredOnce
=============================================================================

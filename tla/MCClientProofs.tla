--------------------------- MODULE MCClientProofs ---------------------------
(***************************************************************************)
(* Proofs about the parts of MCClient, one section for each, for any       *)
(* users, callers, queue sizes and so on.  A step belongs to one part, and *)
(* the others stand still, so each part has an inductive invariant of its  *)
(* own.  As in MCClient, the variables of a part are the first of s1 to    *)
(* s13; the head of each section says what they stand for.                 *)
(***************************************************************************)
EXTENDS MCClient, FiniteSetTheorems, SequenceTheorems, WellFoundedInduction, TLAPS

-----------------------------------------------------------------------------
(* Diagnostics.  s1: entries, s2: failures, s3: syncing, s4: flush,        *)
(* s5: owed, s6: tracked, s7: received, s8: dropped                        *)

Elements(queue) == {queue[i] : i \in DOMAIN queue}

LEMMA ElementsAppend ==
  ASSUME NEW S, NEW queue \in Seq(S), NEW e \in S
  PROVE  Elements(Append(queue, e)) = Elements(queue) \union {e}
<1>1. /\ Append(queue, e) \in Seq(S) /\ Len(Append(queue, e)) = Len(queue) + 1
      /\ \A i \in 1..Len(queue) : Append(queue, e)[i] = queue[i]
      /\ Append(queue, e)[Len(queue) + 1] = e
  BY AppendProperties
<1>2. /\ DOMAIN queue = 1..Len(queue) /\ Len(queue) \in Nat
      /\ DOMAIN Append(queue, e) = 1..(Len(queue) + 1)
  BY <1>1
<1> QED
  BY <1>1, <1>2 DEF Elements

LEMMA ElementsConcat ==
  ASSUME NEW S, NEW p \in Seq(S), NEW q \in Seq(S)
  PROVE  Elements(p) \union Elements(q) \subseteq Elements(p \o q)
<1>1. /\ p \o q \in Seq(S) /\ Len(p \o q) = Len(p) + Len(q)
      /\ \A i \in 1..(Len(p) + Len(q)) :
           (p \o q)[i] = IF i <= Len(p) THEN p[i] ELSE q[i - Len(p)]
  BY ConcatProperties
<1>2. /\ DOMAIN p = 1..Len(p) /\ DOMAIN q = 1..Len(q) /\ Len(p) \in Nat /\ Len(q) \in Nat
      /\ DOMAIN (p \o q) = 1..(Len(p) + Len(q))
  BY <1>1
<1>3. ASSUME NEW i \in 1..Len(p)
      PROVE  i \in DOMAIN (p \o q) /\ (p \o q)[i] = p[i]
  BY <1>1, <1>2
<1>4. ASSUME NEW i \in 1..Len(q)
      PROVE  i + Len(p) \in DOMAIN (p \o q) /\ (p \o q)[i + Len(p)] = q[i]
  BY <1>1, <1>2
<1> QED
  BY <1>2, <1>3, <1>4 DEF Elements

LEMMA ElementsSplit ==
  ASSUME NEW S, NEW queue \in Seq(S), NEW k \in 0..Len(queue)
  PROVE  /\ SubSeq(queue, 1, k) \in Seq(S) /\ Len(SubSeq(queue, 1, k)) = k
         /\ SubSeq(queue, k + 1, Len(queue)) \in Seq(S)
         /\ Len(SubSeq(queue, k + 1, Len(queue))) = Len(queue) - k
         /\ Elements(queue) \subseteq
              Elements(SubSeq(queue, 1, k)) \union Elements(SubSeq(queue, k + 1, Len(queue)))
<1>1. /\ DOMAIN queue = 1..Len(queue) /\ Len(queue) \in Nat
      /\ \A i \in 1..Len(queue) : queue[i] \in S
  BY ElementOfSeq
<1>2. /\ SubSeq(queue, 1, k) \in Seq(S) /\ Len(SubSeq(queue, 1, k)) = k
      /\ \A i \in 1..k : SubSeq(queue, 1, k)[i] = queue[i]
  <2>1. /\ SubSeq(queue, 1, k) \in Seq(S)
        /\ Len(SubSeq(queue, 1, k)) = IF 1 <= k THEN k - 1 + 1 ELSE 0
        /\ \A i \in 1..(k - 1 + 1) : SubSeq(queue, 1, k)[i] = queue[1 + i - 1]
    BY <1>1, SubSeqProperties
  <2> QED
    BY <2>1, <1>1
<1>3. /\ SubSeq(queue, k + 1, Len(queue)) \in Seq(S)
      /\ Len(SubSeq(queue, k + 1, Len(queue))) = Len(queue) - k
      /\ \A i \in 1..(Len(queue) - k) : SubSeq(queue, k + 1, Len(queue))[i] = queue[k + i]
  <2>1. /\ SubSeq(queue, k + 1, Len(queue)) \in Seq(S)
        /\ Len(SubSeq(queue, k + 1, Len(queue)))
             = IF k + 1 <= Len(queue) THEN Len(queue) - (k + 1) + 1 ELSE 0
        /\ \A i \in 1..(Len(queue) - (k + 1) + 1) :
             SubSeq(queue, k + 1, Len(queue))[i] = queue[(k + 1) + i - 1]
    BY <1>1, SubSeqProperties
  <2> QED
    BY <2>1, <1>1
<1> DEFINE front == SubSeq(queue, 1, k)
           back == SubSeq(queue, k + 1, Len(queue))
<1> HIDE DEF front, back
<1>4. /\ front \in Seq(S) /\ Len(front) = k /\ DOMAIN front = 1..k
      /\ \A i \in 1..k : front[i] = queue[i]
  BY <1>2 DEF front
<1>5. /\ back \in Seq(S) /\ DOMAIN back = 1..(Len(queue) - k)
      /\ \A i \in 1..(Len(queue) - k) : back[i] = queue[k + i]
  <2>1. back \in Seq(S) /\ Len(back) = Len(queue) - k
    BY <1>3 DEF back
  <2>2. DOMAIN back = 1..Len(back)
    BY <2>1
  <2> QED
    BY <1>3, <2>1, <2>2 DEF back
<1>6. ASSUME NEW i \in 1..Len(queue)
      PROVE  queue[i] \in Elements(front) \union Elements(back)
  <2>1. CASE i <= k
    BY <2>1, <1>4 DEF Elements
  <2>2. CASE ~(i <= k)
    <3>1. i - k \in 1..(Len(queue) - k) /\ k + (i - k) = i
      BY <2>2, <1>1
    <3>2. i - k \in DOMAIN back /\ back[i - k] = queue[i]
      BY <3>1, <1>5
    <3> QED
      BY <3>2 DEF Elements
  <2> QED
    BY <2>1, <2>2
<1>7. Elements(queue) \subseteq Elements(front) \union Elements(back)
  BY <1>1, <1>6 DEF Elements
<1> QED
  BY <1>2, <1>3, <1>7 DEF front, back

\* A batch is only out while its flush posts it, and then the queue has room for it:
\* what was tracked meanwhile stops at the limit.
BatchLeavesRoom ==
  \A f \in Callers :
    /\ s4[f].at = "posting" => Len(s4[f].batch) <= BatchSize /\ Len(s1) <= MaxStored
    /\ s4[f].at # "posting" => s4[f].batch = <<>>

EventsIInv == Events!TypeOK /\ Events!EventsAreAccountedFor /\ BatchLeavesRoom

LEMMA EventsTypes ==
  /\ \A n \in 1..MaxEvents : Events!Event(n) \in Events!Entry
  /\ \A m \in Events!Markers : m \in Events!Entry
  /\ Events!Overflowed \in Events!Markers
  /\ Events!Resting \in [at : Events!Places, batch : Seq(Events!Entry), marker : Events!Markers]
  /\ Events!Resting.at = "idle" /\ Events!Resting.batch = <<>>
BY DEF Events!Entry, Events!Markers, Events!Resting, Events!Places, Events!Cleared,
       Events!Overflowed, Events!RetriesReached

LEMMA EverywhereIs ==
  /\ Events!Everywhere
       = Elements(s1) \union s7 \union UNION {Elements(s4[f].batch) : f \in Callers}
  /\ Events!Everywhere'
       = Elements(s1') \union s7' \union UNION {Elements(s4'[f].batch) : f \in Callers}
BY DEF Events!Everywhere, Elements

\* What is tracked goes to the end of the queue, or a full queue is cleared.
LEMMA TrackedIs ==
  ASSUME s1 \in Seq(Events!Entry), NEW e \in Events!Entry
  PROVE  LET q == Events!Tracked(s1, e) IN
         /\ q \in Seq(Events!Entry)
         /\ Len(q) <= MaxStored \/ Len(q) <= Len(s1)
         /\ Len(s1) <= MaxStored => Len(q) <= MaxStored
         /\ \/ Events!Overflows(s1) = 1
            \/ Events!Overflows(s1) = 0 /\ Elements(q) = Elements(s1) \union {e}
<1>1. Append(s1, e) \in Seq(Events!Entry) /\ Len(Append(s1, e)) = Len(s1) + 1
      /\ Elements(Append(s1, e)) = Elements(s1) \union {e}
  BY AppendProperties, ElementsAppend
<1>2. Len(s1) \in Nat
  OBVIOUS
<1> QED
  BY <1>1, <1>2, QueueAssumption, EmptySeq DEF Events!Tracked, Events!Overflows

\* Nothing that was somewhere is lost, or the loss is about to be announced.
LEMMA StillAnnounced ==
  ASSUME EventsIInv, s6' = s6, s8 => s8',
         Events!Everywhere \subseteq Events!Everywhere'
           \/ s5' > 0 \/ s8' \/ \E f \in Callers : s4'[f].at \in {"resetting", "marking"},
         s5 > 0 => s5' > 0 \/ Events!Markers \intersect Events!Everywhere' # {},
         \A f \in Callers : s4[f].at \in {"resetting", "marking"} =>
           \/ s4'[f].at \in {"resetting", "marking"} \/ s5' > 0
           \/ Events!Markers \intersect Events!Everywhere' # {}
  PROVE  Events!LossesAreAnnounced'
BY DEF EventsIInv, Events!EventsAreAccountedFor, Events!LossesAreAnnounced, Events!Event,
       Events!Markers, Events!Cleared, Events!Overflowed, Events!RetriesReached, Events!Marker

\* The parts of the invariant, for the proofs of the steps.
LEMMA EventsParts ==
  /\ EventsIInv =>
       /\ s1 \in Seq(Events!Entry) /\ Len(s1) \in Nat /\ s2 \in Nat /\ s3 \in BOOLEAN
       /\ s4 \in [Callers -> [at : Events!Places, batch : Seq(Events!Entry),
                              marker : Events!Markers]]
       /\ s5 \in Nat /\ s6 \in 0..MaxEvents /\ s7 \subseteq Events!Entry /\ s8 \in BOOLEAN
       /\ Events!TypeOK /\ Events!QueueIsBounded /\ Events!SyncHasOneOwner
       /\ Events!LossesAreAnnounced /\ BatchLeavesRoom
  /\ Events!TypeOK' /\ Events!QueueIsBounded' /\ Events!SyncHasOneOwner'
       /\ Events!LossesAreAnnounced' /\ BatchLeavesRoom' => EventsIInv'
BY DEF EventsIInv, Events!TypeOK, Events!EventsAreAccountedFor

LEMMA TrackRequestKeeps ==
  ASSUME EventsIInv, Events!TrackRequest
  PROVE  EventsIInv'
<1> DEFINE e == Events!Event(s6 + 1)
<1>1. /\ s6 < MaxEvents /\ s6' = s6 + 1 /\ s1' = Events!Tracked(s1, e)
      /\ s5' = s5 + Events!Overflows(s1)
      /\ s2' = s2 /\ s3' = s3 /\ s4' = s4 /\ s7' = s7 /\ s8' = s8
  BY DEF Events!TrackRequest
<1>2. e \in Events!Entry /\ s6' \in 0..MaxEvents
  BY <1>1, EventsParts, EventsTypes, QueueAssumption
<1> HIDE DEF e
<1>3. /\ s1' \in Seq(Events!Entry) /\ Len(s1') \in Nat
      /\ Len(s1') <= MaxStored \/ Len(s1') <= Len(s1)
      /\ Len(s1) <= MaxStored => Len(s1') <= MaxStored
      /\ \/ Events!Overflows(s1) = 1
         \/ Events!Overflows(s1) = 0 /\ Elements(s1') = Elements(s1) \union {e}
  BY <1>1, <1>2, EventsParts, TrackedIs
<1>4. s5' \in Nat /\ s5' >= s5
  BY <1>1, <1>3, EventsParts
<1>5. Events!TypeOK'
  BY <1>1, <1>2, <1>3, <1>4, EventsParts DEF Events!TypeOK
<1>6. Events!QueueIsBounded'
  BY <1>3, EventsParts, QueueAssumption DEF Events!QueueIsBounded
<1>7. Events!SyncHasOneOwner'
  BY <1>1, EventsParts DEF Events!SyncHasOneOwner, Events!Holding
<1>8. Events!LossesAreAnnounced'
  <2>1. CASE Events!Overflows(s1) = 1
    BY <2>1, <1>1, EventsParts DEF Events!LossesAreAnnounced
  <2>2. CASE Events!Overflows(s1) = 0 /\ Elements(s1') = Elements(s1) \union {e}
    <3>1. Events!Everywhere' = Events!Everywhere \union {e}
      BY <2>2, <1>1, EverywhereIs
    <3>2. {Events!Event(n) : n \in 1..s6'} = {Events!Event(n) : n \in 1..s6} \union {e}
      BY <1>1, EventsParts DEF e
    <3>3. s5' = s5 /\ Events!LossesAreAnnounced
      BY <2>2, <1>1, EventsParts
    <3> QED
      BY <3>1, <3>2, <3>3, <1>1 DEF Events!LossesAreAnnounced
  <2> QED
    BY <2>1, <2>2, <1>3
<1>9. BatchLeavesRoom'
  BY <1>1, <1>3, EventsParts DEF BatchLeavesRoom
<1> QED
  BY <1>5, <1>6, <1>7, <1>8, <1>9, EventsParts

\* A marker is tracked: it is in the queue, or owed.
LEMMA MarkerTracked ==
  ASSUME EventsIInv, NEW marker \in Events!Markers, s1' = Events!Tracked(s1, marker)
  PROVE  /\ s1' \in Seq(Events!Entry) /\ Events!QueueIsBounded'
         /\ Len(s1) <= MaxStored => Len(s1') <= MaxStored
         /\ Events!Overflows(s1) \in {0, 1}
         /\ Events!Overflows(s1) = 0 => Events!Markers \intersect Events!Everywhere' # {}
<1>1. /\ s1' \in Seq(Events!Entry) /\ Len(s1') \in Nat
      /\ Len(s1') <= MaxStored \/ Len(s1') <= Len(s1)
      /\ Len(s1) <= MaxStored => Len(s1') <= MaxStored
      /\ \/ Events!Overflows(s1) = 1
         \/ Events!Overflows(s1) = 0 /\ Elements(s1') = Elements(s1) \union {marker}
  BY EventsParts, EventsTypes, TrackedIs
<1>2. Events!QueueIsBounded'
  BY <1>1, EventsParts, QueueAssumption DEF Events!QueueIsBounded
<1>3. Elements(s1') \subseteq Events!Everywhere'
  BY EverywhereIs
<1> QED
  BY <1>1, <1>2, <1>3

LEMMA TrackOverflowKeeps ==
  ASSUME EventsIInv, Events!TrackOverflow
  PROVE  EventsIInv'
<1>1. /\ s5 > 0 /\ s5' = s5 - 1 + Events!Overflows(s1)
      /\ s1' = Events!Tracked(s1, Events!Overflowed)
      /\ s2' = s2 /\ s3' = s3 /\ s4' = s4 /\ s6' = s6 /\ s7' = s7 /\ s8' = s8
  BY DEF Events!TrackOverflow
<1>2. /\ s1' \in Seq(Events!Entry) /\ Events!QueueIsBounded'
      /\ Len(s1) <= MaxStored => Len(s1') <= MaxStored
      /\ Events!Overflows(s1) \in {0, 1}
      /\ Events!Overflows(s1) = 0 => Events!Markers \intersect Events!Everywhere' # {}
  BY <1>1, EventsTypes, MarkerTracked
<1>3. s5' \in Nat /\ (Events!Overflows(s1) = 1 => s5' > 0)
  BY <1>1, <1>2, EventsParts
<1>4. Events!TypeOK'
  BY <1>1, <1>2, <1>3, EventsParts DEF Events!TypeOK
<1>5. Events!SyncHasOneOwner'
  BY <1>1, EventsParts DEF Events!SyncHasOneOwner, Events!Holding
<1>6. Events!LossesAreAnnounced'
  BY <1>2, <1>3 DEF Events!LossesAreAnnounced
<1>7. BatchLeavesRoom'
  BY <1>1, <1>2, EventsParts DEF BatchLeavesRoom
<1> QED
  BY <1>2, <1>4, <1>5, <1>6, <1>7, EventsParts

LEMMA ClaimSyncKeeps ==
  ASSUME EventsIInv, NEW f \in Callers, Events!ClaimSync(f)
  PROVE  EventsIInv'
<1>1. /\ s4[f].at = "idle" /\ ~s3 /\ s3' = TRUE
      /\ s4' = [s4 EXCEPT ![f].at = "claimed"]
      /\ s1' = s1 /\ s2' = s2 /\ s5' = s5 /\ s6' = s6 /\ s7' = s7 /\ s8' = s8
  BY DEF Events!ClaimSync
<1>2. /\ s4'[f].at = "claimed" /\ s4'[f].batch = s4[f].batch
      /\ \A g \in Callers \ {f} : s4'[g] = s4[g]
      /\ s4' \in [Callers -> [at : Events!Places, batch : Seq(Events!Entry),
                              marker : Events!Markers]]
  BY <1>1, EventsParts DEF Events!Places
<1>3. Events!TypeOK'
  BY <1>1, <1>2, EventsParts DEF Events!TypeOK
<1>4. Events!QueueIsBounded'
  BY <1>1, EventsParts DEF Events!QueueIsBounded
<1>5. Events!SyncHasOneOwner'
  BY <1>1, <1>2, EventsParts DEF Events!SyncHasOneOwner, Events!Holding
<1>6. Events!Everywhere \subseteq Events!Everywhere'
  BY <1>1, <1>2, EverywhereIs
<1>7. Events!LossesAreAnnounced'
  BY <1>1, <1>2, <1>6, StillAnnounced
<1>8. BatchLeavesRoom'
  BY <1>1, <1>2, EventsParts DEF BatchLeavesRoom
<1> QED
  BY <1>3, <1>4, <1>5, <1>7, <1>8, EventsParts

LEMMA TakeBatchKeeps ==
  ASSUME EventsIInv, NEW f \in Callers, Events!TakeBatch(f)
  PROVE  EventsIInv'
<1> DEFINE k == Events!BatchLength
<1>1. /\ s4[f].at = "claimed" /\ s4[f].batch = <<>> /\ Len(s1) <= MaxStored + BatchSize
      /\ s2' = s2 /\ s5' = s5 /\ s6' = s6 /\ s7' = s7 /\ s8' = s8
  BY EventsParts DEF Events!TakeBatch, BatchLeavesRoom, Events!QueueIsBounded
<1>2. CASE s1 = <<>> /\ s3' = FALSE /\ s4' = [s4 EXCEPT ![f] = Events!Resting] /\ s1' = s1
  <2>1. /\ s4'[f].at = "idle" /\ s4'[f].batch = <<>>
        /\ \A g \in Callers \ {f} : s4'[g] = s4[g]
        /\ s4' \in [Callers -> [at : Events!Places, batch : Seq(Events!Entry),
                                marker : Events!Markers]]
    BY <1>2, EventsParts, EventsTypes
  <2>2. Events!TypeOK'
    BY <1>1, <1>2, <2>1, EventsParts DEF Events!TypeOK
  <2>3. Events!QueueIsBounded'
    BY <1>2, EventsParts DEF Events!QueueIsBounded
  <2>4. Events!SyncHasOneOwner'
    BY <1>1, <1>2, <2>1, EventsParts DEF Events!SyncHasOneOwner, Events!Holding
  <2>5. \A g \in Callers : s4'[g].batch = s4[g].batch
    BY <1>1, <2>1
  <2>6. Events!Everywhere \subseteq Events!Everywhere'
    BY <1>1, <1>2, <2>5, EverywhereIs
  <2>7. Events!LossesAreAnnounced'
    BY <1>1, <2>1, <2>6, StillAnnounced
  <2>8. BatchLeavesRoom'
    BY <1>2, <2>1, EventsParts DEF BatchLeavesRoom
  <2> QED
    BY <2>2, <2>3, <2>4, <2>7, <2>8, EventsParts
<1>3. CASE /\ s4' = [s4 EXCEPT ![f].at = "posting", ![f].batch = SubSeq(s1, 1, k)]
           /\ s1' = SubSeq(s1, k + 1, Len(s1)) /\ s3' = s3
  <2>1. k \in 0..Len(s1) /\ k <= BatchSize /\ Len(s1) - k <= MaxStored
    BY <1>1, EventsParts, QueueAssumption DEF Events!BatchLength
  <2> HIDE DEF k
  <2>2. /\ SubSeq(s1, 1, k) \in Seq(Events!Entry) /\ Len(SubSeq(s1, 1, k)) = k
        /\ s1' \in Seq(Events!Entry) /\ Len(s1') = Len(s1) - k
        /\ Elements(s1) \subseteq Elements(SubSeq(s1, 1, k)) \union Elements(s1')
    BY <1>3, <2>1, EventsParts, ElementsSplit
  <2>3. /\ s4'[f].at = "posting" /\ s4'[f].batch = SubSeq(s1, 1, k)
        /\ \A g \in Callers \ {f} : s4'[g] = s4[g]
        /\ s4' \in [Callers -> [at : Events!Places, batch : Seq(Events!Entry),
                                marker : Events!Markers]]
    BY <1>3, <2>2, EventsParts DEF Events!Places
  <2>4. Events!TypeOK'
    BY <1>1, <1>3, <2>2, <2>3, EventsParts DEF Events!TypeOK
  <2>5. Events!QueueIsBounded'
    BY <2>1, <2>2, EventsParts, QueueAssumption DEF Events!QueueIsBounded
  <2>6. Events!SyncHasOneOwner'
    BY <1>1, <1>3, <2>3, EventsParts DEF Events!SyncHasOneOwner, Events!Holding
  <2>7. Events!Everywhere \subseteq Events!Everywhere'
    <3>1. Elements(<<>>) = {}
      BY DEF Elements
    <3>2. \A g \in Callers : Elements(s4[g].batch) \subseteq Elements(s4'[g].batch)
      BY <1>1, <2>3, <3>1
    <3>3. Elements(s1) \subseteq Elements(s4'[f].batch) \union Elements(s1')
      BY <2>2, <2>3
    <3> QED
      BY <1>1, <3>2, <3>3, EverywhereIs
  <2>8. Events!LossesAreAnnounced'
    BY <1>1, <2>3, <2>7, StillAnnounced
  <2>9. BatchLeavesRoom'
    <3>1. \A g \in Callers \ {f} : s4[g].at # "posting"
      BY <1>1, EventsParts DEF Events!SyncHasOneOwner, Events!Holding
    <3> QED
      BY <2>1, <2>2, <2>3, <3>1, EventsParts DEF BatchLeavesRoom
  <2> QED
    BY <2>4, <2>5, <2>6, <2>8, <2>9, EventsParts
<1> QED
  BY <1>2, <1>3 DEF Events!TakeBatch

LEMMA HostReceivesKeeps ==
  ASSUME EventsIInv, NEW f \in Callers, Events!HostReceives(f)
  PROVE  EventsIInv'
<1>1. /\ s7' = s7 \union Elements(s4[f].batch)
      /\ s1' = s1 /\ s2' = s2 /\ s3' = s3 /\ s4' = s4 /\ s5' = s5 /\ s6' = s6 /\ s8' = s8
  BY DEF Events!HostReceives, Elements
<1>2. Elements(s4[f].batch) \subseteq Events!Entry
  <2>1. s4[f].batch \in Seq(Events!Entry)
    BY EventsParts
  <2> QED
    BY <2>1, ElementOfSeq DEF Elements
<1>3. Events!TypeOK'
  BY <1>1, <1>2, EventsParts DEF Events!TypeOK
<1>4. Events!QueueIsBounded' /\ BatchLeavesRoom'
  BY <1>1, EventsParts DEF Events!QueueIsBounded, BatchLeavesRoom
<1>5. Events!SyncHasOneOwner'
  BY <1>1, EventsParts DEF Events!SyncHasOneOwner, Events!Holding
<1>6. Events!Everywhere \subseteq Events!Everywhere'
  BY <1>1, EverywhereIs
<1>7. Events!LossesAreAnnounced'
  BY <1>1, <1>6, StillAnnounced
<1> QED
  BY <1>3, <1>4, <1>5, <1>7, EventsParts

\* The end of a flush that holds the claim: the flag is free, the queue is as it was,
\* put back together, or empty.
LEMMA ClaimEnds ==
  ASSUME EventsIInv, NEW f \in Callers, s4[f].at = "posting",
         s2' \in Nat, s3' = FALSE, s5' = s5, s6' = s6, s7' = s7, s8' = s8,
         s1' \in Seq(Events!Entry), Events!QueueIsBounded',
         NEW at \in Events!Places \ {"claimed", "posting"}, NEW marker \in Events!Markers,
         s4' = [s4 EXCEPT ![f] = [at |-> at, batch |-> <<>>, marker |-> marker]],
         \/ Elements(s1) \union Elements(s4[f].batch) \subseteq Elements(s1') \union s7
         \/ at \in {"resetting", "marking"}
  PROVE  EventsIInv'
<1>1. /\ s4'[f].at = at /\ s4'[f].batch = <<>>
      /\ \A g \in Callers \ {f} : s4'[g] = s4[g] /\ s4[g].at \notin {"claimed", "posting"}
      /\ s4' \in [Callers -> [at : Events!Places, batch : Seq(Events!Entry),
                              marker : Events!Markers]]
  <2>1. [at |-> at, batch |-> <<>>, marker |-> marker]
          \in [at : Events!Places, batch : Seq(Events!Entry), marker : Events!Markers]
    BY EmptySeq
  <2> QED
    BY <2>1, EventsParts DEF Events!SyncHasOneOwner, Events!Holding
<1>2. Events!TypeOK'
  BY <1>1, EventsParts DEF Events!TypeOK
<1>3. Events!SyncHasOneOwner'
  BY <1>1, EventsParts DEF Events!SyncHasOneOwner, Events!Holding
<1>4. BatchLeavesRoom'
  BY <1>1, EventsParts DEF BatchLeavesRoom
<1>5. \/ Events!Everywhere \subseteq Events!Everywhere'
      \/ \E g \in Callers : s4'[g].at \in {"resetting", "marking"}
  BY <1>1, EverywhereIs
<1>6. Events!LossesAreAnnounced'
  BY <1>1, <1>5, StillAnnounced
<1> QED
  BY <1>2, <1>3, <1>4, <1>6, EventsParts

LEMMA BatchSucceededKeeps ==
  ASSUME EventsIInv, NEW f \in Callers, Events!BatchSucceeded(f)
  PROVE  EventsIInv'
<1>1. /\ s4[f].at = "posting" /\ Elements(s4[f].batch) \subseteq s7 /\ s2' = 0 /\ s3' = FALSE
      /\ s4' = [s4 EXCEPT ![f] = [at |-> "idle", batch |-> <<>>, marker |-> Events!Cleared]]
      /\ s1' = s1 /\ s5' = s5 /\ s6' = s6 /\ s7' = s7 /\ s8' = s8
  BY DEF Events!BatchSucceeded, Events!Resting, Elements
<1>2. /\ Events!QueueIsBounded' /\ s1' \in Seq(Events!Entry) /\ s2' \in Nat
      /\ "idle" \in Events!Places \ {"claimed", "posting"} /\ Events!Cleared \in Events!Markers
  BY <1>1, EventsParts DEF Events!QueueIsBounded, Events!Places, Events!Markers
<1>3. Elements(s1) \union Elements(s4[f].batch) \subseteq Elements(s1') \union s7
  BY <1>1
<1> HIDE DEF Events!Places, Events!Markers
<1> QED
  BY <1>1, <1>2, <1>3, ClaimEnds

LEMMA BatchFailedKeeps ==
  ASSUME EventsIInv, NEW f \in Callers, NEW error, Events!BatchFailed(f, error)
  PROVE  EventsIInv'
<1>1. /\ s4[f].at = "posting" /\ s3' = FALSE
      /\ s5' = s5 /\ s6' = s6 /\ s7' = s7 /\ s8' = s8
      /\ \/ /\ s2' = s2 + 1 /\ s1' = s4[f].batch \o s1
            /\ s4' = [s4 EXCEPT ![f] = [at |-> "idle", batch |-> <<>>,
                                        marker |-> Events!Cleared]]
         \/ /\ s2' = s2 + 1 /\ s1' = <<>>
            /\ s4' = [s4 EXCEPT ![f] = [at |-> "resetting", batch |-> <<>>,
                                        marker |-> Events!RetriesReached]]
         \/ /\ s2' = 0 /\ s1' = <<>>
            /\ s4' = [s4 EXCEPT ![f] = [at |-> "marking", batch |-> <<>>,
                                        marker |-> Events!Cleared]]
  BY DEF Events!BatchFailed, Events!BatchFailedRetryable, Events!BatchFailedFatal, Events!Resting
<1>2. /\ {"idle", "resetting", "marking"} \subseteq Events!Places \ {"claimed", "posting"}
      /\ Events!Cleared \in Events!Markers /\ Events!RetriesReached \in Events!Markers
      /\ s2' \in Nat
  BY <1>1, EventsParts DEF Events!Places, Events!Markers
<1>3. CASE s1' = <<>>
  <2>1. s1' \in Seq(Events!Entry) /\ Events!QueueIsBounded'
    BY <1>3, EmptySeq, QueueAssumption DEF Events!QueueIsBounded
  <2>2. CASE s4' = [s4 EXCEPT ![f] = [at |-> "resetting", batch |-> <<>>,
                                      marker |-> Events!RetriesReached]]
    BY <1>1, <1>2, <2>1, <2>2, ClaimEnds
  <2>3. CASE s4' = [s4 EXCEPT ![f] = [at |-> "marking", batch |-> <<>>,
                                      marker |-> Events!Cleared]]
    BY <1>1, <1>2, <2>1, <2>3, ClaimEnds
  <2>4. CASE /\ s1' = s4[f].batch \o s1
             /\ s4' = [s4 EXCEPT ![f] = [at |-> "idle", batch |-> <<>>,
                                         marker |-> Events!Cleared]]
    <3>1. s4[f].batch \in Seq(Events!Entry) /\ s1 \in Seq(Events!Entry)
      BY EventsParts
    <3>2. Elements(s1) \union Elements(s4[f].batch) \subseteq Elements(s1') \union s7
      BY <2>4, <3>1, ElementsConcat
    <3> QED
      BY <1>1, <1>2, <2>1, <2>4, <3>2, ClaimEnds
  <2> QED
    BY <1>1, <2>2, <2>3, <2>4
<1>4. CASE /\ s1' = s4[f].batch \o s1
           /\ s4' = [s4 EXCEPT ![f] = [at |-> "idle", batch |-> <<>>, marker |-> Events!Cleared]]
  <2>1. /\ s4[f].batch \in Seq(Events!Entry) /\ s1 \in Seq(Events!Entry)
        /\ Len(s4[f].batch) <= BatchSize /\ Len(s1) <= MaxStored
    BY <1>1, EventsParts DEF BatchLeavesRoom
  <2>2. s1' \in Seq(Events!Entry) /\ Len(s1') = Len(s4[f].batch) + Len(s1)
    BY <1>4, <2>1, ConcatProperties
  <2>3. Events!QueueIsBounded'
    BY <2>1, <2>2, QueueAssumption DEF Events!QueueIsBounded
  <2>4. Elements(s1) \union Elements(s4[f].batch) \subseteq Elements(s1') \union s7
    BY <1>4, <2>1, ElementsConcat
  <2> QED
    BY <1>1, <1>2, <1>4, <2>2, <2>3, <2>4, ClaimEnds
<1> QED
  BY <1>1, <1>3, <1>4

LEMMA ResetFailuresKeeps ==
  ASSUME EventsIInv, NEW f \in Callers, Events!ResetFailures(f)
  PROVE  EventsIInv'
<1>1. /\ s4[f].at = "resetting" /\ s2' = 0 /\ s4' = [s4 EXCEPT ![f].at = "marking"]
      /\ s1' = s1 /\ s3' = s3 /\ s5' = s5 /\ s6' = s6 /\ s7' = s7 /\ s8' = s8
  BY DEF Events!ResetFailures
<1>2. /\ s4'[f].at = "marking" /\ s4'[f].batch = s4[f].batch
      /\ \A g \in Callers \ {f} : s4'[g] = s4[g]
      /\ s4' \in [Callers -> [at : Events!Places, batch : Seq(Events!Entry),
                              marker : Events!Markers]]
  BY <1>1, EventsParts DEF Events!Places
<1>3. Events!TypeOK'
  BY <1>1, <1>2, EventsParts DEF Events!TypeOK
<1>4. Events!QueueIsBounded' /\ BatchLeavesRoom'
  BY <1>1, <1>2, EventsParts DEF Events!QueueIsBounded, BatchLeavesRoom
<1>5. Events!SyncHasOneOwner'
  BY <1>1, <1>2, EventsParts DEF Events!SyncHasOneOwner, Events!Holding
<1>6. Events!LossesAreAnnounced'
  BY <1>2 DEF Events!LossesAreAnnounced
<1> QED
  BY <1>3, <1>4, <1>5, <1>6, EventsParts

LEMMA TrackMarkerKeeps ==
  ASSUME EventsIInv, NEW f \in Callers, Events!TrackMarker(f)
  PROVE  EventsIInv'
<1>1. /\ s4[f].at = "marking" /\ s1' = Events!Tracked(s1, s4[f].marker)
      /\ s5' = s5 + Events!Overflows(s1) /\ s4' = [s4 EXCEPT ![f] = Events!Resting]
      /\ s2' = s2 /\ s3' = s3 /\ s6' = s6 /\ s7' = s7 /\ s8' = s8
  BY DEF Events!TrackMarker
<1>2. /\ s4'[f].at = "idle" /\ s4'[f].batch = <<>> /\ s4[f].marker \in Events!Markers
      /\ \A g \in Callers \ {f} : s4'[g] = s4[g]
      /\ s4' \in [Callers -> [at : Events!Places, batch : Seq(Events!Entry),
                              marker : Events!Markers]]
  BY <1>1, EventsParts, EventsTypes
<1>3. /\ s1' \in Seq(Events!Entry) /\ Events!QueueIsBounded'
      /\ Len(s1) <= MaxStored => Len(s1') <= MaxStored
      /\ Events!Overflows(s1) \in {0, 1}
      /\ Events!Overflows(s1) = 0 => Events!Markers \intersect Events!Everywhere' # {}
  BY <1>1, <1>2, MarkerTracked
<1>4. s5' \in Nat /\ (Events!Overflows(s1) = 1 => s5' > 0)
  BY <1>1, <1>3, EventsParts
<1>5. Events!TypeOK'
  BY <1>1, <1>2, <1>3, <1>4, EventsParts DEF Events!TypeOK
<1>6. BatchLeavesRoom'
  BY <1>2, <1>3, EventsParts DEF BatchLeavesRoom
<1>7. Events!SyncHasOneOwner'
  BY <1>1, <1>2, EventsParts DEF Events!SyncHasOneOwner, Events!Holding
<1>8. Events!LossesAreAnnounced'
  BY <1>3, <1>4 DEF Events!LossesAreAnnounced
<1> QED
  BY <1>3, <1>5, <1>6, <1>7, <1>8, EventsParts

LEMMA FlushDroppedKeeps ==
  ASSUME EventsIInv, NEW f \in Callers, Events!FlushDropped(f)
  PROVE  EventsIInv'
<1>1. /\ s4[f].at = "posting" /\ s8' = TRUE /\ s4' = [s4 EXCEPT ![f] = Events!Resting]
      /\ s1' = s1 /\ s2' = s2 /\ s3' = s3 /\ s5' = s5 /\ s6' = s6 /\ s7' = s7
  BY DEF Events!FlushDropped
<1>2. /\ s4'[f].at = "idle" /\ s4'[f].batch = <<>>
      /\ \A g \in Callers \ {f} : s4'[g] = s4[g]
      /\ s4' \in [Callers -> [at : Events!Places, batch : Seq(Events!Entry),
                              marker : Events!Markers]]
  BY <1>1, EventsParts, EventsTypes
<1>3. Events!TypeOK'
  BY <1>1, <1>2, EventsParts DEF Events!TypeOK
<1>4. Events!QueueIsBounded' /\ BatchLeavesRoom'
  BY <1>1, <1>2, EventsParts DEF Events!QueueIsBounded, BatchLeavesRoom
<1>5. Events!SyncHasOneOwner'
  BY <1>1, <1>2, EventsParts DEF Events!SyncHasOneOwner, Events!Holding
<1>6. Events!LossesAreAnnounced'
  BY <1>1 DEF Events!LossesAreAnnounced
<1> QED
  BY <1>3, <1>4, <1>5, <1>6, EventsParts

LEMMA EventsNextKeeps == EventsIInv /\ (Events!Next \/ UNCHANGED Events!vars) => EventsIInv'
<1> SUFFICES ASSUME EventsIInv, Events!Next \/ UNCHANGED Events!vars
             PROVE  EventsIInv'
  OBVIOUS
<1>1. CASE UNCHANGED Events!vars
  BY <1>1 DEF Events!vars, EventsIInv, BatchLeavesRoom, Events!TypeOK,
              Events!EventsAreAccountedFor, Events!QueueIsBounded, Events!SyncHasOneOwner,
              Events!Holding, Events!LossesAreAnnounced, Events!Everywhere
<1>2. CASE Events!TrackRequest \/ Events!TrackOverflow
  BY <1>2, TrackRequestKeeps, TrackOverflowKeeps
<1>3. ASSUME NEW f \in Callers,
             \/ Events!ClaimSync(f) \/ Events!TakeBatch(f) \/ Events!HostReceives(f)
             \/ Events!BatchSucceeded(f) \/ Events!PostLost(f)
             \/ \E answer \in Events!ErrorAnswers : Events!HostRefuses(f, answer)
             \/ Events!ResetFailures(f) \/ Events!TrackMarker(f) \/ Events!FlushDropped(f)
      PROVE  EventsIInv'
  <2>1. CASE \/ Events!PostLost(f)
             \/ \E answer \in Events!ErrorAnswers : Events!HostRefuses(f, answer)
    BY <2>1, BatchFailedKeeps DEF Events!PostLost, Events!HostRefuses
  <2> QED
    BY <1>3, <2>1, ClaimSyncKeeps, TakeBatchKeeps, HostReceivesKeeps, BatchSucceededKeeps,
       ResetFailuresKeeps, TrackMarkerKeeps, FlushDroppedKeeps
<1> QED
  BY <1>1, <1>2, <1>3 DEF Events!Next

LEMMA EventsInit == Events!Init => EventsIInv
<1> SUFFICES ASSUME Events!Init PROVE EventsIInv
  OBVIOUS
<1>1. /\ s1 = <<>> /\ s2 = 0 /\ s3 = FALSE /\ s4 = [f \in Callers |-> Events!Resting]
      /\ s5 = 0 /\ s6 = 0 /\ s7 = {} /\ s8 = FALSE
  BY DEF Events!Init
<1>2. \A f \in Callers : s4[f].at = "idle" /\ s4[f].batch = <<>>
  BY <1>1, EventsTypes
<1>3. Events!TypeOK
  <2>1. s4 \in [Callers -> [at : Events!Places, batch : Seq(Events!Entry),
                           marker : Events!Markers]]
    BY <1>1, EventsTypes
  <2>2. s6 \in 0..MaxEvents /\ s1 \in Seq(Events!Entry)
    BY <1>1, EmptySeq, QueueAssumption
  <2> QED
    BY <1>1, <2>1, <2>2 DEF Events!TypeOK
<1>4. Events!QueueIsBounded /\ BatchLeavesRoom
  BY <1>1, <1>2, EmptySeq, QueueAssumption DEF Events!QueueIsBounded, BatchLeavesRoom
<1>5. Events!SyncHasOneOwner
  BY <1>1, <1>2 DEF Events!SyncHasOneOwner, Events!Holding
<1>6. Events!LossesAreAnnounced
  BY <1>1 DEF Events!LossesAreAnnounced
<1> QED
  BY <1>3, <1>4, <1>5, <1>6 DEF EventsIInv, Events!EventsAreAccountedFor

LEMMA EventsHold == Spec => [](part = "diagnostics" => EventsIInv)
<1>1. Init => (part = "diagnostics" => EventsIInv)
  BY EventsInit DEF Init
<1>2. (part = "diagnostics" => EventsIInv) /\ [Next]_vars => (part = "diagnostics" => EventsIInv)'
  <2> SUFFICES ASSUME part = "diagnostics" => EventsIInv, [Next]_vars, part' = "diagnostics"
               PROVE  EventsIInv'
    OBVIOUS
  <2>1. part = "diagnostics" /\ (Events!Next \/ UNCHANGED Events!vars)
    BY DEF Next, vars, from7, Events!vars
  <2> QED
    BY <2>1, EventsNextKeeps
<1> QED
  BY <1>1, <1>2, PTL DEF Spec

\* The queue is bounded, one flush has a batch at a time, and what is given up leaves
\* a marker, for any number of flushes, limits and requests (diagnostics.rs).
THEOREM EventsAccountedFor == Spec => []EventsAreAccountedFor
<1>1. (part = "diagnostics" => EventsIInv) => EventsAreAccountedFor
  BY DEF EventsIInv, EventsAreAccountedFor
<1> QED
  BY <1>1, EventsHold, PTL

-----------------------------------------------------------------------------
(* Configuration and CustomerCaches are proved about in ConfigurationProofs *)
(* and CustomerCachesProofs, whose invariants and steps are those of these   *)
(* parts: the instances below have the definitions of Config and Caches.     *)

Configuring == INSTANCE ConfigurationProofs WITH
  build <- s1, instance <- s2, journal <- s3, holder <- s4, call <- s5, answered <- s6

Caching == INSTANCE CustomerCachesProofs WITH
  user <- s1, identity <- s2, now <- s3, cached <- s4, call <- s5, dropped <- s6

LEMMA SameConfiguration ==
  /\ Config!Init => Configuring!Init
  /\ Config!Next => Configuring!Next
  /\ Configuring!ConfiguredAsAsked => Config!ConfiguredAsAsked
  /\ Configuring!IInv => Config!IInv
BY DEF Config!vars, Configuring!vars, Config!Settled, Configuring!Settled, Config!Journals,
      Configuring!Journals, Config!Conflicts, Configuring!Conflicts, Config!Generated,
      Configuring!Generated, Config!InitialUsers, Configuring!InitialUsers,
      Config!IdleCall, Configuring!IdleCall, Config!Return, Configuring!Return,
      Config!Refused, Configuring!Refused, Config!Awaits, Configuring!Awaits,
      Config!Install, Configuring!Install, Config!Settle, Configuring!Settle,
      Config!Build, Configuring!Build, Config!Configure, Configuring!Configure,
      Config!MayEnter, Configuring!MayEnter, Config!EnterConfigured,
      Configuring!EnterConfigured, Config!EnterFirst, Configuring!EnterFirst,
      Config!StoreAnswers, Configuring!StoreAnswers, Config!TransitionResumed,
      Configuring!TransitionResumed, Config!Restart, Configuring!Restart, Config!Init,
      Configuring!Init, Config!Next, Configuring!Next, Config!Calls, Configuring!Calls,
      Config!TypeOK, Configuring!TypeOK, Config!ConfiguredAsAsked,
      Configuring!ConfiguredAsAsked, Config!CallIsSound, Configuring!CallIsSound,
      Config!InstanceIsSound, Configuring!InstanceIsSound, Config!IInv, Configuring!IInv,
      Config!AppUserIDs, Configuring!AppUserIDs, Config!Keys, Configuring!Keys,
      Config!Builds, Configuring!Builds, Config!ConfigureOptions,
      Configuring!ConfigureOptions, Config!NonEmpty, Configuring!NonEmpty,
      Config!Explicit, Configuring!Explicit, Config!VerificationMode,
      Configuring!VerificationMode, Config!Fingerprint, Configuring!Fingerprint,
      Config!Mobile, Configuring!Mobile, Config!StoreOf, Configuring!StoreOf,
      Config!ClientOf, Configuring!ClientOf, Config!Instances, Configuring!Instances,
      Config!Valid, Configuring!Valid

LEMMA ConfiguringAssumptions ==
  /\ Configuring!OptionsAssumption
  /\ Configuring!UsersAssumption
  /\ Configuring!NoInstanceAssumption
<1> USE DEF Configuring!AppUserIDs, Configuring!Keys, Configuring!Builds,
      Configuring!ConfigureOptions, Configuring!NonEmpty, NonEmpty, Configuring!Explicit,
      Configuring!VerificationMode,
      Configuring!Fingerprint, Configuring!Mobile, Configuring!StoreOf,
      Configuring!ClientOf, Configuring!Instances, Configuring!Valid, AppUserIDs, Keys,
      Builds, ConfigureOptions, Explicit, VerificationMode, Fingerprint, Mobile, StoreOf,
      ClientOf, Instances, Valid
<1>1. Configuring!OptionsAssumption
  BY OptionsAssumption
<1>2. Configuring!UsersAssumption
  BY UsersAssumption
<1>3. Configuring!NoInstanceAssumption
  BY NoInstanceAssumption
<1> QED
  BY <1>1, <1>2, <1>3

LEMMA ConfigureHolds == Spec => [](part = "configure" => Configuring!IInv)
<1>1. Init => (part = "configure" => Configuring!IInv)
  BY Configuring!InitIInv, ConfiguringAssumptions, SameConfiguration DEF Init
<1>2. (part = "configure" => Configuring!IInv) /\ [Next]_vars
        => (part = "configure" => Configuring!IInv)'
  <2> SUFFICES ASSUME part = "configure" => Configuring!IInv, [Next]_vars, part' = "configure"
               PROVE  Configuring!IInv'
    OBVIOUS
  <2>1. part = "configure" /\ (Config!Next \/ UNCHANGED Config!vars)
    BY DEF Next, vars, Config!vars
  <2>2. Configuring!IInv /\ [Configuring!Next]_(Configuring!vars) => Configuring!IInv'
    BY Configuring!NextKeeps, ConfiguringAssumptions
  <2> QED
    BY <2>1, <2>2, SameConfiguration DEF Config!vars, Configuring!vars
<1> QED
  BY <1>1, <1>2, PTL DEF Spec

\* Every call that was told "configured" asked for the instance there is, for any
\* options, ids and number of calls (commands.rs:339).
THEOREM ConfiguresAsAsked == Spec => []ConfiguredAsAsked
<1>1. (part = "configure" => Configuring!IInv) => ConfiguredAsAsked
  BY SameConfiguration DEF Configuring!IInv, ConfiguredAsAsked
<1> QED
  BY <1>1, ConfigureHolds, PTL

LEMMA SameCaches ==
  /\ Caches!Init => Caching!Init
  /\ Caches!Next => Caching!Next
  /\ Caching!OnlyLateAnswersRevive => Caches!OnlyLateAnswersRevive
  /\ Caching!IInv => Caches!IInv
BY DEF Caches!vars, Caching!vars, Caches!IdleCall, Caching!IdleCall, Caches!Operations,
      Caching!Operations, Caches!Calls, Caching!Calls, Caches!Return, Caching!Return,
      Caches!Goes, Caching!Goes, Caches!OldAnswers, Caching!OldAnswers, Caches!Cleared,
      Caching!Cleared, Caches!Drops, Caching!Drops, Caches!Stored, Caching!Stored,
      Caches!Lands, Caching!Lands, Caches!IsLost, Caching!IsLost, Caches!LastDrops,
      Caching!LastDrops, Caches!NeverDropped, Caching!NeverDropped,
      Caches!Begin, Caching!Begin, Caches!GetCustomerInfo, Caching!GetCustomerInfo,
      Caches!GetVirtualCurrencies, Caching!GetVirtualCurrencies, Caches!RedeemWebPurchase,
      Caching!RedeemWebPurchase, Caches!ChangeIdentity, Caching!ChangeIdentity,
      Caches!UserSettled, Caching!UserSettled, Caches!IdentityBegins,
      Caching!IdentityBegins, Caches!IdentityRefused, Caching!IdentityRefused,
      Caches!AnsweredFromCache, Caching!AnsweredFromCache, Caches!Fetch, Caching!Fetch,
      Caches!BackendChanges, Caching!BackendChanges, Caches!Handled, Caching!Handled,
      Caches!Fails, Caching!Fails, Caches!AnswerStored, Caching!AnswerStored,
      Caches!SwitchUser, Caching!SwitchUser, Caches!ClearIdentityScopedState,
      Caching!ClearIdentityScopedState, Caches!NewInfoStored, Caching!NewInfoStored,
      Caches!Invalidate, Caching!Invalidate, Caches!Init, Caching!Init, Caches!Step,
      Caching!Step, Caches!Next, Caching!Next, Caches!TypeOK, Caching!TypeOK,
      Caches!CallIsSound, Caching!CallIsSound, Caches!DropsArePast, Caching!DropsArePast,
      Caches!OnlyLateAnswersRevive, Caching!OnlyLateAnswersRevive, Caches!IInv,
      Caching!IInv, Caches!Kinds, Caching!Kinds,
      Caches!Versions, Caching!Versions, Caches!Policies, Caching!Policies,
      Caches!DeviceCaches, Caching!DeviceCaches, Caches!EmptyCache, Caching!EmptyCache,
      Caches!Without, Caching!Without, Caches!MayAnswer, Caching!MayAnswer,
      Caches!MayFetch, Caching!MayFetch

LEMMA CachingAssumptions == Caching!VersionsAssumption
BY VersionsAssumption
   DEF Caching!Kinds, Caching!Versions, Caching!Policies, Caching!DeviceCaches,
      Caching!EmptyCache, Caching!Without, Caching!MayAnswer, Caching!MayFetch, Kinds,
      Versions, Policies, DeviceCaches, EmptyCache, Without, MayAnswer, MayFetch

LEMMA CachesHold == Spec => [](part = "caches" => Caching!IInv)
<1>1. Init => (part = "caches" => Caching!IInv)
  BY Caching!InitIInv, CachingAssumptions, SameCaches DEF Init
<1>2. (part = "caches" => Caching!IInv) /\ [Next]_vars => (part = "caches" => Caching!IInv)'
  <2> SUFFICES ASSUME part = "caches" => Caching!IInv, [Next]_vars, part' = "caches"
               PROVE  Caching!IInv'
    OBVIOUS
  <2>1. part = "caches" /\ (Caches!Next \/ UNCHANGED Caches!vars)
    BY DEF Next, vars, Caches!vars
  <2>2. Caching!IInv /\ [Caching!Next]_(Caching!vars) => Caching!IInv'
    BY Caching!NextKeeps, CachingAssumptions
  <2> QED
    BY <2>1, <2>2, SameCaches DEF Caches!vars, Caching!vars
<1> QED
  BY <1>1, <1>2, PTL DEF Spec

\* What was invalidated or cleared is only brought back by an answer for the same user
\* that was on its way at that moment, for any calls, users and number of changes
\* (cache.rs:56, identity_operations.rs:259).
THEOREM CachedRevivalsAreLate == Spec => []OnlyLateAnswersRevive
<1>1. (part = "caches" => Caching!IInv) => OnlyLateAnswersRevive
  BY SameCaches DEF Caching!IInv, OnlyLateAnswersRevive
<1> QED
  BY <1>1, CachesHold, PTL

-----------------------------------------------------------------------------
(* HttpClient on MockBackend.  s1: mode, s2: app, s3: etags, s4: call,      *)
(* s5: calls, s6: server                                                    *)
(*                                                                          *)
(* The invariant says of each request what its answer may be at the point   *)
(* where it stands (Sound), and of the ETag cache what may be stored in it  *)
(* (StoredIsSound).                                                         *)

\* An answer on its way: a signature belongs to a genuine body, a GET is answered
\* about its user; a POST is never answered 304, and a refusal for too many
\* requests means that the backend did nothing.
SoundReply(local) ==
  /\ local.reply \in Http!Replies
  /\ local.reply.signed => local.reply.body.genuine
  /\ local.request.endpoint \in Http!Gets => local.reply.body.content.of = local.request.user
  /\ local.request.endpoint \notin Http!Gets =>
       /\ local.reply.status # 304
       /\ local.reply.status = 429 => local.handled = 0

SoundResult(request, result) ==
  result.ok =>
    /\ result.verification = "verified" => result.body.genuine
    /\ s1 = "enforced" /\ request.endpoint \in Http!VerifiedEndpoints
         => result.verification = "verified"
    /\ request.endpoint \in Http!Gets => result.body.content.of = request.user

\* A request that is sent, or will be sent again, was not handled yet.
Sound(local) ==
  /\ local.at # "idle" => local.request \in Http!Requests
  /\ local.at # "idle" /\ local.request.endpoint \notin Http!Gets =>
       /\ local.handled \in {0, 1}
       /\ local.at \in {"sent", "waiting"} => local.handled = 0
  /\ local.at = "waiting" => local.attempt + 1 < Http!Attempts
  /\ local.at = "answered" => SoundReply(local)
  /\ local.at = "done" => SoundResult(local.request, local.result)

\* What is stored for a URL is about its user, and genuine where that is looked at.
StoredIsSound ==
  \A url \in Http!Urls : s3[url] # NoEntry =>
    /\ s3[url].body.content.of = url[2]
    /\ s1 # "disabled" /\ url[1] \in Http!VerifiedEndpoints => s3[url].body.genuine

HttpIInv ==
  /\ Http!TypeOK
  /\ \A c \in Callers : Sound(s4[c])
  /\ StoredIsSound

-----------------------------------------------------------------------------
(* The backend *)

LEMMA EnsureSubscriberType ==
  ASSUME NEW s \in Http!Server, NEW u \in Users
  PROVE  Http!EnsureSubscriber(s, u) \in Http!Server
BY DEF Http!Server, Http!EnsureSubscriber, Http!Subscriber

LEMMA GrantProductType ==
  ASSUME NEW s \in Http!Server, NEW u \in Users, NEW product, NEW token \in Http!Tokens
  PROVE  Http!GrantProduct(s, u, product, token) \in Http!Server
<1>1. CASE product = "monthly"
  BY <1>1 DEF Http!Server, Http!GrantProduct, Http!Subscriber
<1>2. CASE product # "monthly"
  <2> DEFINE owner == [s.subscribers[u] EXCEPT !.coins = Append(@, token)]
  <2>1. s.subscribers[u] \in Http!Subscriber
    BY DEF Http!Server
  <2>2. Append(s.subscribers[u].coins, token) \in Seq(Http!Tokens)
    BY <2>1 DEF Http!Subscriber
  <2>3. owner \in Http!Subscriber
    BY <2>1, <2>2 DEF Http!Subscriber
  <2>4. Http!GrantProduct(s, u, product, token)
          = [s EXCEPT !.subscribers = [s.subscribers EXCEPT ![u] = owner]]
    BY <1>2 DEF Http!GrantProduct
  <2> HIDE DEF owner
  <2>5. QED
    BY <2>3, <2>4 DEF Http!Server
<1>3. QED
  BY <1>1, <1>2

LEMMA EnvelopeType ==
  ASSUME NEW s \in Http!Server, NEW u \in Users
  PROVE  /\ Http!Envelope(s, u) \in Http!Contents
         /\ Http!Envelope(s, u).of = u
BY DEF Http!Server, Http!Envelope, Http!Contents, Http!Subscriber

LEMMA CatalogPageType ==
  ASSUME NEW u \in Users
  PROVE  /\ Http!CatalogPage(u) \in Http!Contents
         /\ Http!CatalogPage(u).of = u
BY DEF Http!CatalogPage, Http!Contents

\* What a handler of the backend returns.
Handling == [server: Http!Server, status: {200, 201, 304, 400, 403}, code: Nat,
             content: Http!Contents]

LEMMA RepliedType ==
  ASSUME NEW s \in Http!Server, NEW status \in {200, 201, 304, 400, 403}, NEW code \in Nat,
         NEW content \in Http!Contents
  PROVE  /\ Http!Replied(s, status, code, content) \in Handling
         /\ Http!Replied(s, status, code, content).status = status
         /\ Http!Replied(s, status, code, content).content = content
BY DEF Http!Replied, Handling

LEMMA BackendErrorType ==
  ASSUME NEW s \in Http!Server, NEW u \in Users, NEW status \in {400, 403}, NEW code \in Nat
  PROVE  /\ Http!BackendError(s, u, status, code) \in Handling
         /\ Http!BackendError(s, u, status, code).status = status
BY CatalogPageType, RepliedType DEF Http!BackendError

LEMMA GetsAnswer ==
  ASSUME NEW r \in Http!Requests, NEW etag, NEW forced \in BOOLEAN, s6 \in Http!Server,
         r.endpoint \in Http!Gets
  PROVE  /\ Http!Handled(r, etag, forced) \in Handling
         /\ Http!Handled(r, etag, forced).content.of = r.user
<1> DEFINE known == Http!EnsureSubscriber(s6, r.user)
<1>1. r.user \in Users
  BY DEF Http!Requests
<1>2. known \in Http!Server
  BY <1>1, EnsureSubscriberType
<1> HIDE DEF known
<1>3. ASSUME NEW content \in Http!Contents
      PROVE  /\ Http!ETagResponse(known, content, etag, forced) \in Handling
             /\ Http!ETagResponse(known, content, etag, forced).content = content
  BY <1>2, RepliedType DEF Http!ETagResponse
<1>4. CASE r.endpoint = "get_customer"
  <2>1. Http!Handled(r, etag, forced)
          = Http!ETagResponse(known, Http!Envelope(known, r.user), etag, forced)
    BY <1>4 DEF Http!Handled, Http!GetSubscriber, known
  <2>2. QED
    BY <1>1, <1>2, <1>3, <2>1, EnvelopeType
<1>5. CASE r.endpoint \in {"get_offerings", "get_virtual_currencies"}
  <2>1. Http!Handled(r, etag, forced)
          = Http!ETagResponse(known, Http!CatalogPage(r.user), etag, forced)
    BY <1>5 DEF Http!Handled, Http!GetOfferings, Http!GetVirtualCurrencies, known
  <2>2. QED
    BY <1>1, <1>3, <2>1, CatalogPageType
<1>6. CASE r.endpoint = "get_products"
  <2>1. Http!Handled(r, etag, forced) = Http!Replied(known, 200, 0, Http!CatalogPage(r.user))
    BY <1>6 DEF Http!Handled, Http!GetProducts, known
  <2>2. QED
    BY <1>1, <1>2, <2>1, CatalogPageType, RepliedType
<1>7. QED
  BY <1>4, <1>5, <1>6 DEF Http!Gets

LEMMA PostReceiptsType ==
  ASSUME s6 \in Http!Server, NEW u \in Users, NEW token \in Receipts, NEW product
  PROVE  /\ Http!PostReceipts(s6, u, token, product) \in Handling
         /\ Http!PostReceipts(s6, u, token, product).status # 304
<1> DEFINE used == [s6 EXCEPT !.used[token] = u]
           granted == Http!GrantProduct(Http!EnsureSubscriber(used, u), u, product, token)
<1>1. used \in Http!Server
  BY DEF Http!Server
<1> HIDE DEF used
<1>2. granted \in Http!Server
  <2>1. token \in Http!Tokens
    BY DEF Http!Tokens
  <2> QED
    BY <1>1, <2>1, EnsureSubscriberType, GrantProductType
<1> HIDE DEF granted
<1>3. Http!Replied(granted, 200, 0, Http!Envelope(granted, u)) \in Handling
      /\ Http!Replied(granted, 200, 0, Http!Envelope(granted, u)).status = 200
  BY <1>2, EnvelopeType, RepliedType
<1> QED
  BY <1>3, BackendErrorType DEF Http!PostReceipts, granted, used

LEMMA PostIdentifyType ==
  ASSUME s6 \in Http!Server, NEW u \in Users, NEW new \in Users
  PROVE  /\ Http!PostIdentify(s6, u, new) \in Handling
         /\ Http!PostIdentify(s6, u, new).status # 304
<1> DEFINE known == Http!EnsureSubscriber(s6, u)
           created == ~known.subscribers[new].known
           switched == IF created
                       THEN [known EXCEPT !.subscribers[new] = known.subscribers[u]]
                       ELSE known
<1>1. known \in Http!Server
  BY EnsureSubscriberType
<1> HIDE DEF known
<1>2. switched \in Http!Server
  BY <1>1 DEF Http!Server
<1>3. Http!PostIdentify(s6, u, new)
        = Http!Replied(switched, IF created THEN 201 ELSE 200, 0, Http!Envelope(switched, new))
  BY DEF Http!PostIdentify, known
<1> HIDE DEF switched, created
<1> QED
  BY <1>2, <1>3, EnvelopeType, RepliedType

LEMMA PostRedeemType ==
  ASSUME s6 \in Http!Server, NEW u \in Users, NEW voucher
  PROVE  /\ Http!PostRedeem(s6, u, voucher) \in Handling
         /\ Http!PostRedeem(s6, u, voucher).status # 304
<1> DEFINE known == Http!EnsureSubscriber(s6, u)
           redeemed == [known EXCEPT !.redeemed[voucher] = u]
           granted == Http!GrantProduct(redeemed, u, "coins", voucher)
<1>1. known \in Http!Server
  BY EnsureSubscriberType
<1> HIDE DEF known
<1>2. CASE voucher \in Http!Vouchers
  <2>1. redeemed \in Http!Server
    BY <1>1, <1>2 DEF Http!Server
  <2> HIDE DEF redeemed
  <2>2. granted \in Http!Server
    BY <2>1, <1>2, GrantProductType DEF Http!Tokens
  <2> HIDE DEF granted
  <2>3. Http!Replied(granted, 200, 0, Http!Envelope(granted, u)) \in Handling
        /\ Http!Replied(granted, 200, 0, Http!Envelope(granted, u)).status = 200
    BY <2>2, EnvelopeType, RepliedType
  <2> QED
    BY <1>1, <1>2, <2>3, BackendErrorType DEF Http!PostRedeem, granted, redeemed, known
<1> QED
  BY <1>1, <1>2, BackendErrorType DEF Http!PostRedeem, known

LEMMA PostAttributesType ==
  ASSUME s6 \in Http!Server, NEW u \in Users, NEW attributes \in SUBSET Http!Attributes
  PROVE  /\ Http!PostAttributes(s6, u, attributes) \in Handling
         /\ Http!PostAttributes(s6, u, attributes).status # 304
<1> DEFINE known == Http!EnsureSubscriber(s6, u)
           saved == [known EXCEPT !.subscribers[u].attributes = @ \union attributes]
<1>1. known \in Http!Server
  BY EnsureSubscriberType
<1> HIDE DEF known
<1>2. saved \in Http!Server
  <2> DEFINE owner == [known.subscribers[u] EXCEPT !.attributes = @ \union attributes]
  <2>1. owner \in Http!Subscriber
    BY <1>1 DEF Http!Server, Http!Subscriber
  <2>2. saved = [known EXCEPT !.subscribers = [known.subscribers EXCEPT ![u] = owner]]
    OBVIOUS
  <2> HIDE DEF owner, saved
  <2> QED
    BY <1>1, <2>1, <2>2 DEF Http!Server
<1> HIDE DEF saved
<1>3. Http!Replied(saved, 200, 0, Http!CatalogPage(u)) \in Handling
      /\ Http!Replied(saved, 200, 0, Http!CatalogPage(u)).status = 200
  BY <1>2, CatalogPageType, RepliedType
<1> QED
  BY <1>1, <1>3, BackendErrorType DEF Http!PostAttributes, saved, known

LEMMA PostsAnswer ==
  ASSUME NEW r \in Http!Requests, NEW etag, NEW forced \in BOOLEAN, s6 \in Http!Server,
         r.endpoint \notin Http!Gets
  PROVE  /\ Http!Handled(r, etag, forced) \in Handling
         /\ Http!Handled(r, etag, forced).status # 304
<1>1. /\ r.user \in Users /\ r.endpoint \in Http!Endpoints \ Http!Gets
      /\ r.args \in Http!Arguments(r.endpoint)
  BY DEF Http!Requests
<1>2. CASE r.endpoint = "post_receipt"
  <2>1. r.args[1] \in Receipts
    BY <1>1, <1>2 DEF Http!Arguments, Http!Gets
  <2>2. Http!Handled(r, etag, forced) = Http!PostReceipts(s6, r.user, r.args[1], r.args[2])
    BY <1>2 DEF Http!Handled
  <2> QED
    BY <1>1, <2>1, <2>2, PostReceiptsType
<1>3. CASE r.endpoint = "log_in"
  <2>1. r.args[1] \in Users
    BY <1>1, <1>3 DEF Http!Arguments, Http!Gets
  <2>2. Http!Handled(r, etag, forced) = Http!PostIdentify(s6, r.user, r.args[1])
    BY <1>3 DEF Http!Handled
  <2> QED
    BY <1>1, <2>1, <2>2, PostIdentifyType
<1>4. CASE r.endpoint = "attributes"
  <2>1. r.args[1] \in SUBSET Http!Attributes
    BY <1>1, <1>4 DEF Http!Arguments, Http!Gets, Http!Attributes
  <2>2. Http!Handled(r, etag, forced) = Http!PostAttributes(s6, r.user, r.args[1])
    BY <1>4 DEF Http!Handled
  <2> QED
    BY <1>1, <2>1, <2>2, PostAttributesType
<1>5. CASE r.endpoint = "post_redeem_web_purchase"
  <2>1. Http!Handled(r, etag, forced) = Http!PostRedeem(s6, r.user, r.args[1])
    BY <1>5 DEF Http!Handled
  <2> QED
    BY <1>1, <2>1, PostRedeemType
<1> QED
  BY <1>1, <1>2, <1>3, <1>4, <1>5 DEF Http!Endpoints, Http!Gets

-----------------------------------------------------------------------------
(* The steps *)

LEMMA HttpTypes ==
  HttpIInv =>
    /\ s1 \in Http!Modes /\ s2 \in Apps /\ s3 \in [Http!Urls -> Http!Entries \union {NoEntry}]
    /\ s4 \in [Callers -> Http!Calls] /\ s5 \in 0..MaxCalls /\ s6 \in Http!Server
    /\ StoredIsSound /\ \A c \in Callers : Sound(s4[c])
BY DEF HttpIInv, Http!TypeOK

\* A step changes one request to a sound one, and perhaps stores an entry.
LEMMA CallChanges ==
  ASSUME HttpIInv, NEW c \in Callers, NEW new \in Http!Calls, Sound(new),
         s4' = [s4 EXCEPT ![c] = new], s1' = s1, s2' = s2,
         s5' \in 0..MaxCalls, s6' \in Http!Server,
         s3' \in [Http!Urls -> Http!Entries \union {NoEntry}], StoredIsSound'
  PROVE  HttpIInv'
<1>1. /\ s1 \in Http!Modes /\ s2 \in Apps /\ s4 \in [Callers -> Http!Calls]
      /\ \A d \in Callers : Sound(s4[d])
  BY HttpTypes
<1>2. /\ s4' \in [Callers -> Http!Calls]
      /\ \A d \in Callers : s4'[d] = IF d = c THEN new ELSE s4[d]
  BY <1>1
<1>3. Http!TypeOK'
  BY <1>1, <1>2 DEF Http!TypeOK
<1>4. \A d \in Callers : Sound(s4[d])' <=> Sound(s4'[d])
  BY DEF Sound, SoundResult, SoundReply
<1>5. \A d \in Callers : Sound(s4'[d])
  BY <1>1, <1>2
<1> QED
  BY <1>3, <1>4, <1>5 DEF HttpIInv

LEMMA OnlyCallChanges ==
  ASSUME HttpIInv, NEW c \in Callers, NEW new \in Http!Calls, Sound(new),
         s4' = [s4 EXCEPT ![c] = new], UNCHANGED <<s1, s2, s3>>,
         s5' \in 0..MaxCalls, s6' \in Http!Server
  PROVE  HttpIInv'
<1>1. StoredIsSound'
  BY HttpTypes DEF StoredIsSound
<1> QED
  BY <1>1, HttpTypes, CallChanges

LEMMA IdleIsSound == Http!Idle \in Http!Calls /\ Http!Idle.at = "idle" /\ Sound(Http!Idle)
<1>1. Http!Idle \in Http!Calls /\ Http!Idle.at = "idle"
  BY DEF Http!Idle, Http!Calls, Http!Attempts
<1> QED
  BY <1>1 DEF Sound

\* The tag a request may carry.
LEMMA RequestETagType ==
  ASSUME HttpIInv, NEW r \in Http!Requests, NEW refresh \in BOOLEAN
  PROVE  Http!RequestETag(r, refresh) \in Http!Contents \union {NoEntry}
<1>1. r.endpoint \in Http!Gets => Http!Url(r) \in Http!Urls
  BY DEF Http!Requests, Http!Url, Http!Urls
<1> QED
  BY <1>1, HttpTypes DEF Http!RequestETag, Http!Entries

LEMMA CallKeeps ==
  ASSUME HttpIInv, NEW c \in Callers, NEW r \in Http!Requests, Http!Call(c, r)
  PROVE  HttpIInv'
<1> DEFINE new == [Http!Idle EXCEPT !.at = "sent", !.request = r,
                                    !.etag = Http!RequestETag(r, FALSE)]
<1>1. /\ s4' = [s4 EXCEPT ![c] = new] /\ s5 < MaxCalls /\ s5' = s5 + 1
      /\ UNCHANGED <<s1, s2, s3, s6>>
  BY DEF Http!Call
<1>2. /\ new \in Http!Calls /\ new.at = "sent" /\ new.request = r /\ new.handled = 0
  <2>1. Http!RequestETag(r, FALSE) \in Http!Contents \union {NoEntry}
    BY RequestETagType
  <2>2. Http!Idle \in Http!Calls /\ Http!Idle.handled = 0
    BY IdleIsSound DEF Http!Idle
  <2> QED
    BY <2>1, <2>2 DEF Http!Calls
<1>3. Sound(new)
  BY <1>2 DEF Sound
<1>4. s5' \in 0..MaxCalls /\ s6' \in Http!Server
  BY <1>1, HttpTypes, CallsAssumption
<1> HIDE DEF new
<1> QED
  BY <1>1, <1>2, <1>3, <1>4, OnlyCallChanges

LEMMA ServerHandlesKeeps ==
  ASSUME HttpIInv, NEW c \in Callers, Http!ServerHandles(c)
  PROVE  HttpIInv'
<1> DEFINE r == s4[c].request
<1>1. PICK forced \in BOOLEAN, signed \in BOOLEAN, genuine \in BOOLEAN :
        LET handled == Http!Handled(r, s4[c].etag, forced) IN
        /\ signed => genuine
        /\ s4' = [s4 EXCEPT
             ![c].at = "answered", ![c].handled = @ + 1,
             ![c].reply = [status |-> handled.status, code |-> handled.code,
                           body |-> [content |-> handled.content, genuine |-> genuine],
                           etag |-> IF Http!HasETag(r) THEN handled.content ELSE NoEntry,
                           signed |-> signed]]
        /\ s6' = handled.server
  BY DEF Http!ServerHandles
<1>2. s4[c].at = "sent" /\ UNCHANGED <<s1, s2, s3, s5>>
  BY DEF Http!ServerHandles
<1>3. /\ s4[c] \in Http!Calls /\ Sound(s4[c]) /\ s6 \in Http!Server
      /\ s4 \in [Callers -> Http!Calls]
  BY HttpTypes
<1>4. r \in Http!Requests
  BY <1>2, <1>3 DEF Sound
<1> DEFINE handled == Http!Handled(r, s4[c].etag, forced)
<1>5. /\ handled \in Handling
      /\ r.endpoint \in Http!Gets => handled.content.of = r.user
      /\ r.endpoint \notin Http!Gets => handled.status # 304
  BY <1>3, <1>4, GetsAnswer, PostsAnswer
<1> HIDE DEF handled
<1> DEFINE reply == [status |-> handled.status, code |-> handled.code,
                     body |-> [content |-> handled.content, genuine |-> genuine],
                     etag |-> IF Http!HasETag(r) THEN handled.content ELSE NoEntry,
                     signed |-> signed]
           new == [s4[c] EXCEPT !.at = "answered", !.handled = s4[c].handled + 1,
                                  !.reply = reply]
<1>6. /\ reply \in Http!Replies /\ reply.status = handled.status /\ reply.signed = signed
      /\ reply.body.genuine = genuine /\ reply.body.content = handled.content
      /\ reply.status # 429
  BY <1>5 DEF Handling, Http!Replies, Http!Bodies
<1>7. s4' = [s4 EXCEPT ![c] = new] /\ s6' = handled.server
  BY <1>1, <1>3 DEF handled
<1> HIDE DEF reply
<1>8. /\ new \in Http!Calls /\ new.at = "answered" /\ new.request = r /\ new.reply = reply
      /\ new.handled = s4[c].handled + 1
  <2>1. s4[c].handled + 1 \in Nat
    BY <1>3 DEF Http!Calls
  <2>2. s4[c] \in Http!Calls /\ reply \in Http!Replies
    BY <1>3, <1>6
  <2> QED
    BY <2>1, <2>2 DEF Http!Calls
<1> HIDE DEF new
<1>9. SoundReply(new)
  BY <1>1, <1>5, <1>6, <1>8 DEF SoundReply
<1>10. Sound(new)
  BY <1>2, <1>3, <1>4, <1>8, <1>9 DEF Sound
<1>11. s5' \in 0..MaxCalls /\ s6' \in Http!Server
  BY <1>2, <1>5, <1>7, HttpTypes DEF Handling
<1> QED
  BY <1>2, <1>7, <1>8, <1>10, <1>11, OnlyCallChanges

\* The answer to a request that the backend did not handle.
Refusal(request, reply) ==
  /\ reply \in Http!Replies
  /\ ~reply.signed
  /\ reply.status # 304
  /\ reply.body.content.of = request.user

LEMMA RefusalKeeps ==
  ASSUME HttpIInv, NEW c \in Callers, s4[c].at = "sent",
         NEW refusal, Refusal(s4[c].request, refusal),
         s4' = [s4 EXCEPT ![c] = [s4[c] EXCEPT !.at = "answered", !.reply = refusal]],
         UNCHANGED <<s1, s2, s3, s5, s6>>
  PROVE  HttpIInv'
<1> DEFINE new == [s4[c] EXCEPT !.at = "answered", !.reply = refusal]
<1>1. s4[c] \in Http!Calls /\ Sound(s4[c])
  BY HttpTypes
<1>2. /\ new \in Http!Calls /\ new.at = "answered" /\ new.request = s4[c].request
      /\ new.reply = refusal /\ new.handled = s4[c].handled
  <2>1. refusal \in Http!Replies
    BY DEF Refusal
  <2> QED
    BY <1>1, <2>1 DEF Http!Calls
<1>3. s4' = [s4 EXCEPT ![c] = new]
  OBVIOUS
<1> HIDE DEF new
<1>4. SoundReply(new)
  BY <1>1, <1>2 DEF SoundReply, Sound, Refusal
<1>5. Sound(new)
  BY <1>1, <1>2, <1>4 DEF Sound
<1> QED
  BY <1>2, <1>3, <1>5, HttpTypes, OnlyCallChanges

LEMMA ServerRefusesKeeps ==
  ASSUME HttpIInv, NEW c \in Callers, Http!ServerRefuses(c)
  PROVE  HttpIInv'
<1>1. s4[c].at = "sent" /\ Sound(s4[c]) /\ UNCHANGED <<s1, s2, s3, s5, s6>>
  BY HttpTypes DEF Http!ServerRefuses
<1>2. s4[c].request.user \in Users
  BY <1>1 DEF Sound, Http!Requests
<1>3. PICK refusal :
        /\ Refusal(s4[c].request, refusal)
        /\ s4' = [s4 EXCEPT ![c] = [s4[c] EXCEPT !.at = "answered", !.reply = refusal]]
  <2> DEFINE refused(status) ==
               [status |-> status, code |-> 0, signed |-> FALSE,
                body |-> [content |-> Http!CatalogPage(s4[c].request.user), genuine |-> TRUE],
                etag |-> NoEntry]
  <2>1. PICK status \in {429, 500} :
          s4' = [s4 EXCEPT ![c] = [s4[c] EXCEPT !.at = "answered",
                                                      !.reply = refused(status)]]
    BY DEF Http!ServerRefuses
  <2>2. Refusal(s4[c].request, refused(status))
    BY <1>2, CatalogPageType DEF Refusal, Http!Replies, Http!Bodies
  <2> HIDE DEF refused
  <2> WITNESS refused(status)
  <2> QED
    BY <2>1, <2>2
<1> QED
  BY <1>1, <1>3, RefusalKeeps

LEMMA TimePassesKeeps ==
  ASSUME HttpIInv, Http!TimePasses
  PROVE  HttpIInv'
<1>1. s6' = [s6 EXCEPT !.at = @ + 1] /\ UNCHANGED <<s1, s2, s3, s4, s5>>
  BY DEF Http!TimePasses
<1>2. s6' \in Http!Server
  BY <1>1, HttpTypes DEF Http!Server
<1>3. Http!TypeOK' /\ StoredIsSound'
  BY <1>1, <1>2, HttpTypes DEF Http!TypeOK, StoredIsSound
<1>4. \A d \in Callers : Sound(s4[d])'
  BY <1>1, HttpTypes DEF Sound, SoundReply, SoundResult
<1> QED
  BY <1>3, <1>4 DEF HttpIInv

\* The request ends with this result.
LEMMA EndsKeeps ==
  ASSUME HttpIInv, NEW c \in Callers, NEW result \in Http!Results, Http!Ends(c, result),
         s4[c].at # "idle", SoundResult(s4[c].request, result),
         UNCHANGED <<s1, s2, s5, s6>>,
         s3' \in [Http!Urls -> Http!Entries \union {NoEntry}], StoredIsSound'
  PROVE  HttpIInv'
<1> DEFINE new == [s4[c] EXCEPT !.at = "done", !.reply = NoReply, !.result = result]
<1>1. s4[c] \in Http!Calls /\ Sound(s4[c])
  BY HttpTypes
<1>2. /\ new \in Http!Calls /\ new.at = "done" /\ new.request = s4[c].request
      /\ new.handled = s4[c].handled /\ new.result = result
  BY <1>1 DEF Http!Calls
<1>3. s4' = [s4 EXCEPT ![c] = new]
  BY DEF Http!Ends
<1> HIDE DEF new
<1>4. Sound(new)
  BY <1>1, <1>2 DEF Sound
<1> QED
  BY <1>2, <1>3, <1>4, HttpTypes, CallChanges

LEMMA FailsKeeps ==
  ASSUME HttpIInv, NEW c \in Callers, NEW error \in Http!Errors, NEW code \in Nat,
         Http!Fails(c, error, code), s4[c].at # "idle",
         UNCHANGED <<s1, s2, s3, s5, s6>>
  PROVE  HttpIInv'
<1> DEFINE result == [ok |-> FALSE, error |-> error, code |-> code]
<1>1. result \in Http!Results /\ ~result.ok /\ Http!Ends(c, result)
  BY DEF Http!Results, Http!Fails
<1>2. StoredIsSound' /\ s3' \in [Http!Urls -> Http!Entries \union {NoEntry}]
  BY HttpTypes DEF StoredIsSound
<1> HIDE DEF result
<1>3. SoundResult(s4[c].request, result)
  BY <1>1 DEF SoundResult
<1> QED
  BY <1>1, <1>2, <1>3, EndsKeeps

LEMMA LostKeeps ==
  ASSUME HttpIInv, NEW c \in Callers, Http!Lost(c)
  PROVE  HttpIInv'
<1>1. s4[c].at # "idle" /\ Http!Fails(c, "network", 0) /\ UNCHANGED <<s1, s2, s3, s5, s6>>
  BY DEF Http!Lost
<1>2. "network" \in Http!Errors
  BY DEF Http!Errors
<1> QED
  BY <1>1, <1>2, FailsKeeps

LEMMA BackendRefusesKeeps ==
  ASSUME HttpIInv, NEW c \in Callers, Http!BackendRefuses(c)
  PROVE  HttpIInv'
<1>1. /\ s4[c].at = "answered" /\ Http!Fails(c, "backend", s4[c].reply.code)
      /\ UNCHANGED <<s1, s2, s3, s5, s6>>
  BY DEF Http!BackendRefuses
<1>2. s4[c].reply \in Http!Replies
  BY <1>1, HttpTypes DEF Sound, SoundReply
<1>3. s4[c].reply.code \in Nat /\ "backend" \in Http!Errors
  BY <1>2 DEF Http!Replies, Http!Errors
<1> QED
  BY <1>1, <1>3, FailsKeeps

LEMMA ReturnedKeeps ==
  ASSUME HttpIInv, NEW c \in Callers, Http!Returned(c)
  PROVE  HttpIInv'
<1>1. s4' = [s4 EXCEPT ![c] = Http!Idle] /\ UNCHANGED <<s1, s2, s3, s5, s6>>
  BY DEF Http!Returned
<1> QED
  BY <1>1, IdleIsSound, HttpTypes, OnlyCallChanges

\* The request waits for its next attempt.
LEMMA WaitsKeeps ==
  ASSUME HttpIInv, NEW c \in Callers, s4[c].at = "answered",
         s4[c].request.endpoint \notin Http!Gets => s4[c].handled = 0,
         Http!MayRetry(c),
         s4' = [s4 EXCEPT ![c] = [s4[c] EXCEPT !.at = "waiting", !.reply = NoReply]],
         UNCHANGED <<s1, s2, s3, s5, s6>>
  PROVE  HttpIInv'
<1> DEFINE new == [s4[c] EXCEPT !.at = "waiting", !.reply = NoReply]
<1>1. s4[c] \in Http!Calls /\ Sound(s4[c])
  BY HttpTypes
<1>2. /\ new \in Http!Calls /\ new.at = "waiting" /\ new.request = s4[c].request
      /\ new.handled = s4[c].handled /\ new.attempt = s4[c].attempt
  BY <1>1 DEF Http!Calls
<1> HIDE DEF new
<1>3. s4[c].attempt + 1 < Http!Attempts
  BY DEF Http!MayRetry
<1>4. Sound(new)
  BY <1>1, <1>2, <1>3 DEF Sound
<1>5. s4' = [s4 EXCEPT ![c] = new]
  BY DEF new
<1> QED
  BY <1>2, <1>4, <1>5, HttpTypes, OnlyCallChanges

LEMMA RateLimitedKeeps ==
  ASSUME HttpIInv, NEW c \in Callers, Http!RateLimited(c)
  PROVE  HttpIInv'
<1>1. CASE Http!MayRetry(c)
  <2>1. /\ s4[c].at = "answered" /\ Sound(s4[c])
        /\ s4[c].request.endpoint \notin Http!Gets => s4[c].handled = 0
    BY HttpTypes DEF Http!RateLimited, Sound, SoundReply
  <2>2. /\ s4' = [s4 EXCEPT ![c] = [s4[c] EXCEPT !.at = "waiting", !.reply = NoReply]]
        /\ UNCHANGED <<s1, s2, s3, s5, s6>>
    BY <1>1 DEF Http!RateLimited
  <2> QED
    BY <1>1, <2>1, <2>2, WaitsKeeps
<1>2. CASE ~Http!MayRetry(c)
  <2>1. /\ s4[c].at # "idle" /\ Http!Fails(c, "rateLimited", 0)
        /\ UNCHANGED <<s1, s2, s3, s5, s6>>
    BY <1>2 DEF Http!RateLimited
  <2>2. "rateLimited" \in Http!Errors
    BY DEF Http!Errors
  <2> QED
    BY <2>1, <2>2, FailsKeeps
<1> QED
  BY <1>1, <1>2

LEMMA RetryKeeps ==
  ASSUME HttpIInv, NEW c \in Callers, Http!Retry(c)
  PROVE  HttpIInv'
<1> DEFINE tag == Http!RequestETag(s4[c].request, FALSE)
           new == [s4[c] EXCEPT !.at = "sent", !.attempt = s4[c].attempt + 1, !.etag = tag]
<1>1. /\ s4[c] \in Http!Calls /\ Sound(s4[c]) /\ s4 \in [Callers -> Http!Calls]
      /\ s4[c].at = "waiting"
      /\ UNCHANGED <<s1, s2, s3, s5, s6>>
  BY HttpTypes DEF Http!Retry
<1>2. s4[c].request \in Http!Requests
  BY <1>1 DEF Sound
<1>3. tag \in Http!Contents \union {NoEntry}
  BY <1>2, RequestETagType
<1>7. s4[c].attempt + 1 \in 0..(Http!Attempts - 1)
  <2>1. s4[c].attempt \in 0..(Http!Attempts - 1) /\ s4[c].attempt + 1 < Http!Attempts
    BY <1>1 DEF Sound, Http!Calls
  <2> QED
    BY <2>1 DEF Http!Attempts
<1>4. s4' = [s4 EXCEPT ![c] = new]
  BY <1>1 DEF Http!Retry
<1> HIDE DEF tag
<1>5. /\ new \in Http!Calls /\ new.at = "sent" /\ new.request = s4[c].request
      /\ new.handled = s4[c].handled
  BY <1>1, <1>3, <1>7 DEF Http!Calls
<1> HIDE DEF new
<1>6. Sound(new)
  BY <1>1, <1>2, <1>5 DEF Sound
<1> QED
  BY <1>1, <1>4, <1>5, <1>6, HttpTypes, OnlyCallChanges

LEMMA ResolvesKeeps ==
  ASSUME HttpIInv, NEW c \in Callers, Http!Resolves(c)
  PROVE  HttpIInv'
<1> DEFINE r == s4[c].request
           reply == s4[c].reply
           verification == Http!Verification(r, reply)
           result == [ok |-> TRUE, status |-> reply.status, body |-> reply.body,
                      verification |-> verification]
           entry == [etag |-> reply.etag, body |-> reply.body, verification |-> verification]
<1>1. /\ s4[c].at = "answered" /\ reply.status \in {200, 201}
      /\ UNCHANGED <<s1, s2, s5, s6>>
  BY DEF Http!Resolves
<1>2. Sound(s4[c]) /\ SoundReply(s4[c]) /\ r \in Http!Requests /\ reply \in Http!Replies
  BY <1>1, HttpTypes DEF Sound, SoundReply
<1>3. CASE verification = "rejected"
  <2>1. Http!Fails(c, "signature", 0) /\ UNCHANGED s3
    BY <1>3 DEF Http!Resolves
  <2>2. "signature" \in Http!Errors
    BY DEF Http!Errors
  <2> QED
    BY <1>1, <2>1, <2>2, FailsKeeps
<1>4. CASE verification # "rejected"
  <2>1. /\ verification \in Http!Verifications
        /\ verification = "verified" => reply.body.genuine
        /\ s1 # "disabled" /\ r.endpoint \in Http!VerifiedEndpoints
             => verification \in {"verified", "failed"}
        /\ s1 = "enforced" /\ r.endpoint \in Http!VerifiedEndpoints => verification = "verified"
    BY <1>2, <1>4 DEF SoundReply, Http!Verification, Http!Verifications, Http!Verifying
  <2>2. /\ Http!Ends(c, result)
        /\ s3' = IF Http!Storable(r, reply, verification)
                 THEN [s3 EXCEPT ![Http!Url(r)] = entry] ELSE s3
    BY <1>4 DEF Http!Resolves
  <2> HIDE DEF verification
  <2>3. reply.body \in Http!Bodies /\ reply.etag \in Http!Contents \union {NoEntry}
    BY <1>2 DEF Http!Replies
  <2>4. result \in Http!Results /\ SoundResult(r, result)
    <3>1. result \in Http!Results
      BY <1>1, <2>1, <2>3 DEF Http!Results
    <3>2. r.endpoint \in Http!Gets => reply.body.content.of = r.user
      BY <1>2 DEF SoundReply
    <3> QED
      BY <2>1, <3>1, <3>2 DEF SoundResult
  <2>5. CASE Http!Storable(r, reply, verification)
    <3>1. /\ r.endpoint \in Http!Gets /\ verification # "failed" /\ reply.etag # NoEntry
          /\ Http!Url(r) = <<r.endpoint, r.user>> /\ Http!Url(r) \in Http!Urls
      BY <1>2, <2>5 DEF Http!Storable, Http!Url, Http!Urls, Http!Requests
    <3>2. entry \in Http!Entries /\ entry.body = reply.body
      BY <2>1, <2>3, <3>1 DEF Http!Entries
    <3>3. /\ entry.body.content.of = r.user
          /\ s1 # "disabled" /\ r.endpoint \in Http!VerifiedEndpoints => entry.body.genuine
      BY <1>2, <2>1, <3>1, <3>2 DEF SoundReply
    <3> HIDE DEF entry
    <3>4. s3' = [s3 EXCEPT ![Http!Url(r)] = entry] /\ s1' = s1
      BY <1>1, <2>2, <2>5
    <3>5. s3' \in [Http!Urls -> Http!Entries \union {NoEntry}]
      BY <3>1, <3>2, <3>4, HttpTypes
    <3>6. \A url \in Http!Urls : s3'[url] = IF url = Http!Url(r) THEN entry ELSE s3[url]
      BY <3>1, <3>4, HttpTypes
    <3>7. Http!Url(r)[1] = r.endpoint /\ Http!Url(r)[2] = r.user
      BY <3>1
    <3>8. StoredIsSound'
      BY <3>3, <3>4, <3>6, <3>7, HttpTypes DEF StoredIsSound
    <3> HIDE DEF result
    <3> QED
      BY <1>1, <2>2, <2>4, <3>5, <3>8, EndsKeeps
  <2>6. CASE ~Http!Storable(r, reply, verification)
    <3>1. s3' = s3 /\ s1' = s1
      BY <1>1, <2>2, <2>6
    <3>2. StoredIsSound' /\ s3' \in [Http!Urls -> Http!Entries \union {NoEntry}]
      BY <3>1, HttpTypes DEF StoredIsSound
    <3> HIDE DEF result
    <3> QED
      BY <1>1, <2>2, <2>4, <3>2, EndsKeeps
  <2> QED
    BY <2>5, <2>6
<1> QED
  BY <1>3, <1>4

LEMMA NotModifiedKeeps ==
  ASSUME HttpIInv, NEW c \in Callers, Http!NotModified(c)
  PROVE  HttpIInv'
<1> DEFINE r == s4[c].request
           verification == Http!Verification(r, s4[c].reply)
           entry == s3[Http!Url(r)]
<1>1. /\ s4[c].at = "answered" /\ s4[c].reply.status = 304
      /\ UNCHANGED <<s1, s2, s3, s5, s6>>
  BY DEF Http!NotModified
<1>2. Sound(s4[c]) /\ SoundReply(s4[c]) /\ r \in Http!Requests /\ s4[c] \in Http!Calls
  BY <1>1, HttpTypes DEF Sound
<1>3. /\ r.endpoint \in Http!Gets /\ Http!Url(r) \in Http!Urls
      /\ Http!Url(r)[1] = r.endpoint /\ Http!Url(r)[2] = r.user
  BY <1>1, <1>2 DEF SoundReply, Http!Urls, Http!Url, Http!Requests
<1>4. CASE verification = "rejected" /\ Http!Fails(c, "signature", 0)
  <2>1. "signature" \in Http!Errors
    BY DEF Http!Errors
  <2> QED
    BY <1>1, <1>4, <2>1, FailsKeeps
<1>5. CASE /\ verification # "rejected" /\ entry # NoEntry
           /\ Http!Ends(c, [ok |-> TRUE, status |-> 200, body |-> entry.body,
                       verification |-> verification])
  <2> DEFINE result == [ok |-> TRUE, status |-> 200, body |-> entry.body,
                        verification |-> verification]
  <2>1. /\ verification \in Http!Verifications
        /\ verification = "verified" => s1 # "disabled" /\ r.endpoint \in Http!VerifiedEndpoints
        /\ s1 = "enforced" /\ r.endpoint \in Http!VerifiedEndpoints => verification = "verified"
    BY <1>5 DEF Http!Verification, Http!Verifications, Http!Verifying
  <2> HIDE DEF verification
  <2>2. /\ entry \in Http!Entries /\ entry.body.content.of = r.user
        /\ s1 # "disabled" /\ r.endpoint \in Http!VerifiedEndpoints => entry.body.genuine
    BY <1>3, <1>5, HttpTypes DEF StoredIsSound
  <2>3. result \in Http!Results
    BY <2>1, <2>2 DEF Http!Results, Http!Entries
  <2>4. SoundResult(r, result)
    BY <2>1, <2>2 DEF SoundResult
  <2>5. StoredIsSound' /\ s3' \in [Http!Urls -> Http!Entries \union {NoEntry}]
    BY <1>1, HttpTypes DEF StoredIsSound
  <2>6. Http!Ends(c, result)
    BY <1>5
  <2> HIDE DEF result
  <2> QED
    BY <1>1, <2>3, <2>4, <2>5, <2>6, EndsKeeps
<1>6. CASE s4[c].refresh /\ Http!Fails(c, "notModified", 0)
  <2>1. "notModified" \in Http!Errors
    BY DEF Http!Errors
  <2> QED
    BY <1>1, <1>6, <2>1, FailsKeeps
<1>7. CASE s4' = [s4 EXCEPT ![c].at = "sent", ![c].refresh = TRUE,
                                ![c].etag = Http!RequestETag(r, TRUE), ![c].reply = NoReply]
  <2> DEFINE tag == Http!RequestETag(r, TRUE)
             new == [s4[c] EXCEPT !.at = "sent", !.refresh = TRUE, !.etag = tag,
                                    !.reply = NoReply]
  <2>1. tag \in Http!Contents \union {NoEntry}
    BY <1>2, RequestETagType
  <2>2. s4' = [s4 EXCEPT ![c] = new]
    BY <1>7, HttpTypes
  <2> HIDE DEF tag
  <2>3. new \in Http!Calls /\ new.at = "sent" /\ new.request = r
    BY <1>2, <2>1 DEF Http!Calls
  <2> HIDE DEF new
  <2>4. Sound(new)
    BY <1>2, <1>3, <2>3 DEF Sound
  <2> QED
    BY <1>1, <2>2, <2>3, <2>4, HttpTypes, OnlyCallChanges
<1> QED
  BY <1>4, <1>5, <1>6, <1>7 DEF Http!NotModified

LEMMA HttpNextKeeps == HttpIInv /\ (Http!Next \/ UNCHANGED Http!vars) => HttpIInv'
<1> SUFFICES ASSUME HttpIInv, Http!Next \/ UNCHANGED Http!vars
             PROVE  HttpIInv'
  OBVIOUS
<1>1. CASE UNCHANGED Http!vars
  BY <1>1 DEF Http!vars, HttpIInv, Http!TypeOK, StoredIsSound, Sound, SoundReply, SoundResult
<1>2. CASE Http!TimePasses
  BY <1>2, TimePassesKeeps
<1>3. ASSUME NEW c \in Callers, NEW request \in Http!Requests, Http!Call(c, request)
      PROVE  HttpIInv'
  BY <1>3, CallKeeps
<1>4. ASSUME NEW c \in Callers,
             \/ Http!ServerHandles(c) \/ Http!ServerRefuses(c) \/ Http!Lost(c)
             \/ Http!Resolves(c) \/ Http!BackendRefuses(c) \/ Http!NotModified(c)
             \/ Http!RateLimited(c) \/ Http!Retry(c) \/ Http!Returned(c)
      PROVE  HttpIInv'
  BY <1>4, ServerHandlesKeeps, ServerRefusesKeeps, LostKeeps, ResolvesKeeps,
     BackendRefusesKeeps, NotModifiedKeeps, RateLimitedKeeps, RetryKeeps, ReturnedKeeps
<1> QED
  BY <1>1, <1>2, <1>3, <1>4 DEF Http!Next

LEMMA HttpInit == Http!Init => HttpIInv
<1> SUFFICES ASSUME Http!Init PROVE HttpIInv
  OBVIOUS
<1>1. Http!NewServer \in Http!Server
  BY DEF Http!NewServer, Http!Server, Http!Subscriber
<1>2. Http!TypeOK
  BY <1>1, IdleIsSound, CallsAssumption DEF Http!Init, Http!TypeOK
<1>3. StoredIsSound /\ \A c \in Callers : Sound(s4[c])
  BY IdleIsSound DEF Http!Init, StoredIsSound
<1> QED
  BY <1>2, <1>3 DEF HttpIInv

LEMMA HttpImplies == HttpIInv => Http!VerifiedIsGenuine /\ Http!HandledOnce
<1> SUFFICES ASSUME HttpIInv, NEW c \in Callers
             PROVE  /\ Http!Successful(c) =>
                         LET result == s4[c].result IN
                         /\ result.verification = "verified" => result.body.genuine
                         /\ s1 = "enforced" /\ s4[c].request.endpoint \in Http!VerifiedEndpoints
                              => result.verification = "verified"
                         /\ s4[c].request.endpoint \in Http!Gets
                              => result.body.content.of = s4[c].request.user
                    /\ s4[c].at # "idle" /\ s4[c].request.endpoint \notin Http!Gets
                         => s4[c].handled <= 1
  BY DEF Http!VerifiedIsGenuine, Http!HandledOnce
<1>1. Sound(s4[c])
  BY HttpTypes
<1> QED
  BY <1>1 DEF Sound, SoundResult, Http!Successful

LEMMA HttpHolds == Spec => [](part = "http" => HttpIInv)
<1>1. Init => (part = "http" => HttpIInv)
  BY HttpInit DEF Init
<1>2. (part = "http" => HttpIInv) /\ [Next]_vars => (part = "http" => HttpIInv)'
  <2> SUFFICES ASSUME part = "http" => HttpIInv, [Next]_vars, part' = "http"
               PROVE  HttpIInv'
    OBVIOUS
  <2>1. part = "http" /\ (Http!Next \/ UNCHANGED Http!vars)
    BY DEF Next, vars, Http!vars
  <2> QED
    BY <2>1, HttpNextKeeps
<1> QED
  BY <1>1, <1>2, PTL DEF Spec

\* HttpClient: a result that says it is verified is what the backend sent, and a GET
\* answers its own user, for any users, callers and number of requests (client.rs:385,
\* etag.rs:40).
THEOREM VerifiedAreGenuine == Spec => []VerifiedIsGenuine
<1>1. Spec => [](part = "http" => HttpIInv)
  BY HttpHolds
<1>2. (part = "http" => HttpIInv) => VerifiedIsGenuine
  BY HttpImplies DEF VerifiedIsGenuine
<1> QED
  BY <1>1, <1>2, PTL

\* HttpClient: the backend handles a POST once at most, however answers are lost, refused
\* and tried again (client.rs:393).
THEOREM PostsHandledOnce == Spec => []HandledOnce
<1>1. Spec => [](part = "http" => HttpIInv)
  BY HttpHolds
<1>2. (part = "http" => HttpIInv) => HandledOnce
  BY HttpImplies DEF HandledOnce
<1> QED
  BY <1>1, <1>2, PTL

-----------------------------------------------------------------------------
(* StoreOptions.  s1: user, s2: offers, s3: options, s4: known,             *)
(* s5: saturated, s6: fetch, s7: buying, s8: issued, s9: issuedNow          *)
(*                                                                          *)
(* The property says nothing of the registry.  What keeps it true is that   *)
(* every package handed out since the last switch is remembered: with its   *)
(* option, with two that make it ambiguous, or not at all because the       *)
(* registry was full, and then it stays full until the next switch.         *)

\* The instance counts as this module does.
LEMMA OffersCardinality == \A S : Offers!Cardinality(S) = Cardinality(S)
BY Zenon DEF Offers!Cardinality, Cardinality

\* Every package of the current user that the SDK returned since the last switch
\* has an option in the registry: its own, or two that make it ambiguous, unless
\* the registry was full.
Full == Cardinality(Offers!Shown(s3[s1])) >= MaxPerUser

Ambiguous(f) == \E p, q \in Offers!Matching(s3[s1], f) : p # q

Remembered(p) == \/ p \in s3[s1]
                 \/ Ambiguous(p[1])
                 \/ Full /\ p[1] \notin Offers!Shown(s3[s1])

Fetches == [at: {"idle", "reading", "resolved"}, user: Users \union {Nothing},
            response: SUBSET (Fingerprints \X Offers!Options)]

Fetching(f) == f \in Fetches /\ (f.at = "idle" \/ f.user \in Users)

OffersIInv ==
  /\ Offers!TypeOK
  /\ \A c \in Fetchers : Fetching(s6[c])
  /\ Offers!PackageKeepsItsPlan
  /\ s2[s1] # Nothing => s2[s1] \subseteq s9
  /\ s3[s1] \subseteq s9
  /\ \A p \in s9 : Remembered(p)
  /\ Offers!Shown(s9) \subseteq s8
  /\ s5 \/ s8 \subseteq s4

LEMMA OffersInit == Offers!Init => OffersIInv
<1> SUFFICES ASSUME Offers!Init PROVE OffersIInv
  OBVIOUS
<1>1. Fetching(Offers!Resting)
  BY DEF Fetching, Fetches, Offers!Resting
<1>2. /\ s2 \in [Users -> {Nothing} \union SUBSET (Fingerprints \X Offers!Options)]
      /\ s3 \in [Users -> SUBSET (Fingerprints \X Offers!Options)]
      /\ s6 \in [Fetchers -> Fetches]
  <2>1. s2 \in [Users -> {Nothing} \union SUBSET (Fingerprints \X Offers!Options)]
    BY DEF Offers!Init
  <2>2. s3 \in [Users -> SUBSET (Fingerprints \X Offers!Options)]
    BY DEF Offers!Init
  <2>3. s6 \in [Fetchers -> Fetches]
    BY <1>1 DEF Offers!Init, Fetching
  <2> QED BY <2>1, <2>2, <2>3
<1>3. Offers!TypeOK
  BY <1>2 DEF Offers!Init, Offers!TypeOK, Fetches
<1> QED BY <1>1, <1>3
           DEF Offers!Init, OffersIInv, Offers!PackageKeepsItsPlan,
               Offers!OnlyCurrentUserHasOffers, Offers!Shown

\* A step that only moves the fetch of a caller.
LEMMA OffersUntouched ==
  ASSUME OffersIInv, UNCHANGED <<s1, s2, s3, s4, s5, s7, s8,
                                 s9>>,
         NEW c \in Fetchers, NEW f, Fetching(f), s6' = [s6 EXCEPT ![c] = f]
  PROVE  OffersIInv'
<1>1. Offers!TypeOK'
  BY DEF OffersIInv, Offers!TypeOK, Fetching, Fetches
<1>2. \A d \in Fetchers : Fetching(s6'[d])
  BY DEF OffersIInv, Offers!TypeOK
<1>3. \A p \in s9 : Remembered(p) <=> Remembered(p)'
  BY DEF Remembered, Ambiguous, Full, Offers!Matching
<1> QED BY <1>1, <1>2, <1>3
           DEF OffersIInv, Offers!PackageKeepsItsPlan, Offers!OnlyCurrentUserHasOffers

LEMMA OffersCached ==
  ASSUME OffersIInv, NEW c \in Fetchers, Offers!ServeCached(c)
  PROVE  OffersIInv'
<1>1. s6[c].user \in Users /\ s6[c].user = s1
  BY DEF Offers!ServeCached, OffersIInv, Offers!PackageKeepsItsPlan,
         Offers!OnlyCurrentUserHasOffers, Fetching
<1>2. s2[s1] \subseteq s9
  BY <1>1 DEF Offers!ServeCached, OffersIInv
<1>3. Offers!Shown(s2[s1]) \subseteq s8
  BY <1>2 DEF OffersIInv, Offers!Shown
<1>4. s9' = s9 /\ s8' = s8
  BY <1>1, <1>2, <1>3 DEF Offers!ServeCached, Offers!Issue
<1>5. Fetching(Offers!Resting)
  BY DEF Fetching, Fetches, Offers!Resting
<1> QED BY <1>4, <1>5, OffersUntouched DEF Offers!ServeCached, Offers!registry

\* Steps of a caller that only move its fetch.
LEMMA OffersFetch ==
  ASSUME OffersIInv, NEW c \in Fetchers,
         Offers!GetOfferings(c) \/ Offers!OfferingsArrive(c) \/ Offers!FetchFails(c)
  PROVE  OffersIInv'
<1>1. CASE Offers!GetOfferings(c)
  <2>1. Fetching([at |-> "reading", user |-> s1, response |-> {}])
    BY DEF OffersIInv, Offers!TypeOK, Fetching, Fetches
  <2> QED BY <1>1, <2>1, OffersUntouched DEF Offers!GetOfferings, Offers!registry
<1>2. CASE Offers!OfferingsArrive(c)
  <2>1. PICK response \in Offers!Catalogs :
          s6' = [s6 EXCEPT ![c].at = "resolved", ![c].response = response]
    BY <1>2 DEF Offers!OfferingsArrive
  <2> DEFINE new == [s6[c] EXCEPT !.at = "resolved", !.response = response]
  <2>2. s6[c] \in Fetches /\ s6[c].user \in Users /\ s6 \in [Fetchers -> Fetches]
    BY <1>2 DEF Offers!OfferingsArrive, OffersIInv, Offers!TypeOK, Fetching, Fetches
  <2>3. response \in SUBSET (Fingerprints \X Offers!Options)
    BY DEF Offers!Catalogs
  <2>4. Fetching(new)
    BY <2>2, <2>3 DEF Fetching, Fetches
  <2>5. s6' = [s6 EXCEPT ![c] = new]
    BY <2>1, <2>2 DEF Fetches
  <2> HIDE DEF new
  <2> QED BY <1>2, <2>4, <2>5, OffersUntouched DEF Offers!OfferingsArrive, Offers!registry
<1>3. CASE Offers!FetchFails(c)
  <2>1. Fetching(Offers!Resting)
    BY DEF Fetching, Fetches, Offers!Resting
  <2> QED BY <1>3, <2>1, OffersUntouched DEF Offers!FetchFails, Offers!registry
<1> QED BY <1>1, <1>2, <1>3

\* What the registry shows afterwards: what it showed and what was admitted; what
\* was not admitted found it full, and a full one admits nothing.
LEMMA RegistryGrows ==
  ASSUME NEW stored \in SUBSET (Fingerprints \X Offers!Options),
         NEW incoming \in SUBSET (Fingerprints \X Offers!Options),
         NEW admitted \in SUBSET (Offers!Shown(incoming) \ Offers!Shown(stored)),
         Offers!Admitted(admitted, Offers!Shown(incoming) \ Offers!Shown(stored),
                  MaxPerUser - Cardinality(Offers!Shown(stored)))
  PROVE  /\ Offers!Shown(Offers!RememberOptions(stored, incoming, admitted))
              = Offers!Shown(stored) \union admitted
         /\ \/ admitted = Offers!Shown(incoming) \ Offers!Shown(stored)
            \/ Cardinality(Offers!Shown(stored) \union admitted) >= MaxPerUser
         /\ Cardinality(Offers!Shown(stored)) >= MaxPerUser => admitted = {}
<1>1. /\ Offers!Shown(stored) \subseteq Fingerprints
      /\ Offers!Shown(incoming) \subseteq Fingerprints
  BY DEF Offers!Shown
<1>2. IsFiniteSet(Offers!Shown(stored)) /\ IsFiniteSet(admitted)
  <2>1. admitted \subseteq Fingerprints
    BY <1>1
  <2> QED BY <1>1, <2>1, FS_Subset, FingerprintsAssumption
<1>3. Cardinality(Offers!Shown(stored)) \in Nat /\ Cardinality(admitted) \in Nat
  BY <1>2, FS_CardinalityType
<1>4. Cardinality(Offers!Shown(stored) \union admitted)
        = Cardinality(Offers!Shown(stored)) + Cardinality(admitted)
  <2> DEFINE there == Offers!Shown(stored)
  <2>1. there \cap admitted = {}
    OBVIOUS
  <2> HIDE DEF there
  <2>2. Cardinality(there \cap admitted) = 0
    BY <2>1, FS_EmptySet
  <2>3. /\ IsFiniteSet(there) /\ IsFiniteSet(admitted)
        /\ Cardinality(there) \in Nat /\ Cardinality(admitted) \in Nat
    BY <1>2, <1>3 DEF there
  <2>4. Cardinality(there \union admitted)
          = Cardinality(there) + Cardinality(admitted) - Cardinality(there \cap admitted)
    BY <2>3, FS_Union
  <2>5. Cardinality(there \union admitted) = Cardinality(there) + Cardinality(admitted)
    BY <2>2, <2>3, <2>4
  <2> QED BY <2>5 DEF there
<1>5. Offers!Shown(Offers!RememberOptions(stored, incoming, admitted))
        = Offers!Shown(stored) \union admitted
  <2> DEFINE new == Offers!RememberOptions(stored, incoming, admitted)
  <2>1. ASSUME NEW p \in new PROVE p[1] \in Offers!Shown(stored) \union admitted
    BY <2>1 DEF Offers!RememberOptions, Offers!Conflicting, Offers!Matching, Offers!Shown
  <2>2. Offers!Shown(stored) \subseteq Offers!Shown(new)
    BY DEF Offers!RememberOptions, Offers!Shown
  <2>3. ASSUME NEW f \in admitted PROVE f \in Offers!Shown(new)
    <3>1. PICK p \in incoming : p[1] = f
      BY DEF Offers!Shown
    <3>2. p \in new
      BY <3>1 DEF Offers!RememberOptions
    <3> HIDE DEF new
    <3> QED BY <3>1, <3>2 DEF Offers!Shown
  <2>4. Offers!Shown(new) \subseteq Offers!Shown(stored) \union admitted
    <3> HIDE DEF new
    <3> QED BY <2>1 DEF Offers!Shown
  <2> HIDE DEF new
  <2>5. Offers!Shown(new) = Offers!Shown(stored) \union admitted
    BY <2>2, <2>3, <2>4
  <2> QED BY <2>5 DEF new
<1>6. Cardinality(admitted) = 0 => admitted = {}
  BY <1>2, FS_EmptySet
<1> QED BY <1>3, <1>4, <1>5, <1>6, OffersCardinality, FingerprintsAssumption
       DEF Offers!Admitted

\* What the current user has been offered stays remembered, and so does what the
\* response adds.
LEMMA RegistryRemembers ==
  ASSUME OffersIInv, NEW response \in SUBSET (Fingerprints \X Offers!Options),
         Offers!RememberForUser(s1, response)
  PROVE  /\ s3' \in [Users -> SUBSET (Fingerprints \X Offers!Options)]
         /\ s3'[s1] \subseteq s3[s1] \union response
         /\ \A u \in Users \ {s1} : s3'[u] = s3[u]
         /\ s1' = s1 => \A p \in s9 \union response : Remembered(p)'
<1> DEFINE stored == s3[s1]
<1>1. PICK admitted \in SUBSET (Offers!Shown(response) \ Offers!Shown(stored)) :
        /\ Offers!Admitted(admitted, Offers!Shown(response) \ Offers!Shown(stored),
                    MaxPerUser - Cardinality(Offers!Shown(stored)))
        /\ s3' = [s3 EXCEPT ![s1] = Offers!RememberOptions(@, response, admitted)]
  BY OffersCardinality DEF Offers!RememberForUser
<1>2. /\ s1 \in Users /\ s3 \in [Users -> SUBSET (Fingerprints \X Offers!Options)]
      /\ s9 \in SUBSET (Fingerprints \X Offers!Options)
  BY DEF OffersIInv, Offers!TypeOK
<1> DEFINE new == Offers!RememberOptions(stored, response, admitted)
<1>3. stored \subseteq new /\ new \subseteq stored \union response
  BY DEF Offers!RememberOptions, Offers!Conflicting
<1>4. stored \in SUBSET (Fingerprints \X Offers!Options)
  BY <1>2
<1>5. s3' = [s3 EXCEPT ![s1] = new]
  BY <1>1
<1>6. /\ Offers!Shown(new) = Offers!Shown(stored) \union admitted
      /\ \/ admitted = Offers!Shown(response) \ Offers!Shown(stored)
         \/ Cardinality(Offers!Shown(new)) >= MaxPerUser
      /\ Cardinality(Offers!Shown(stored)) >= MaxPerUser => admitted = {}
  <2> HIDE DEF stored
  <2>1. /\ Offers!Shown(Offers!RememberOptions(stored, response, admitted))
             = Offers!Shown(stored) \union admitted
        /\ \/ admitted = Offers!Shown(response) \ Offers!Shown(stored)
           \/ Cardinality(Offers!Shown(stored) \union admitted) >= MaxPerUser
        /\ Cardinality(Offers!Shown(stored)) >= MaxPerUser => admitted = {}
    BY <1>1, <1>4, RegistryGrows
  <2>2. Offers!Shown(new) = Offers!Shown(stored) \union admitted
    BY <2>1
  <2> HIDE DEF new
  <2> QED BY <2>1, <2>2
<1>7. ASSUME NEW p \in s9 \union response, s1' = s1 PROVE Remembered(p)'
  <2>1. s3'[s1] = new
    BY <1>2, <1>5
  <2> SUFFICES \/ p \in new
               \/ \E q, r \in Offers!Matching(new, p[1]) : q # r
               \/ Cardinality(Offers!Shown(new)) >= MaxPerUser /\ p[1] \notin Offers!Shown(new)
    BY <1>7, <2>1 DEF Remembered, Ambiguous, Full
  <2>2. CASE p \in s9
    <3>1. Remembered(p)
      BY <2>2 DEF OffersIInv
    <3>2. CASE \E q, r \in Offers!Matching(stored, p[1]) : q # r
      BY <3>2, <1>3 DEF Offers!Matching
    <3>3. CASE Full /\ p[1] \notin Offers!Shown(stored)
      BY <3>3, <1>6 DEF Full
    <3> QED BY <3>1, <3>2, <3>3, <1>3 DEF Remembered, Ambiguous
  <2>3. CASE p \in response /\ p[1] \in Offers!Shown(stored)
    <3>1. Offers!Matching(stored, p[1]) # {}
      BY <2>3 DEF Offers!Shown, Offers!Matching
    <3>2. CASE p \in stored
      BY <3>2, <1>3
    <3>3. CASE \E q, r \in Offers!Matching(stored, p[1]) : q # r
      BY <3>3, <1>3 DEF Offers!Matching
    <3>4. CASE p \notin stored /\ \A q, r \in Offers!Matching(stored, p[1]) : q = r
      <4>1. p \in Offers!Conflicting(stored, response)
        BY <2>3, <3>1, <3>4 DEF Offers!Conflicting
      <4> QED BY <4>1 DEF Offers!RememberOptions
    <3> QED BY <3>2, <3>3, <3>4
  <2>4. CASE p \in response /\ p[1] \notin Offers!Shown(stored)
    <3>1. CASE p[1] \in admitted
      BY <2>4, <3>1 DEF Offers!RememberOptions
    <3>2. CASE p[1] \notin admitted
      <4>1. p[1] \in Offers!Shown(response)
        BY <2>4 DEF Offers!Shown
      <4> HIDE DEF new, stored
      <4> QED BY <2>4, <3>2, <4>1, <1>6
    <3> QED BY <3>1, <3>2
  <2> QED BY <2>2, <2>3, <2>4
<1> HIDE DEF new
<1>8. new \in SUBSET (Fingerprints \X Offers!Options)
  BY <1>3, <1>4
<1> QED BY <1>2, <1>3, <1>5, <1>7, <1>8

\* The packages an app gets are stored for it, if it is still the current user.
LEMMA OffersStored ==
  ASSUME OffersIInv, NEW c \in Fetchers, Offers!StoreOfferings(c)
  PROVE  OffersIInv'
<1>1. Fetching(Offers!Resting)
  BY DEF Fetching, Fetches, Offers!Resting
<1>2. CASE s6[c].user # s1
  BY <1>1, <1>2, OffersUntouched DEF Offers!StoreOfferings, Offers!registry
<1>3. CASE s6[c].user = s1
  <2> DEFINE response == s6[c].response
  <2>1. /\ response \in SUBSET (Fingerprints \X Offers!Options)
        /\ s1 \in Users
    BY DEF OffersIInv, Offers!TypeOK, Fetching, Fetches
  <2>2. /\ s7 = Nothing /\ s7' = Nothing /\ s1' = s1
        /\ Offers!RememberForUser(s1, response)
        /\ s2' = [s2 EXCEPT ![s1] = response]
        /\ s6' = [s6 EXCEPT ![c] = Offers!Resting]
        /\ s8' = s8 \union Offers!Shown(response)
        /\ s9' = s9 \union response
    BY <1>3 DEF Offers!StoreOfferings, Offers!IdentityIsFree, Offers!Issue
  <2> HIDE DEF response
  <2>3. /\ s3' \in [Users -> SUBSET (Fingerprints \X Offers!Options)]
        /\ s3'[s1] \subseteq s3[s1] \union response
        /\ \A u \in Users \ {s1} : s3'[u] = s3[u]
        /\ \A p \in s9 \union response : Remembered(p)'
    BY <2>1, <2>2, RegistryRemembers
  <2>4. \A d \in Fetchers : Fetching(s6'[d])
    BY <1>1, <2>2 DEF OffersIInv, Offers!TypeOK
  <2>5. Offers!Shown(response) \subseteq Fingerprints
    BY <2>1 DEF Offers!Shown
  <2>6. /\ s4' \subseteq Fingerprints /\ s5' \in BOOLEAN
        /\ s5' \/ s8' \subseteq s4'
    <3>1. PICK admitted \in SUBSET (Offers!Shown(response) \ s4) :
            /\ s4' = s4 \union admitted
            /\ s5' = (s5 \/ admitted # Offers!Shown(response) \ s4)
      BY <2>2 DEF Offers!RememberForUser
    <3>2. /\ s4 \subseteq Fingerprints /\ s5 \in BOOLEAN
          /\ s5 \/ s8 \subseteq s4
      BY DEF OffersIInv, Offers!TypeOK
    <3>3. s4' \subseteq Fingerprints
      BY <3>1, <3>2, <2>5
    <3>4. s5' \in BOOLEAN
      BY <3>1
    <3>5. s5' \/ s8' \subseteq s4'
      <4>1. CASE ~s5 /\ admitted = Offers!Shown(response) \ s4
        BY <3>1, <3>2, <4>1, <2>2
      <4>2. CASE s5 \/ admitted # Offers!Shown(response) \ s4
        BY <3>1, <4>2, Zenon
      <4> QED BY <4>1, <4>2, Zenon
    <3> QED BY <3>3, <3>4, <3>5, Zenon
  <2>7. Offers!TypeOK'
    <3>1. s6' \in [Fetchers -> Fetches]
      BY <1>1, <2>2 DEF OffersIInv, Offers!TypeOK, Fetching, Fetches
    <3>2. s2' \in [Users -> {Nothing} \union SUBSET (Fingerprints \X Offers!Options)]
      BY <2>1, <2>2 DEF OffersIInv, Offers!TypeOK
    <3>3. s8' \subseteq Fingerprints /\ s9' \subseteq Fingerprints \X Offers!Options
      BY <2>1, <2>2, <2>5 DEF OffersIInv, Offers!TypeOK
    <3> QED BY <2>1, <2>2, <2>3, <2>6, <3>1, <3>2, <3>3 DEF Offers!TypeOK, Fetches
  <2>8. Offers!OnlyCurrentUserHasOffers'
    BY <2>2, <2>3
       DEF OffersIInv, Offers!TypeOK, Offers!PackageKeepsItsPlan,
           Offers!OnlyCurrentUserHasOffers
  <2>9. /\ s2'[s1] = response /\ response \subseteq s9'
        /\ s3'[s1] \subseteq s9'
        /\ Offers!Shown(s9') \subseteq s8'
    <3>1. s2'[s1] = response
      BY <2>1, <2>2 DEF OffersIInv, Offers!TypeOK
    <3>2. s3[s1] \subseteq s9
      BY DEF OffersIInv
    <3>3. Offers!Shown(s9) \subseteq s8
      BY DEF OffersIInv
    <3>4. Offers!Shown(s9') \subseteq Offers!Shown(s9) \union Offers!Shown(response)
      BY <2>2 DEF Offers!Shown
    <3> QED BY <2>2, <2>3, <3>1, <3>2, <3>3, <3>4
  <2> QED BY <2>2, <2>3, <2>4, <2>6, <2>7, <2>8, <2>9
             DEF OffersIInv, Offers!PackageKeepsItsPlan
<1> QED BY <1>2, <1>3

LEMMA OffersSwitch ==
  ASSUME OffersIInv, Offers!SwitchIdentity
  PROVE  OffersIInv'
<1>1. /\ s7 = Nothing /\ s7' = Nothing /\ s1' \in Users
      /\ s2' = [u \in Users |-> Nothing] /\ s3' = [u \in Users |-> {}]
      /\ s9' = {} /\ s6' = s6 /\ s8' = s8
      /\ s4' = s4 /\ s5' = s5
  BY DEF Offers!SwitchIdentity, Offers!IdentityIsFree
<1>2. Offers!TypeOK'
  <2>1. /\ s2' \in [Users -> {Nothing} \union SUBSET (Fingerprints \X Offers!Options)]
        /\ s3' \in [Users -> SUBSET (Fingerprints \X Offers!Options)]
    BY <1>1
  <2> QED BY <1>1, <2>1 DEF OffersIInv, Offers!TypeOK
<1>3. Offers!Shown(s9') \subseteq s8'
  BY <1>1 DEF Offers!Shown
<1> QED BY <1>1, <1>2, <1>3
           DEF OffersIInv, Offers!PackageKeepsItsPlan, Offers!OnlyCurrentUserHasOffers

\* What the registry lets an app buy is what it was offered.
LEMMA OffersBought ==
  ASSUME OffersIInv, NEW f \in Fingerprints, Offers!PurchasePackage(f)
  PROVE  OffersIInv'
<1>1. PICK option \in Offers!PurchaseOptions(f) : s7' = [package |-> f, option |-> option]
  BY DEF Offers!PurchasePackage
<1>2. UNCHANGED <<s1, s2, s3, s4, s5, s6, s8, s9>>
  BY DEF Offers!PurchasePackage, Offers!registry
<1> DEFINE matching == Offers!Matching(s3[s1], f)
<1>3. s3[s1] \subseteq s9 /\ s9 \subseteq Fingerprints \X Offers!Options
  BY DEF OffersIInv, Offers!TypeOK
<1>4. /\ option \in Offers!Options
      /\ \A p \in s9 : p[1] = f => p[2] = option
      /\ f \in s8 => <<f, option>> \in s9
  <2>1. CASE matching = {}
    <3>1. option = NoPlan /\ ~s5 /\ f \notin s4
      BY <1>1, <2>1 DEF Offers!PurchaseOptions, Offers!WasIssuedBySdk
    <3>2. f \notin s8
      BY <3>1 DEF OffersIInv
    <3>3. f \notin Offers!Shown(s9)
      BY <3>2 DEF OffersIInv
    <3> QED BY <3>1, <3>2, <3>3 DEF Offers!Options, Offers!Shown
  <2>2. CASE matching # {}
    <3>1. /\ \A p, q \in matching : p = q
          /\ option \in {p[2] : p \in matching}
      BY <1>1, <2>2 DEF Offers!PurchaseOptions
    <3>2. PICK q \in matching : option = q[2]
      BY <3>1
    <3>3. q \in s3[s1] /\ q[1] = f /\ q \in s9
      BY <3>2, <1>3 DEF Offers!Matching
    <3>4. q = <<f, option>> /\ option \in Offers!Options
      BY <3>2, <3>3, <1>3
    <3>5. ASSUME NEW p \in s9, p[1] = f PROVE p[2] = option
      <4>1. Remembered(p)
        BY DEF OffersIInv
      <4>2. ~Ambiguous(f)
        BY <3>1 DEF Ambiguous
      <4>3. f \in Offers!Shown(s3[s1])
        BY <3>3 DEF Offers!Shown
      <4>4. p \in matching
        BY <3>5, <4>1, <4>2, <4>3 DEF Remembered, Offers!Matching
      <4> QED BY <3>1, <3>2, <4>4
    <3> QED BY <3>3, <3>4, <3>5
  <2> QED BY <2>1, <2>2
<1>5. Offers!PackageKeepsItsPlan'
  BY <1>1, <1>2, <1>4
     DEF OffersIInv, Offers!PackageKeepsItsPlan, Offers!OnlyCurrentUserHasOffers
<1>6. Offers!TypeOK'
  BY <1>1, <1>2, <1>4 DEF OffersIInv, Offers!TypeOK
<1>7. \A p \in s9 : Remembered(p) <=> Remembered(p)'
  BY <1>2 DEF Remembered, Ambiguous, Full, Offers!Matching
<1> QED BY <1>2, <1>5, <1>6, <1>7 DEF OffersIInv

LEMMA OffersReturned ==
  ASSUME OffersIInv, Offers!PurchaseReturns \/ UNCHANGED Offers!vars
  PROVE  OffersIInv'
<1>1. UNCHANGED <<s1, s2, s3, s4, s5, s6, s8, s9>>
      /\ (s7' = Nothing \/ s7' = s7)
  BY DEF Offers!PurchaseReturns, Offers!registry, Offers!vars
<1>2. Offers!TypeOK' /\ Offers!PackageKeepsItsPlan'
  BY <1>1
     DEF OffersIInv, Offers!TypeOK, Offers!PackageKeepsItsPlan,
         Offers!OnlyCurrentUserHasOffers
<1>3. \A p \in s9 : Remembered(p) <=> Remembered(p)'
  BY <1>1 DEF Remembered, Ambiguous, Full, Offers!Matching
<1> QED BY <1>1, <1>2, <1>3 DEF OffersIInv

LEMMA OffersNext ==
  ASSUME OffersIInv, Offers!Next
  PROVE  OffersIInv'
BY OffersFetch, OffersCached, OffersStored, OffersSwitch, OffersBought, OffersReturned
   DEF Offers!Next

LEMMA OffersHold == Spec => [](part = "offerings" => OffersIInv)
<1>1. Init => (part = "offerings" => OffersIInv)
  BY OffersInit DEF Init
<1>2. (part = "offerings" => OffersIInv) /\ [Next]_vars => (part = "offerings" => OffersIInv)'
  <2> SUFFICES ASSUME part = "offerings" => OffersIInv, [Next]_vars, part' = "offerings"
               PROVE  OffersIInv'
    OBVIOUS
  <2>1. part = "offerings" /\ (Offers!Next \/ UNCHANGED Offers!vars)
    BY DEF Next, vars, Offers!vars, from7, from9
  <2> QED
    BY <2>1, OffersNext, OffersReturned
<1> QED
  BY <1>1, <1>2, PTL DEF Spec

\* StoreOptions: a package is bought with the plan it was offered with, however many
\* packages, plans and users there are and however small the registry is
\* (store_options.rs:219, 252).
THEOREM PackagesKeepTheirPlan == Spec => []PackageKeepsItsPlan
<1>1. Spec => [](part = "offerings" => OffersIInv)
  BY OffersHold
<1>2. (part = "offerings" => OffersIInv) => PackageKeepsItsPlan
  BY DEF OffersIInv, PackageKeepsItsPlan
<1> QED
  BY <1>1, <1>2, PTL

-----------------------------------------------------------------------------
(* Entitlements.  s1: day, s2: catalog, s3: held, s4: replay, s5: cache,    *)
(* s6: answer                                                               *)
(*                                                                          *)
(* An action property: the invariant only says that the stored answer the   *)
(* backend may confirm is an answer it gave.                                *)

\* An answer of the backend: it is not from the future, and what it grants has an
\* expiration date or ends never.
Answer(body) ==
  /\ body.requestDate \in Customer!Day
  /\ body.entitlement = Nothing \/ body.entitlement.expires \in Customer!Expiry
  /\ body.subscription = Nothing \/ body.subscription \in Customer!Expiry

EntitledIInv ==
  /\ Customer!TypeOK
  /\ s2 \in {<<"monthly", "forever">>, <<"forever", "monthly">>}
  /\ s4 = Nothing \/ Answer(s4)

LEMMA EntitledInit == Customer!Init => EntitledIInv
<1> SUFFICES ASSUME Customer!Init PROVE EntitledIInv
  OBVIOUS
<1>1. s1 \in Customer!Day /\ Nothing \in Customer!Expiry \union {Nothing}
  BY DaysAssumption DEF Customer!Init, Customer!Day
<1> QED BY <1>1 DEF Customer!Init, EntitledIInv, Customer!TypeOK

LEMMA EntitledGrants ==
  ASSUME NEW bought \in [Customer!Products -> Customer!Expiry \union {Nothing}],
         s2 \in {<<"monthly", "forever">>, <<"forever", "monthly">>}
  PROVE  \/ Customer!Granted(bought) = Nothing
         \/ Customer!Granted(bought).expires \in Customer!Expiry
<1> DEFINE Fits(granted) == granted = Nothing \/ granted.expires \in Customer!Expiry
<1>1. ASSUME NEW granted, NEW product \in Customer!Products, Fits(granted)
      PROVE  Fits(Customer!WithProduct(granted, product, bought))
  <2>1. bought[product] \in Customer!Expiry \union {Nothing}
    OBVIOUS
  <2>2. Customer!WithProduct(granted, product, bought) = granted
        \/ /\ bought[product] # Nothing
           /\ Customer!WithProduct(granted, product, bought)
                = Customer!Entitlement(product, bought[product])
    BY DEF Customer!WithProduct
  <2>3. Customer!Entitlement(product, bought[product]).expires = bought[product]
    BY DEF Customer!Entitlement
  <2> QED BY <1>1, <2>1, <2>2, <2>3
<1>2. s2[1] \in Customer!Products /\ s2[2] \in Customer!Products
  BY DEF Customer!Products
<1>3. Fits(Nothing)
  OBVIOUS
<1> DEFINE first == Customer!WithProduct(Nothing, s2[1], bought)
<1>4. Fits(first)
  BY <1>1, <1>2, <1>3
<1>5. Customer!Granted(bought) = Customer!WithProduct(first, s2[2], bought)
  BY DEF Customer!Granted
<1> HIDE DEF first
<1>6. Fits(Customer!Granted(bought))
  <2> HIDE DEF Fits
  <2> QED BY <1>1, <1>2, <1>4, <1>5
<1> QED BY <1>6

LEMMA EntitledAnswers ==
  ASSUME NEW bought \in [Customer!Products -> Customer!Expiry \union {Nothing}],
         EntitledIInv
  PROVE  Answer(Customer!Envelope(bought))
<1>1. \/ Customer!Granted(bought) = Nothing
      \/ Customer!Granted(bought).expires \in Customer!Expiry
  BY EntitledGrants DEF EntitledIInv
<1>2. bought["monthly"] \in Customer!Expiry \union {Nothing}
  BY DEF Customer!Products
<1>3. /\ Customer!Envelope(bought).requestDate = s1
      /\ Customer!Envelope(bought).entitlement = Customer!Granted(bought)
      /\ Customer!Envelope(bought).subscription = bought["monthly"]
  BY DEF Customer!Envelope
<1> QED BY <1>1, <1>2, <1>3 DEF Answer, EntitledIInv, Customer!TypeOK

\* How an answer is read: its type, and that it grants nothing that ended longer ago
\* than the grace period.
LEMMA EntitledReads ==
  ASSUME NEW body, Answer(body), s1 \in Customer!Day
  PROVE  /\ Customer!FromResponse(body) \in Customer!Infos
         /\ ~ /\ Customer!Active(Customer!FromResponse(body))
              /\ Customer!Ended(Customer!FromResponse(body), GraceDays)
<1> DEFINE info == Customer!FromResponse(body)
           given == Customer!BuildEntitlement(body)
<1>1. /\ info.requestDate = body.requestDate
      /\ info.entitlement = IF body.entitlement = Nothing THEN Nothing ELSE given
      /\ info.subscription
           = IF body.subscription = Nothing THEN Nothing
             ELSE Customer!BuildSubscription(body)
  BY DEF Customer!FromResponse
<1>2. /\ given.expires = body.entitlement.expires
      /\ given.isActive = Customer!IsActiveAt(body.entitlement.expires, body.requestDate)
  BY DEF Customer!BuildEntitlement
<1>3. body.entitlement # Nothing =>
        given \in [expires: Customer!Expiry, isActive: BOOLEAN, willRenew: BOOLEAN]
  BY DEF Customer!BuildEntitlement, Answer, Customer!IsActiveAt, Customer!WillRenew
<1>4. body.subscription # Nothing =>
        Customer!BuildSubscription(body)
          \in [expires: Customer!Expiry, isActive: BOOLEAN, willRenew: BOOLEAN]
  BY DEF Customer!BuildSubscription, Answer, Customer!IsActiveAt, Customer!WillRenew
<1>5. info \in Customer!Infos
  <2>1. body.requestDate \in Customer!Day
    BY DEF Answer
  <2> HIDE DEF given
  <2> QED BY <1>3, <1>4, <2>1 DEF Customer!FromResponse, Customer!Infos, given
<1>6. ASSUME body.entitlement # Nothing, given.isActive,
             given.expires # Never, given.expires + GraceDays < s1
      PROVE  FALSE
  <2> DEFINE expires == body.entitlement.expires
  <2>1. /\ expires \in Nat /\ body.requestDate \in Nat /\ s1 \in Nat
        /\ GraceDays \in Nat
    BY <1>2, <1>6, DaysAssumption DEF Answer, Customer!Expiry, Customer!Day
  <2>2. expires >= Customer!Reference(body.requestDate)
    BY <1>2, <1>6 DEF Customer!IsActiveAt
  <2>3. expires + GraceDays < s1
    BY <1>2, <1>6
  <2> HIDE DEF expires
  <2> QED BY <2>1, <2>2, <2>3 DEF Customer!Reference
<1> HIDE DEF info, given
<1>7. ~(Customer!Active(info) /\ Customer!Ended(info, GraceDays))
  BY <1>1, <1>6 DEF Customer!Active, Customer!Ended
<1> QED BY <1>5, <1>7 DEF info

LEMMA EntitledFetch ==
  ASSUME EntitledIInv, Customer!FetchCustomerInfo
  PROVE  \E body : Answer(body) /\ Customer!FetchAndCache(body)
<1>1. Answer(Customer!Envelope(s3))
  BY EntitledAnswers DEF EntitledIInv, Customer!TypeOK
<1> QED BY <1>1 DEF Customer!FetchCustomerInfo, Customer!SameAsCurrent, EntitledIInv

LEMMA EntitledPurchase ==
  ASSUME EntitledIInv, NEW product \in Customer!Products,
         Customer!Purchase(product) \/ Customer!PurchaseElsewhere(product)
  PROVE  EntitledIInv'
<1>1. Customer!ExpiryFor(product) \in Customer!Expiry
  BY DaysAssumption
     DEF Customer!ExpiryFor, Customer!Expiry, EntitledIInv, Customer!TypeOK, Customer!Day
<1>2. Customer!GrantProduct(product)
        \in [Customer!Products -> Customer!Expiry \union {Nothing}]
  BY <1>1 DEF Customer!GrantProduct, EntitledIInv, Customer!TypeOK
<1> DEFINE info == Customer!FromResponse(Customer!Envelope(Customer!GrantProduct(product)))
<1>3. info \in Customer!Infos
  BY <1>2, EntitledAnswers, EntitledReads DEF EntitledIInv, Customer!TypeOK
<1>4. /\ s3' = Customer!GrantProduct(product) /\ UNCHANGED <<s1, s2, s4>>
      /\ s5' \in {s5, info} /\ s6' \in {Nothing, info}
  BY DEF Customer!Purchase, Customer!PurchaseElsewhere
<1> HIDE DEF info
<1> QED BY <1>2, <1>3, <1>4 DEF EntitledIInv, Customer!TypeOK, Answer

LEMMA EntitledGet ==
  ASSUME EntitledIInv, NEW policy \in Customer!Policies, Customer!GetCustomerInfo(policy)
  PROVE  EntitledIInv'
<1>1. UNCHANGED <<s1, s2, s3>>
  BY DEF Customer!GetCustomerInfo
<1>2. CASE Customer!ServeCached
  BY <1>1, <1>2 DEF Customer!ServeCached, EntitledIInv, Customer!TypeOK, Answer
<1>3. CASE Customer!FetchCustomerInfo
  <2>1. PICK body : Answer(body) /\ Customer!FetchAndCache(body)
    BY <1>3, EntitledFetch
  <2> DEFINE info == Customer!FromResponse(body)
  <2>2. info \in Customer!Infos
    BY <2>1, EntitledReads DEF EntitledIInv, Customer!TypeOK
  <2>3. s5' = info /\ s6' = info /\ s4' = body
    BY <2>1 DEF Customer!FetchAndCache
  <2> HIDE DEF info
  <2> QED BY <1>1, <2>1, <2>2, <2>3 DEF EntitledIInv, Customer!TypeOK, Answer
<1> QED BY <1>2, <1>3 DEF Customer!GetCustomerInfo

LEMMA EntitledKeeps ==
  ASSUME EntitledIInv, Customer!Next \/ UNCHANGED Customer!vars
  PROVE  EntitledIInv'
<1>1. CASE Customer!DayPasses
  <2>1. s1' \in Customer!Day
    BY <1>1, DaysAssumption
       DEF Customer!DayPasses, EntitledIInv, Customer!TypeOK, Customer!Day
  <2> QED BY <1>1, <2>1 DEF Customer!DayPasses, EntitledIInv, Customer!TypeOK, Answer
<1>2. CASE Customer!InvalidateCustomerInfoCache \/ UNCHANGED Customer!vars
  BY <1>2 DEF Customer!InvalidateCustomerInfoCache, Customer!vars, EntitledIInv,
              Customer!TypeOK, Answer
<1> QED BY <1>1, <1>2, EntitledPurchase, EntitledGet DEF Customer!Next

LEMMA FetchedEnds == EntitledIInv => Customer!EndedIsNotFetched
<1> SUFFICES ASSUME EntitledIInv, Customer!FetchCustomerInfo
             PROVE  ~(Customer!Active(s6') /\ Customer!Ended(s6', GraceDays))
  BY DEF Customer!EndedIsNotFetched
<1>1. PICK body : Answer(body) /\ Customer!FetchAndCache(body)
  BY EntitledFetch
<1>2. s6' = Customer!FromResponse(body)
  BY <1>1 DEF Customer!FetchAndCache
<1> QED BY <1>1, <1>2, EntitledReads DEF EntitledIInv, Customer!TypeOK

LEMMA EntitledHolds == Spec => [](part = "entitled" => EntitledIInv)
<1>1. Init => (part = "entitled" => EntitledIInv)
  BY EntitledInit DEF Init
<1>2. (part = "entitled" => EntitledIInv) /\ [Next]_vars => (part = "entitled" => EntitledIInv)'
  <2> SUFFICES ASSUME part = "entitled" => EntitledIInv, [Next]_vars, part' = "entitled"
               PROVE  EntitledIInv'
    OBVIOUS
  <2>1. part = "entitled" /\ (Customer!Next \/ UNCHANGED Customer!vars)
    BY DEF Next, vars, Customer!vars
  <2> QED
    BY <2>1, EntitledKeeps
<1> QED
  BY <1>1, <1>2, PTL DEF Spec

\* Entitlements: what ended longer ago than the grace period is not granted by an
\* answer that was fetched, for any period, grace period and number of days
\* (customer_info.rs:428).
THEOREM FetchedGrantsEnd == Spec => FetchedEntitlementsEnd
<1>1. Spec => [](part = "entitled" => EntitledIInv)
  BY EntitledHolds
<1>2. (part = "entitled" => EntitledIInv) /\ [Next]_vars
        => [part = "entitled" => Customer!EndedIsNotFetched]_vars
  BY FetchedEnds
<1> QED
  BY <1>1, <1>2, PTL DEF Spec, FetchedEntitlementsEnd

-----------------------------------------------------------------------------
(* StoreKitPurchases.  s1: scope, s2: journal, s3: cached, s4: latest,       *)
(* s5: promoting, s6: gate, s7: purchase, s8: flow, s9: removing,            *)
(* s10: storekit, s11: asked, s12: attempts, s13: seen                       *)
(*                                                                           *)
(* What is owed to a transaction is in one of three places (Kept): the       *)
(* journal, the cache of contexts, or the hands of a flow that stores it.    *)
(* That a flow finds it there takes the numbering of attempts (Origins), one *)
(* transaction for each of them (OneTransaction), one context for each       *)
(* transaction (OneContext) and one flow for each promotion (Owners).        *)

\* The instance counts as this module does.
LEMMA StoreKitCardinality == \A S : StoreKit!Cardinality(S) = Cardinality(S)
BY Zenon DEF StoreKit!Cardinality, Cardinality

\* The history is made of sets.
SeenOK == s13 \in [told: SUBSET Transactions, settled: SUBSET Transactions,
                   late: SUBSET Transactions, gone: SUBSET Nat, unheard: SUBSET Transactions]

Existing == {t \in Transactions : s10[t].at # "unborn"}

Selling == s7.at = "buying" /\ s7.transaction = NoTransaction

\* Attempts are numbered in their order, and nothing is known of a transaction
\* before StoreKit has it.
Origins ==
  /\ s12 \in 0..s1.attempts
  /\ \A p \in StoreProducts : s4[p] <= s12 /\ s3[p] \in {0, s4[p]}
  /\ \A a \in s11 : a.attempt <= s12
  /\ s7.attempt <= s12
  /\ s7.transaction \in Existing \union {NoTransaction}
  /\ s7.at \in {"buying", "stored"} =>
       s7.attempt # 0 /\ s7.product \in StoreProducts
  /\ s7.at \in {"stored", "succeeded"} => s7.transaction \in Existing
  /\ \A t \in Transactions :
       /\ s10[t].attempt <= s10[t].date /\ s10[t].date <= s12
       /\ t \in Existing => s10[t].product \in StoreProducts
       /\ t \notin Existing => s2[t] = 0 /\ s5[t] = 0 /\ s10[t].attempt = 0
       /\ s10[t].renewal => s10[t].attempt = 0

\* No attempt leads to two transactions.
OneTransaction ==
  /\ \A t, u \in Transactions :
       s10[t].attempt = s10[u].attempt /\ s10[t].attempt # 0 => t = u
  /\ \A a, b \in s11 : a.attempt = b.attempt => a = b
  /\ \A t \in Transactions, a \in s11 : s10[t].attempt # a.attempt
  /\ Selling => /\ \A t \in Transactions : s10[t].attempt # s7.attempt
                /\ \A a \in s11 : a.attempt # s7.attempt
  /\ \A t \in Transactions : s7.transaction = t => s10[t].attempt = s7.attempt

\* The transaction of a flow exists, and so do those it found and those left.
Places == {"promoting", "committing", "rollingBack"}

Promotes(l, t) == l.at \in Places /\ l.transaction = t

FlowsOK ==
  \A f \in StoreKit!Flows :
    /\ s8[f].at \notin {"idle", "scanning"} => s8[f].transaction \in Existing
    /\ s8[f].left \subseteq Existing
    /\ \A pair \in s8[f].found : pair[1] \in Existing
    /\ s8[f].at \in Places => /\ s8[f].claim # 0
                              /\ s5[s8[f].transaction] = s8[f].claim
    /\ s8[f].at = "waiting" => s5[s8[f].transaction] # 0

\* A promotion belongs to one flow.
Owners ==
  \A t \in Transactions :
    /\ s5[t] # 0 => \E f \in StoreKit!Flows : Promotes(s8[f], t)
    /\ \A f, g \in StoreKit!Flows : Promotes(s8[f], t) /\ Promotes(s8[g], t) => f = g

Heard == \A t \in s13.unheard : \/ s8[Updates].at # "idle" /\ s8[Updates].transaction = t
                                \/ s6.inFlight /\ t \in s6.deferred

\* All there is of a transaction is one context, and so is what a flow might claim for it.
Agree(t, c) ==
  /\ s2[t] \in {0, c} /\ s5[t] \in {0, c}
  /\ s7.transaction = t => s7.attempt \in {0, c}
  /\ \A q \in Queries : \A pair \in s8[q].found : pair[1] = t => pair[2] \in {0, c}
  /\ LET last == s4[s10[t].product]
     IN  last # 0 /\ last <= s10[t].date => last = c

OneContext == \A t \in Existing : \E c \in Nat : Agree(t, c)

\* What ended, and what is on its way to.
Settled ==
  /\ s9 \subseteq Existing /\ s9 \union StoreKit!Finished \subseteq s13.settled
  /\ \A t \in s9 \union StoreKit!Finished : s2[t] # 0 => t \in s13.late

\* The context of another transaction was given up.
Strays ==
  \A t \in Transactions :
    /\ s2[t] # 0 => s2[t] = s10[t].attempt \/ s2[t] \in s13.gone
    /\ s5[t] # 0 => s5[t] = s10[t].attempt \/ s5[t] \in s13.gone

\* Where the context of an attempt is, as long as it is owed.
Kept ==
  /\ \A a \in s11 : a.attempt \notin s13.gone => s3[a.product] = a.attempt
  /\ Selling /\ s7.attempt \notin s13.gone => s3[s7.product] = s7.attempt
  /\ s7.at \in {"buying", "stored"} => s4[s7.product] \in {0, s7.attempt}
  /\ \A t \in Transactions : StoreKit!OwedContext(t) =>
       \/ s2[t] = s10[t].attempt
       \/ s3[s10[t].product] = s10[t].attempt
       \/ /\ s5[t] = s10[t].attempt
          /\ s4[s10[t].product] = s10[t].attempt

\* What the flows and the purchase rely on.
Relied ==
  /\ s7.at = "stored" => \/ s2[s7.transaction] = s7.attempt
                         \/ s7.transaction \in s13.settled
  /\ \A f \in StoreKit!Flows : LET t == s8[f].transaction IN
       /\ s8[f].at = "committing" => s2[t] = s8[f].claim \/ t \in s13.settled
       /\ s8[f].at = "rereading" /\ StoreKit!OwedContext(t) => s2[t] = s10[t].attempt
       /\ \A pair \in s8[f].found : pair[2] = 0 => ~StoreKit!OwedContext(pair[1])

StoreKitIInv == /\ StoreKit!TypeOK /\ SeenOK /\ Origins /\ OneTransaction /\ FlowsOK /\ Owners
                /\ Heard /\ OneContext /\ Settled /\ Strays /\ Kept /\ Relied

-----------------------------------------------------------------------------
Contexted == 0..MaxAttempts

FlowRecords == [at: StoreKit!FlowStates, restore: BOOLEAN, left: SUBSET Transactions,
                transaction: Transactions \union {NoTransaction}, claim: Contexted,
                found: SUBSET (Transactions \X Contexted)]

LEMMA ZeroIsContexted == 0 \in Contexted
BY StoreKitAssumption DEF Contexted

LEMMA RestingIsAFlow == StoreKit!Resting \in FlowRecords
BY ZeroIsContexted DEF StoreKit!Resting, FlowRecords, StoreKit!FlowStates

LEMMA FlowTypes ==
  ASSUME StoreKitIInv
  PROVE  /\ s8 \in [StoreKit!Flows -> FlowRecords]
         /\ \A f \in StoreKit!Flows : s8[f] \in FlowRecords
BY DEF StoreKitIInv, StoreKit!TypeOK, FlowRecords, Contexted

\* What a flow may become by a step that neither claims nor promotes.
Passive(f, new) ==
  /\ new \in FlowRecords
  /\ s8[f].at \notin Places /\ new.at \notin Places \union {"committing"}
  /\ new.at \notin {"idle", "scanning"} => new.transaction \in Existing
  /\ new.left \subseteq Existing
  /\ new.at = "waiting" => s5[new.transaction] # 0
  /\ new.at = "rereading" /\ StoreKit!OwedContext(new.transaction) =>
       s2[new.transaction] = s10[new.transaction].attempt
  /\ \A pair \in new.found :
       \/ pair \in s8[f].found
       \/ /\ pair[1] \in Existing
          /\ pair[2] = 0 => ~StoreKit!OwedContext(pair[1])
          /\ pair[2] \in {0, s2[pair[1]]}

\* Steps of one flow that leave the journal, the contexts and StoreKit alone.
LEMMA FlowStep ==
  ASSUME StoreKitIInv, NEW f \in StoreKit!Flows, NEW new, Passive(f, new),
         s8' = [s8 EXCEPT ![f] = new],
         UNCHANGED <<s1, s2, s3, s4, s5, s7, s9, s10,
                     s11, s12>>,
         s6' \in [inFlight: BOOLEAN, deferred: SUBSET Transactions,
                  suppressed: Seq(Transactions)],
         NEW told \in SUBSET Transactions, NEW unheard \in SUBSET Transactions,
         s13' = [s13 EXCEPT !.told = told, !.unheard = unheard],
         Heard'
  PROVE  StoreKitIInv'
<1>1. /\ s8 \in [StoreKit!Flows -> FlowRecords] /\ \A g \in StoreKit!Flows : s8[g] \in FlowRecords
      /\ new \in FlowRecords
  BY FlowTypes DEF Passive
<1>2. /\ s8' \in [StoreKit!Flows -> FlowRecords]
      /\ \A g \in StoreKit!Flows : s8'[g] = IF g = f THEN new ELSE s8[g]
  BY <1>1
<1>3. SeenOK /\ SeenOK'
  BY DEF StoreKitIInv, SeenOK
<1>4. /\ s13'.settled = s13.settled /\ s13'.gone = s13.gone /\ s13'.late = s13.late
  BY DEF StoreKitIInv, SeenOK
<1>5. \A t \in Transactions : StoreKit!OwedContext(t)' <=> StoreKit!OwedContext(t)
  BY <1>4 DEF StoreKit!OwedContext
<1>6. Existing' = Existing /\ (Selling' <=> Selling) /\ StoreKit!Finished' = StoreKit!Finished
  BY DEF Existing, Selling, StoreKit!Finished
<1>7. StoreKit!TypeOK'
  BY <1>2 DEF StoreKitIInv, StoreKit!TypeOK, FlowRecords, Contexted
<1>8. Origins' /\ OneTransaction'
  BY <1>6 DEF StoreKitIInv, Origins, OneTransaction
<1>9. FlowsOK'
  <2>1. ASSUME NEW g \in StoreKit!Flows
        PROVE  /\ s8'[g].at \notin {"idle", "scanning"} => s8'[g].transaction \in Existing
               /\ s8'[g].left \subseteq Existing
               /\ \A pair \in s8'[g].found : pair[1] \in Existing
               /\ s8'[g].at \in Places =>
                    s8'[g].claim # 0 /\ s5[s8'[g].transaction] = s8'[g].claim
               /\ s8'[g].at = "waiting" => s5[s8'[g].transaction] # 0
    <3>1. CASE g # f
      <4>1. s8'[g] = s8[g]
        BY <1>2, <3>1
      <4> QED BY <4>1 DEF StoreKitIInv, FlowsOK
    <3>2. CASE g = f
      <4>1. s8'[g] = new
        BY <1>2, <3>2
      <4>2. \A pair \in s8[f].found : pair[1] \in Existing
        BY DEF StoreKitIInv, FlowsOK
      <4> QED BY <4>1, <4>2 DEF Passive
    <3> QED BY <3>1, <3>2
  <2> QED BY <2>1, <1>6 DEF FlowsOK
<1>10. Owners'
  <2>1. \A g \in StoreKit!Flows, t \in Transactions : Promotes(s8'[g], t) <=> Promotes(s8[g], t)
    BY <1>2 DEF Passive, Promotes, Places
  <2> QED BY <2>1 DEF StoreKitIInv, Owners
<1>11. OneContext'
  <2>1. ASSUME NEW t \in Existing, NEW c \in Nat, Agree(t, c) PROVE Agree(t, c)'
    <3>1. ASSUME NEW q \in Queries, NEW pair \in s8'[q].found, pair[1] = t
          PROVE  pair[2] \in {0, c}
      <4>1. q \in StoreKit!Flows
        BY DEF StoreKit!Flows
      <4>2. CASE pair \in s8[q].found
        BY <2>1, <3>1, <4>2 DEF Agree
      <4>3. CASE pair \notin s8[q].found
        <5>1. q = f /\ pair \in new.found
          BY <4>1, <4>3, <1>2, <3>1
        <5>2. pair[2] \in {0, s2[t]}
          BY <5>1, <4>3, <3>1 DEF Passive
        <5> QED BY <5>2, <2>1 DEF Agree
      <4> QED BY <4>2, <4>3
    <3> QED BY <2>1, <3>1 DEF Agree
  <2> QED BY <2>1, <1>6 DEF StoreKitIInv, OneContext
<1>12. Settled' /\ Strays' /\ Kept'
  <2>1. Settled'
    BY <1>4, <1>6 DEF StoreKitIInv, Settled
  <2>2. Strays'
    BY <1>4 DEF StoreKitIInv, Strays
  <2>3. Kept'
    BY <1>4, <1>5, <1>6 DEF StoreKitIInv, Kept
  <2> QED BY <2>1, <2>2, <2>3
<1>13. Relied'
  <2>1. s7.at = "stored" => \/ s2[s7.transaction] = s7.attempt
                            \/ s7.transaction \in s13.settled
    BY DEF StoreKitIInv, Relied
  <2>2. ASSUME NEW g \in StoreKit!Flows
        PROVE  LET t == s8'[g].transaction IN
               /\ s8'[g].at = "committing" =>
                    s2[t] = s8'[g].claim \/ t \in s13.settled
               /\ s8'[g].at = "rereading" /\ StoreKit!OwedContext(t) => s2[t] = s10[t].attempt
               /\ \A pair \in s8'[g].found : pair[2] = 0 => ~StoreKit!OwedContext(pair[1])
    <3>1. CASE g # f
      <4>1. s8'[g] = s8[g]
        BY <1>2, <3>1
      <4> QED BY <4>1 DEF StoreKitIInv, Relied
    <3>2. CASE g = f
      <4>1. s8'[g] = new
        BY <1>2, <3>2
      <4>2. \A pair \in s8[f].found : pair[2] = 0 => ~StoreKit!OwedContext(pair[1])
        BY DEF StoreKitIInv, Relied
      <4> QED BY <4>1, <4>2 DEF Passive, Places
    <3> QED BY <3>1, <3>2
  <2>3. \A g \in StoreKit!Flows : LET t == s8'[g].transaction IN
           s8'[g].at = "rereading" => t \in Transactions
    BY <1>9, <1>6 DEF FlowsOK, Existing
  <2>4. \A g \in StoreKit!Flows : \A pair \in s8'[g].found : pair[1] \in Transactions
    BY <1>9, <1>6 DEF FlowsOK, Existing
  <2> QED BY <2>1, <2>2, <2>3, <2>4, <1>4, <1>5 DEF Relied
<1> QED BY <1>3, <1>7, <1>8, <1>9, <1>10, <1>11, <1>12, <1>13 DEF StoreKitIInv

\* Where a flow goes on to with what it found about its transaction.
LEMMA WithContextIsPassive ==
  ASSUME StoreKitIInv, NEW f \in StoreKit!Flows, NEW context \in Contexted,
         s8[f].at \notin Places \union {"idle", "scanning"},
         context = 0 => f = Updates \/ ~StoreKit!OwedContext(s8[f].transaction),
         context \in {0, s2[s8[f].transaction]}
  PROVE  Passive(f, StoreKit!WithContext(f, context))
<1>1. s8[f] \in FlowRecords
  BY FlowTypes
<1>2. s8[f].transaction \in Existing /\ s8[f].left \subseteq Existing
  BY DEF StoreKitIInv, FlowsOK
<1>3. CASE f = Updates
  <2> DEFINE new == [s8[f] EXCEPT !.at = "handled", !.claim = 0]
  <2>1. /\ new \in FlowRecords /\ new.at = "handled" /\ new.left = s8[f].left
        /\ new.transaction = s8[f].transaction /\ new.found = s8[f].found
    <3>1. "handled" \in StoreKit!FlowStates
      BY DEF StoreKit!FlowStates
    <3> QED BY <1>1, <3>1, ZeroIsContexted DEF FlowRecords
  <2>2. StoreKit!WithContext(f, context) = new
    BY <1>3 DEF StoreKit!WithContext
  <2> HIDE DEF new
  <2> QED BY <1>2, <2>1, <2>2 DEF Passive, Places
<1>4. CASE f # Updates
  <2> DEFINE new == [s8[f] EXCEPT !.at = "scanning", !.claim = 0,
                       !.transaction = NoTransaction,
                       !.found = s8[f].found \union {<<s8[f].transaction, context>>}]
  <2>1. /\ new \in FlowRecords /\ new.at = "scanning" /\ new.left = s8[f].left
        /\ new.found = s8[f].found \union {<<s8[f].transaction, context>>}
    <3>1. "scanning" \in StoreKit!FlowStates
      BY DEF StoreKit!FlowStates
    <3>2. <<s8[f].transaction, context>> \in Transactions \X Contexted
      BY <1>2 DEF Existing
    <3>3. s8[f].found \union {<<s8[f].transaction, context>>}
            \in SUBSET (Transactions \X Contexted)
      BY <1>1, <3>2 DEF FlowRecords
    <3> QED BY <1>1, <3>1, <3>3, ZeroIsContexted DEF FlowRecords
  <2>2. StoreKit!WithContext(f, context) = new
    BY <1>4 DEF StoreKit!WithContext
  <2> HIDE DEF new
  <2> QED BY <1>2, <1>4, <2>1, <2>2 DEF Passive, Places
<1> QED BY <1>3, <1>4

LEMMA FailedIsPassive ==
  ASSUME StoreKitIInv, NEW f \in StoreKit!Flows, s8[f].at \notin Places \union {"idle", "scanning"}
  PROVE  Passive(f, StoreKit!Failed(f))
<1>1. s8[f] \in FlowRecords
  BY FlowTypes
<1>2. s8[f].transaction \in Existing /\ s8[f].left \subseteq Existing
  BY DEF StoreKitIInv, FlowsOK
<1>3. CASE f = Updates
  <2> DEFINE new == [s8[f] EXCEPT !.at = "handled", !.claim = 0]
  <2>1. /\ new \in FlowRecords /\ new.at = "handled" /\ new.left = s8[f].left
        /\ new.transaction = s8[f].transaction /\ new.found = s8[f].found
    <3>1. "handled" \in StoreKit!FlowStates
      BY DEF StoreKit!FlowStates
    <3> QED BY <1>1, <3>1, ZeroIsContexted DEF FlowRecords
  <2>2. StoreKit!Failed(f) = new
    BY <1>3 DEF StoreKit!Failed
  <2> HIDE DEF new
  <2> QED BY <1>2, <2>1, <2>2 DEF Passive, Places
<1>4. CASE f # Updates
  BY <1>4, RestingIsAFlow DEF StoreKit!Failed, Passive, StoreKit!Resting, Places
<1> QED BY <1>3, <1>4

LEMMA GoingOn ==
  ASSUME StoreKitIInv, NEW f \in StoreKit!Flows, NEW at \in {"claiming", "waiting", "rereading"},
         s8[f].at \notin Places \union {"idle", "scanning"},
         at = "waiting" => s5[s8[f].transaction] # 0,
         at = "rereading" /\ StoreKit!OwedContext(s8[f].transaction) =>
           s2[s8[f].transaction] = s10[s8[f].transaction].attempt,
         StoreKit!GoesOn(f, at)
  PROVE  \E new : /\ Passive(f, new) /\ s8' = [s8 EXCEPT ![f] = new]
                  /\ new.transaction = s8[f].transaction /\ new.at = at
<1> DEFINE new == [s8[f] EXCEPT !.at = at]
<1>1. s8[f] \in FlowRecords /\ s8 \in [StoreKit!Flows -> FlowRecords]
  BY FlowTypes
<1>2. s8[f].transaction \in Existing /\ s8[f].left \subseteq Existing
  BY DEF StoreKitIInv, FlowsOK
<1>3. /\ new \in FlowRecords /\ new.at = at /\ new.left = s8[f].left
      /\ new.transaction = s8[f].transaction /\ new.found = s8[f].found
  BY <1>1 DEF FlowRecords, StoreKit!FlowStates
<1>4. s8' = [s8 EXCEPT ![f] = new]
  BY <1>1 DEF StoreKit!GoesOn
<1> HIDE DEF new
<1> QED BY <1>2, <1>3, <1>4 DEF Passive, Places

\* The history and the gate stay, and an update goes on with its transaction.
LEMMA QuietFlowStep ==
  ASSUME StoreKitIInv, NEW f \in StoreKit!Flows, NEW new, Passive(f, new),
         s8' = [s8 EXCEPT ![f] = new],
         f = Updates => new.at # "idle" /\ new.transaction = s8[f].transaction,
         UNCHANGED <<s1, s2, StoreKit!contexts, s6, s7, s9, s10, s11, s12,
                     s13>>
  PROVE  StoreKitIInv'
<1>1. Updates \in StoreKit!Flows /\ s8 \in [StoreKit!Flows -> FlowRecords]
  BY FlowTypes DEF StoreKit!Flows
<1>2. Heard'
  BY <1>1 DEF StoreKitIInv, Heard
<1>3. SeenOK
  BY DEF StoreKitIInv
<1>4. s13' = [s13 EXCEPT !.told = s13.told, !.unheard = s13.unheard]
  BY <1>3 DEF SeenOK
<1>5. s13.told \in SUBSET Transactions /\ s13.unheard \in SUBSET Transactions
  BY <1>3 DEF SeenOK
<1>6. s6' \in [inFlight: BOOLEAN, deferred: SUBSET Transactions,
               suppressed: Seq(Transactions)]
  BY DEF StoreKitIInv, StoreKit!TypeOK
<1> QED BY <1>2, <1>4, <1>5, <1>6, FlowStep DEF StoreKit!contexts

LEMMA ContextOrFailed ==
  ASSUME StoreKitIInv, NEW f \in StoreKit!Flows, NEW new,
         s8[f].at \notin {"idle", "scanning"},
         new = StoreKit!Failed(f) \/ \E context \in Contexted : new = StoreKit!WithContext(f, context)
  PROVE  f = Updates => new.at # "idle" /\ new.transaction = s8[f].transaction
BY FlowTypes DEF StoreKit!Failed, StoreKit!WithContext, FlowRecords

LEMMA JournalType ==
  ASSUME StoreKitIInv, NEW f \in StoreKit!Flows, s8[f].at \notin {"idle", "scanning"}
  PROVE  /\ s8[f].transaction \in Existing /\ s8[f].transaction \in Transactions
         /\ s2[s8[f].transaction] \in Contexted
         /\ s10[s8[f].transaction].product \in StoreProducts
BY DEF StoreKitIInv, StoreKit!TypeOK, FlowsOK, Existing, Origins, Contexted

LEMMA LooksKeep ==
  ASSUME StoreKitIInv, NEW f \in StoreKit!Flows,
         \/ StoreKit!ReadJournal(f) \/ StoreKit!ReadFails(f) \/ StoreKit!WaitForPromotion(f)
         \/ StoreKit!ReadJournalAgain(f) \/ StoreKit!ConfirmPromotion(f)
  PROVE  StoreKitIInv'
<1> DEFINE t == s8[f].transaction
<1>1. 0 \in Contexted
  BY ZeroIsContexted
<1>2. CASE StoreKit!ReadJournal(f)
  <2>1. s8[f].at = "reading" /\ s2[t] \in Contexted /\ t \in Transactions
    BY <1>2, JournalType DEF StoreKit!ReadJournal
  <2>2. CASE s2[t] # 0
    <3>1. Passive(f, StoreKit!WithContext(f, s2[t]))
      BY <2>1, <2>2, WithContextIsPassive DEF Places
    <3> QED BY <1>2, <2>1, <2>2, <3>1, ContextOrFailed, QuietFlowStep
        DEF StoreKit!ReadJournal, StoreKit!Resolved
  <2>3. CASE s2[t] = 0 /\ s10[t].renewal
    <3>1. ~StoreKit!OwedContext(t)
      BY <2>1, <2>3 DEF StoreKitIInv, Origins, StoreKit!OwedContext
    <3>2. Passive(f, StoreKit!WithContext(f, 0))
      BY <1>1, <2>1, <3>1, WithContextIsPassive DEF Places
    <3> QED BY <1>1, <1>2, <2>1, <2>3, <3>2, ContextOrFailed, QuietFlowStep
            DEF StoreKit!ReadJournal, StoreKit!Resolved
  <2>4. CASE s2[t] = 0 /\ ~s10[t].renewal
    <3>1. StoreKit!GoesOn(f, "claiming")
      BY <1>2, <2>4 DEF StoreKit!ReadJournal
    <3> QED BY <1>2, <2>1, <3>1, GoingOn, QuietFlowStep DEF StoreKit!ReadJournal, Places
  <2> QED BY <2>2, <2>3, <2>4
<1>3. CASE StoreKit!ReadFails(f)
  <2>1. Passive(f, StoreKit!Failed(f))
    BY <1>3, FailedIsPassive DEF StoreKit!ReadFails, Places
  <2> QED BY <1>3, <2>1, ContextOrFailed, QuietFlowStep DEF StoreKit!ReadFails
<1>4. CASE StoreKit!WaitForPromotion(f)
  BY <1>4, GoingOn, QuietFlowStep DEF StoreKit!WaitForPromotion, Places
<1>5. CASE StoreKit!ReadJournalAgain(f)
  <2>1. s8[f].at = "rereading" /\ s2[t] \in Contexted /\ t \in Transactions
    BY <1>5, JournalType DEF StoreKit!ReadJournalAgain
  <2>2. s2[t] = 0 => ~StoreKit!OwedContext(t)
    BY <2>1 DEF StoreKitIInv, Relied, StoreKit!OwedContext
  <2>3. Passive(f, StoreKit!WithContext(f, s2[t]))
    BY <2>1, <2>2, WithContextIsPassive DEF Places
  <2> QED BY <1>5, <2>1, <2>3, ContextOrFailed, QuietFlowStep
      DEF StoreKit!ReadJournalAgain, StoreKit!Resolved
<1>6. CASE StoreKit!ConfirmPromotion(f)
  <2>1. s8[f].at = "confirming" /\ s2[t] \in Contexted
    BY <1>6, JournalType DEF StoreKit!ConfirmPromotion
  <2>2. CASE s2[t] # 0
    <3>1. Passive(f, StoreKit!WithContext(f, s2[t]))
      BY <2>1, <2>2, WithContextIsPassive DEF Places
    <3> QED BY <1>6, <2>1, <2>2, <3>1, ContextOrFailed, QuietFlowStep
            DEF StoreKit!ConfirmPromotion, StoreKit!Resolved
  <2>3. CASE s2[t] = 0
    <3>1. Passive(f, StoreKit!Failed(f))
      BY <2>1, FailedIsPassive DEF Places
    <3> QED BY <1>6, <2>1, <2>3, <3>1, ContextOrFailed, QuietFlowStep
        DEF StoreKit!ConfirmPromotion
  <2> QED BY <2>2, <2>3
<1> QED BY <1>2, <1>3, <1>4, <1>5, <1>6

LEMMA LeastIndex ==
  ASSUME NEW T, T \subseteq Nat, T # {}
  PROVE  \E x \in T : \A y \in T : x <= y
<1>1. PICK x \in T : \A y \in T : <<y, x>> \notin OpToRel(<, Nat)
  BY WFMin, NatLessThanWellFounded
<1>2. ASSUME NEW y \in T, y < x PROVE FALSE
  <2>1. x \in Nat /\ y \in Nat
    OBVIOUS
  <2>2. <<y, x>> \in OpToRel(<, Nat)
    BY <1>2, <2>1 DEF OpToRel
  <2> QED BY <1>1, <2>2
<1>3. \A y \in T : x \in Int /\ y \in Int
  OBVIOUS
<1> QED BY <1>2, <1>3

LEMMA WithoutOne ==
  ASSUME NEW S, NEW s \in Seq(S), NEW t, \E i \in DOMAIN s : s[i] = t
  PROVE  StoreKit!Without(s, t) \in Seq(S)
<1> DEFINE T == {i \in DOMAIN s : s[i] = t}
           P(i) == i \in DOMAIN s /\ s[i] = t /\ \A j \in 1..(i - 1) : s[j] # t
           first == CHOOSE i \in DOMAIN s : s[i] = t /\ \A j \in 1..(i - 1) : s[j] # t
<1>1. /\ Len(s) \in Nat /\ DOMAIN s = 1..Len(s) /\ \A i \in 1..Len(s) : s[i] \in S
  OBVIOUS
<1>2. T \subseteq Nat /\ T # {}
  BY <1>1
<1>3. PICK x \in T : \A y \in T : x <= y
  <2> HIDE DEF T
  <2> QED BY <1>2, LeastIndex
<1>4. P(x)
  BY <1>1, <1>3
<1>5. first \in 1..Len(s)
  BY <1>1, <1>4
<1>6. StoreKit!Without(s, t) = SubSeq(s, 1, first - 1) \o SubSeq(s, first + 1, Len(s))
  BY DEF StoreKit!Without
<1> HIDE DEF first
<1>7. SubSeq(s, 1, first - 1) \in Seq(S)
  BY <1>1, <1>5, SubSeqProperties
<1>8. SubSeq(s, first + 1, Len(s)) \in Seq(S)
  BY <1>1, <1>5, SubSeqProperties
<1> QED BY <1>6, <1>7, <1>8, ConcatProperties

LEMMA LastOfType ==
  ASSUME NEW S, NEW s \in Seq(S), NEW n \in Nat
  PROVE  StoreKit!LastOf(s, n) \in Seq(S)
<1>1. /\ Len(s) \in Nat /\ \A i \in 1..Len(s) : s[i] \in S
  OBVIOUS
<1>2. Len(s) > n => SubSeq(s, Len(s) - n + 1, Len(s)) \in Seq(S)
  BY <1>1, SubSeqProperties
<1> QED BY <1>2 DEF StoreKit!LastOf

Gates == [inFlight: BOOLEAN, deferred: SUBSET Transactions, suppressed: Seq(Transactions)]

LEMMA UpdatesKeep ==
  ASSUME StoreKitIInv, NEW u \in Transactions, StoreKit!UpdateArrives(u) \/ StoreKit!UpdateHandled
  PROVE  StoreKitIInv'
<1> DEFINE f == Updates
<1>1. /\ f \in StoreKit!Flows /\ s8 \in [StoreKit!Flows -> FlowRecords] /\ s8[f] \in FlowRecords
  BY FlowTypes DEF StoreKit!Flows
<1>2. /\ s13 \in [told: SUBSET Transactions, settled: SUBSET Transactions,
                  late: SUBSET Transactions, gone: SUBSET Nat, unheard: SUBSET Transactions]
      /\ s6 \in Gates
  BY DEF StoreKitIInv, SeenOK, StoreKit!TypeOK, Gates
<1>3. s8[f].left \subseteq Existing
  BY <1>1 DEF StoreKitIInv, FlowsOK
<1>4. CASE StoreKit!UpdateArrives(u)
  <2> DEFINE new == [s8[f] EXCEPT !.at = "reading", !.transaction = u]
             unheard == s13.unheard \union {u}
  <2>1. /\ s8' = [s8 EXCEPT ![f] = new] /\ s8[f].at = "idle" /\ u \in Existing
        /\ UNCHANGED <<s1, s2, StoreKit!contexts, s6, s7, s9, s10, s11,
                       s12>>
    BY <1>4 DEF StoreKit!UpdateArrives, StoreKit!Unfinished, Existing
  <2>2. s13' = [s13 EXCEPT !.told = s13.told, !.unheard = unheard]
    BY <1>2, <1>4 DEF StoreKit!UpdateArrives
  <2>3. /\ new \in FlowRecords /\ new.at = "reading" /\ new.transaction = u
        /\ new.left = s8[f].left /\ new.found = s8[f].found
    <3>1. "reading" \in StoreKit!FlowStates
      BY DEF StoreKit!FlowStates
    <3> QED BY <1>1, <3>1 DEF FlowRecords
  <2>4. s13'.unheard = unheard
    BY <1>2, <2>2
  <2> HIDE DEF new
  <2>5. Passive(f, new)
    BY <1>3, <2>1, <2>3 DEF Passive, Places
  <2>6. s8'[f] = new
    BY <1>1, <2>1
  <2>7. Heard'
    BY <2>1, <2>3, <2>4, <2>6 DEF StoreKitIInv, Heard
  <2>8. unheard \in SUBSET Transactions /\ s13.told \in SUBSET Transactions
    BY <1>2
  <2> HIDE DEF unheard
  <2> QED BY <1>1, <1>2, <2>1, <2>2, <2>5, <2>7, <2>8, FlowStep DEF StoreKit!contexts, Gates
<1>5. CASE StoreKit!UpdateHandled
  <2> DEFINE t == s8[f].transaction
  <2>1. /\ s8' = [s8 EXCEPT ![f] = StoreKit!Resting] /\ s8[f].at = "handled"
        /\ UNCHANGED <<s1, s2, StoreKit!contexts, s7, s9, s10, s11, s12>>
    BY <1>5 DEF StoreKit!UpdateHandled
  <2>2. t \in Transactions
    BY <1>1, <2>1, JournalType
  <2>3. Passive(f, StoreKit!Resting)
    BY <2>1, RestingIsAFlow DEF Passive, StoreKit!Resting, Places
  <2>4. s8'[f].at = "idle"
    BY <1>1, <2>1 DEF StoreKit!Resting
  <2>5. PICK unheard \in SUBSET Transactions :
          s13' = [s13 EXCEPT !.told = s13.told, !.unheard = unheard]
    <3>1. \/ s13' = [s13 EXCEPT !.unheard = s13.unheard \ {t}]
          \/ s13' = s13
          \/ s13' = [s13 EXCEPT !.unheard = {}]
      BY <1>5 DEF StoreKit!UpdateHandled
    <3>2. /\ s13.unheard \ {t} \in SUBSET Transactions
          /\ s13.unheard \in SUBSET Transactions /\ {} \in SUBSET Transactions
      BY <1>2
    <3>3. /\ [s13 EXCEPT !.unheard = s13.unheard \ {t}]
               = [s13 EXCEPT !.told = s13.told, !.unheard = s13.unheard \ {t}]
          /\ s13 = [s13 EXCEPT !.told = s13.told, !.unheard = s13.unheard]
          /\ [s13 EXCEPT !.unheard = {}]
               = [s13 EXCEPT !.told = s13.told, !.unheard = {}]
      BY <1>2
    <3> QED BY <3>1, <3>2, <3>3
  <2>6. s6' \in Gates /\ Heard'
    <3>1. CASE /\ \E i \in DOMAIN s6.suppressed : s6.suppressed[i] = t
               /\ s6' = [s6 EXCEPT !.suppressed = StoreKit!Without(@, t)]
               /\ s13' = [s13 EXCEPT !.unheard = @ \ {t}]
      <4> DEFINE rest == StoreKit!Without(s6.suppressed, t)
      <4>1. rest \in Seq(Transactions)
        BY <1>2, <3>1, WithoutOne DEF Gates
      <4>2. s6' = [s6 EXCEPT !.suppressed = rest]
        BY <3>1
      <4> HIDE DEF rest
      <4>3. s6' \in Gates /\ s6'.inFlight = s6.inFlight /\ s6'.deferred = s6.deferred
        BY <1>2, <4>1, <4>2 DEF Gates
      <4>4. s13'.unheard = s13.unheard \ {t}
        BY <1>2, <3>1
      <4> QED BY <4>3, <4>4 DEF StoreKitIInv, Heard
    <3>2. CASE /\ s6.inFlight
               /\ s6' = [s6 EXCEPT !.deferred = @ \union {t}]
               /\ UNCHANGED s13
      <4>1. /\ s6' \in Gates /\ s6'.inFlight /\ s6'.deferred = s6.deferred \union {t}
        BY <1>2, <2>2, <3>2 DEF Gates
      <4> QED BY <3>2, <4>1 DEF StoreKitIInv, Heard
    <3>3. CASE UNCHANGED s6 /\ s13' = [s13 EXCEPT !.unheard = {}]
      <4>1. s13'.unheard = {}
        BY <1>2, <3>3
      <4> QED BY <1>2, <3>3, <4>1 DEF Heard
    <3> QED BY <1>5, <3>1, <3>2, <3>3 DEF StoreKit!UpdateHandled
  <2>7. s13.told \in SUBSET Transactions
    BY <1>2
  <2> QED BY <1>1, <2>1, <2>3, <2>5, <2>6, <2>7, FlowStep DEF StoreKit!contexts, Gates
<1> QED BY <1>4, <1>5

LEMMA QueriesKeep ==
  ASSUME StoreKitIInv, NEW q \in Queries, StoreKit!BeginQuery(q) \/ StoreKit!ScanNext(q) \/ StoreKit!QueryReturns(q)
  PROVE  StoreKitIInv'
<1>1. /\ q \in StoreKit!Flows /\ q # Updates /\ s8 \in [StoreKit!Flows -> FlowRecords]
      /\ s8[q] \in FlowRecords
  BY FlowTypes, StoreKitAssumption DEF StoreKit!Flows
<1>2. /\ s13 \in [told: SUBSET Transactions, settled: SUBSET Transactions,
                  late: SUBSET Transactions, gone: SUBSET Nat, unheard: SUBSET Transactions]
      /\ s6 \in Gates
  BY DEF StoreKitIInv, SeenOK, StoreKit!TypeOK, Gates
<1>3. /\ s8[q].left \subseteq Existing
      /\ \A pair \in s8[q].found : pair[1] \in Existing
  BY <1>1 DEF StoreKitIInv, FlowsOK
<1>4. CASE StoreKit!BeginQuery(q)
  <2>1. PICK restore \in s1.restores :
          /\ s8[q].at = "idle"
          /\ s8' = [s8 EXCEPT ![q] = [StoreKit!Resting EXCEPT !.at = "scanning", !.restore = restore,
                                                              !.left = StoreKit!Unfinished]]
          /\ UNCHANGED <<s1, s2, StoreKit!contexts, s6, s7, s9, s10, s11,
                         s12, s13>>
    BY <1>4 DEF StoreKit!BeginQuery
  <2> DEFINE new == [StoreKit!Resting EXCEPT !.at = "scanning", !.restore = restore, !.left = StoreKit!Unfinished]
  <2>2. /\ new \in FlowRecords /\ new.at = "scanning" /\ new.left = StoreKit!Unfinished
        /\ new.found = {}
    <3>1. restore \in BOOLEAN
      BY DEF StoreKitIInv, StoreKit!TypeOK, StoreKit!Scope
    <3>2. StoreKit!Unfinished \in SUBSET Transactions
      BY DEF StoreKit!Unfinished
    <3>3. "scanning" \in StoreKit!FlowStates
      BY DEF StoreKit!FlowStates
    <3> QED BY <3>1, <3>2, <3>3, RestingIsAFlow DEF FlowRecords, StoreKit!Resting
  <2> HIDE DEF new
  <2>3. Passive(q, new)
    BY <2>1, <2>2 DEF Passive, Places, StoreKit!Unfinished, Existing
  <2> QED BY <1>1, <2>1, <2>3, QuietFlowStep DEF new
<1>5. CASE StoreKit!ScanNext(q)
  <2>1. PICK t \in s8[q].left :
          s8' = [s8 EXCEPT ![q] = [s8[q] EXCEPT !.at = "reading", !.transaction = t,
                                                !.left = s8[q].left \ {t}]]
    BY <1>5 DEF StoreKit!ScanNext
  <2>4. /\ s8[q].at = "scanning"
        /\ UNCHANGED <<s1, s2, StoreKit!contexts, s6, s7, s9, s10, s11,
                       s12, s13>>
    BY <1>5 DEF StoreKit!ScanNext
  <2> DEFINE new == [s8[q] EXCEPT !.at = "reading", !.transaction = t,
                                  !.left = s8[q].left \ {t}]
  <2>2. /\ new \in FlowRecords /\ new.at = "reading" /\ new.left = s8[q].left \ {t}
        /\ new.transaction = t /\ new.found = s8[q].found
    <3>1. t \in Transactions
      BY <1>1 DEF FlowRecords
    <3>2. "reading" \in StoreKit!FlowStates
      BY DEF StoreKit!FlowStates
    <3> QED BY <1>1, <3>1, <3>2 DEF FlowRecords
  <2> HIDE DEF new
  <2>3. Passive(q, new)
    BY <1>3, <2>2, <2>4 DEF Passive, Places
  <2> QED BY <1>1, <2>1, <2>3, <2>4, QuietFlowStep DEF new
<1>6. CASE StoreKit!QueryReturns(q)
  <2> DEFINE told == s13.told \union StoreKit!Others(q) \union {pair[1] : pair \in s8[q].found}
  <2>1. /\ s8' = [s8 EXCEPT ![q] = StoreKit!Resting] /\ s8[q].at = "scanning"
        /\ s13' = [s13 EXCEPT !.told = told]
        /\ UNCHANGED <<s1, s2, StoreKit!contexts, s6, s7, s9, s10, s11,
                       s12>>
    BY <1>6 DEF StoreKit!QueryReturns
  <2>2. told \in SUBSET Transactions
    <3>1. StoreKit!Others(q) \in SUBSET Transactions
      BY DEF StoreKit!Others, StoreKit!Unfinished, StoreKit!Finished
    <3>2. {pair[1] : pair \in s8[q].found} \in SUBSET Transactions
      BY <1>3 DEF Existing
    <3> QED BY <1>2, <3>1, <3>2
  <2> HIDE DEF told
  <2>3. s13' = [s13 EXCEPT !.told = told, !.unheard = s13.unheard]
    BY <1>2, <2>1
  <2>4. Passive(q, StoreKit!Resting)
    BY <2>1, RestingIsAFlow DEF Passive, StoreKit!Resting, Places
  <2>5. s13'.unheard = s13.unheard /\ s8'[Updates] = s8[Updates]
    BY <1>1, <1>2, <2>1 DEF StoreKit!Flows
  <2>6. Heard'
    BY <2>1, <2>5 DEF StoreKitIInv, Heard
  <2>7. s13.unheard \in SUBSET Transactions /\ s6' \in Gates
    BY <1>2, <2>1
  <2> QED BY <1>1, <2>1, <2>2, <2>3, <2>4, <2>6, <2>7, FlowStep DEF StoreKit!contexts, Gates
<1> QED BY <1>4, <1>5, <1>6

-----------------------------------------------------------------------------
LEMMA OwedBefore ==
  ASSUME StoreKitIInv, s10' = s10, NEW t \in Transactions,
         s13.gone \subseteq s13'.gone, s13.settled \subseteq s13'.settled, StoreKit!OwedContext(t)'
  PROVE  StoreKit!OwedContext(t)
BY DEF StoreKit!OwedContext

LEMMA SeenType ==
  ASSUME StoreKitIInv
  PROVE  s13 \in [told: SUBSET Transactions, settled: SUBSET Transactions,
                  late: SUBSET Transactions, gone: SUBSET Nat, unheard: SUBSET Transactions]
BY DEF StoreKitIInv, SeenOK

LEMMA GoneType ==
  ASSUME StoreKitIInv, NEW given \in SUBSET Nat, s13' = StoreKit!Gone(given)
  PROVE  /\ SeenOK' /\ s13'.gone = s13.gone \union (given \ {0})
         /\ s13'.told = s13.told /\ s13'.settled = s13.settled /\ s13'.late = s13.late
         /\ s13'.unheard = s13.unheard
BY SeenType DEF StoreKit!Gone, SeenOK

\* The invariant of a flow, in a form for one flow at a time.
ReliedOn(l) ==
  /\ l.at = "committing" => \/ s2[l.transaction] = l.claim
                            \/ l.transaction \in s13.settled
  /\ l.at = "rereading" /\ StoreKit!OwedContext(l.transaction) =>
       s2[l.transaction] = s10[l.transaction].attempt
  /\ \A pair \in l.found : pair[2] = 0 => ~StoreKit!OwedContext(pair[1])

LEMMA ReliedOnIs ==
  Relied <=> /\ s7.at = "stored" => \/ s2[s7.transaction] = s7.attempt
                                    \/ s7.transaction \in s13.settled
             /\ \A f \in StoreKit!Flows : ReliedOn(s8[f])
BY DEF Relied, ReliedOn

LEMMA ReliedOnWillBe ==
  Relied' <=> /\ s7'.at = "stored" =>
                   \/ s2'[s7'.transaction] = s7'.attempt
                   \/ s7'.transaction \in s13'.settled
              /\ \A f \in StoreKit!Flows : ReliedOn(s8[f])'
BY DEF Relied, ReliedOn

\* It stays as long as what is owed does not grow and the journal keeps its entries,
\* except those that are settled.
LEMMA ReliedStays ==
  ASSUME StoreKitIInv, NEW f \in StoreKit!Flows, s10' = s10,
         s13.gone \subseteq s13'.gone, s13.settled \subseteq s13'.settled,
         \A t \in Transactions : s2[t] # 0 => s2'[t] = s2[t] \/ t \in s13'.settled,
         \/ s8'[f] = s8[f]
         \/ s8'[f].at \notin {"committing", "rereading"} /\ s8'[f].found \subseteq s8[f].found
  PROVE  ReliedOn(s8[f])'
<1>1. \A u \in Transactions : StoreKit!OwedContext(u)' => StoreKit!OwedContext(u)
  BY OwedBefore
<1>2. \A pair \in s8[f].found : pair[1] \in Transactions
  BY DEF StoreKitIInv, FlowsOK, Existing
<1>3. ReliedOn(s8[f])
  BY ReliedOnIs DEF StoreKitIInv
<1>4. \A pair \in s8'[f].found : pair[2] = 0 => ~StoreKit!OwedContext(pair[1])'
  BY <1>1, <1>2, <1>3 DEF ReliedOn
<1>5. CASE s8'[f] = s8[f] /\ s8[f].at \in {"committing", "rereading"}
  <2>1. s8[f].transaction \in Transactions
    BY <1>5 DEF StoreKitIInv, FlowsOK, Existing
  <2>2. s8[f].at = "committing" => s8[f].claim # 0
    BY DEF StoreKitIInv, FlowsOK, Places
  <2>3. StoreKit!OwedContext(s8[f].transaction)' => s8[f].transaction \notin s13'.settled
                                                    /\ s10[s8[f].transaction].attempt # 0
    BY <1>5 DEF StoreKit!OwedContext
  <2> QED BY <1>1, <1>3, <1>4, <1>5, <2>1, <2>2, <2>3 DEF ReliedOn
<1> QED BY <1>4, <1>5 DEF ReliedOn

LEMMA ClaimKeeps ==
  ASSUME StoreKitIInv, NEW f \in StoreKit!Flows, StoreKit!ClaimContext(f)
  PROVE  StoreKitIInv'
<1> DEFINE t == s8[f].transaction
           p == s10[t].product
           claim == s3[p]
           new == [s8[f] EXCEPT !.at = "promoting", !.claim = claim]
<1>1. /\ s8 \in [StoreKit!Flows -> FlowRecords] /\ s8[f] \in FlowRecords
      /\ s8[f].at = "claiming" /\ s5[t] = 0
      /\ t \in Existing /\ t \in Transactions /\ p \in StoreProducts
  BY FlowTypes, JournalType DEF StoreKit!ClaimContext
<1>2. /\ s3 \in [StoreProducts -> Contexted] /\ s5 \in [Transactions -> Contexted]
      /\ claim \in Contexted /\ claim \in Nat /\ 0 \in Contexted
  BY <1>1, ZeroIsContexted DEF StoreKitIInv, StoreKit!TypeOK, Contexted
<1>3. claim \in {0, s4[p]}
  BY <1>1 DEF StoreKitIInv, Origins
<1>4. CASE ~StoreKit!Claimable(t)
  <2>1. StoreKit!OwedContext(t) => s2[t] = s10[t].attempt
    <3>1. s10[t].attempt <= s10[t].date
      BY <1>1 DEF StoreKitIInv, Origins
    <3> QED BY <1>1, <1>4, <3>1 DEF StoreKitIInv, Kept, StoreKit!OwedContext, StoreKit!Claimable
  <2>2. StoreKit!GoesOn(f, "rereading")
    BY <1>4 DEF StoreKit!ClaimContext
  <2>3. UNCHANGED <<s1, s2, StoreKit!contexts, s6, s7, s9, s10, s11,
                    s12, s13>>
    BY <1>4 DEF StoreKit!ClaimContext, StoreKit!contexts
  <2> QED BY <1>1, <2>1, <2>2, <2>3, GoingOn, QuietFlowStep DEF Places
<1>5. CASE StoreKit!Claimable(t)
  <2>1. /\ claim # 0 /\ claim <= s10[t].date /\ claim = s4[p]
    BY <1>3, <1>5 DEF StoreKit!Claimable
  <2>2. /\ s3' = [s3 EXCEPT ![p] = 0]
        /\ s5' = [s5 EXCEPT ![t] = claim]
        /\ s8' = [s8 EXCEPT ![f] = new]
        /\ s13' = StoreKit!Gone({claim} \ {s10[t].attempt})
        /\ UNCHANGED <<s1, s2, s4, s6, s7, s9, s10, s11,
                       s12>>
    BY <1>1, <1>5 DEF StoreKit!ClaimContext
  <2>3. /\ SeenOK' /\ s13'.gone = s13.gone \union ({claim} \ {s10[t].attempt})
        /\ s13'.settled = s13.settled /\ s13'.late = s13.late
        /\ s13'.unheard = s13.unheard
    BY <1>2, <2>1, <2>2, GoneType
  <2>4. /\ new \in FlowRecords /\ new.at = "promoting" /\ new.left = s8[f].left
        /\ new.transaction = t /\ new.found = s8[f].found /\ new.claim = claim
    <3>1. "promoting" \in StoreKit!FlowStates
      BY DEF StoreKit!FlowStates
    <3> HIDE DEF claim
    <3> QED BY <1>1, <1>2, <3>1 DEF FlowRecords
  <2> HIDE DEF new, claim
  <2>5. /\ s8' \in [StoreKit!Flows -> FlowRecords]
        /\ \A g \in StoreKit!Flows : s8'[g] = IF g = f THEN new ELSE s8[g]
    BY <1>1, <2>2, <2>4
  <2>6. /\ s5' \in [Transactions -> Contexted] /\ s5'[t] = claim
        /\ \A u \in Transactions : u # t => s5'[u] = s5[u]
        /\ s3' \in [StoreProducts -> Contexted] /\ s3'[p] = 0
        /\ \A r \in StoreProducts : r # p => s3'[r] = s3[r]
    BY <1>1, <1>2, <2>2
  <2> HIDE DEF p
  <2>7. StoreKit!TypeOK'
    BY <2>2, <2>5, <2>6 DEF StoreKitIInv, StoreKit!TypeOK, FlowRecords, Contexted
  <2>8. Existing' = Existing /\ (Selling' <=> Selling) /\ StoreKit!Finished' = StoreKit!Finished
    BY <2>2 DEF Existing, Selling, StoreKit!Finished
  <2>9. OneTransaction' /\ Settled'
    BY <2>2, <2>3, <2>8 DEF StoreKitIInv, OneTransaction, Settled
  <2>10. Origins'
    BY <1>1, <1>2, <2>1, <2>2, <2>6, <2>8 DEF StoreKitIInv, Origins
  <2>11. \A g \in StoreKit!Flows : s8[g].at \in Places \union {"waiting"} => s8[g].transaction # t
    BY <1>1 DEF StoreKitIInv, FlowsOK
  <2>12. FlowsOK'
    <3>1. ASSUME NEW g \in StoreKit!Flows
          PROVE  /\ s8'[g].at \notin {"idle", "scanning"} => s8'[g].transaction \in Existing
                 /\ s8'[g].left \subseteq Existing
                 /\ \A pair \in s8'[g].found : pair[1] \in Existing
                 /\ s8'[g].at \in Places =>
                      /\ s8'[g].claim # 0
                      /\ s5'[s8'[g].transaction] = s8'[g].claim
                 /\ s8'[g].at = "waiting" => s5'[s8'[g].transaction] # 0
      <4>1. CASE g = f
        BY <1>1, <2>1, <2>4, <2>5, <2>6, <4>1 DEF StoreKitIInv, FlowsOK
      <4>2. CASE g # f
        <5>1. s8'[g] = s8[g]
          BY <2>5, <4>2
        <5>2. /\ s8[g].at \notin {"idle", "scanning"} => s8[g].transaction \in Existing
              /\ s8[g].left \subseteq Existing
              /\ \A pair \in s8[g].found : pair[1] \in Existing
              /\ s8[g].at \in Places => /\ s8[g].claim # 0
                                        /\ s5[s8[g].transaction] = s8[g].claim
              /\ s8[g].at = "waiting" => s5[s8[g].transaction] # 0
          BY DEF StoreKitIInv, FlowsOK
        <5> QED BY <2>6, <2>11, <5>1, <5>2 DEF Existing, Places
      <4> QED BY <4>1, <4>2
    <3> QED BY <3>1, <2>8 DEF FlowsOK
  <2>13. Owners'
    <3>1. \A g \in StoreKit!Flows : Promotes(s8'[g], t) <=> g = f
      BY <2>4, <2>5, <2>11 DEF Promotes, Places
    <3>2. ASSUME NEW u \in Transactions, u # t, NEW g \in StoreKit!Flows
          PROVE  Promotes(s8'[g], u) <=> Promotes(s8[g], u)
      BY <1>1, <2>4, <2>5, <3>2 DEF Promotes, Places
    <3> QED BY <2>6, <3>1, <3>2 DEF StoreKitIInv, Owners
  <2>14. Heard'
    BY <1>1, <2>2, <2>3, <2>4, <2>5 DEF StoreKitIInv, Heard, StoreKit!Flows
  <2>15. \A q \in Queries : s8'[q].found = s8[q].found
    BY <2>4, <2>5 DEF StoreKit!Flows
  <2>16. OneContext'
    <3>1. ASSUME NEW u \in Existing, NEW c \in Nat, Agree(u, c) PROVE Agree(u, c)'
      <4>1. s5'[u] \in {0, c}
        BY <1>1, <2>1, <2>6, <3>1 DEF Agree, Existing, p
      <4> QED BY <2>2, <2>15, <3>1, <4>1 DEF Agree
    <3> QED BY <3>1, <2>8 DEF StoreKitIInv, OneContext
  <2>17. Strays'
    BY <2>2, <2>3, <2>6 DEF StoreKitIInv, Strays
  <2>18. ASSUME NEW a, a \notin s13'.gone, a # s10[t].attempt PROVE a # claim
    BY <2>3, <2>18
  <2>19. Kept'
    <3>1. ASSUME NEW a \in s11, a.attempt \notin s13'.gone
          PROVE  s3'[a.product] = a.attempt
      <4>1. a.attempt # s10[t].attempt /\ a.product \in StoreProducts
        BY <1>1 DEF StoreKitIInv, OneTransaction, StoreKit!TypeOK
      <4>2. s3[a.product] = a.attempt
        BY <2>3, <3>1 DEF StoreKitIInv, Kept
      <4> QED BY <2>6, <2>18, <3>1, <4>1, <4>2 DEF claim
    <3>2. ASSUME Selling, s7.attempt \notin s13'.gone
          PROVE  s3'[s7.product] = s7.attempt
      <4>1. s7.attempt # s10[t].attempt /\ s7.product \in StoreProducts
        BY <1>1, <3>2 DEF StoreKitIInv, OneTransaction, Origins, Selling
      <4>2. s3[s7.product] = s7.attempt
        BY <2>3, <3>2 DEF StoreKitIInv, Kept
      <4> QED BY <2>6, <2>18, <3>2, <4>1, <4>2 DEF claim
    <3>3. ASSUME NEW u \in Transactions, StoreKit!OwedContext(u)'
          PROVE  \/ s2[u] = s10[u].attempt
                 \/ s3'[s10[u].product] = s10[u].attempt
                 \/ /\ s5'[u] = s10[u].attempt
                    /\ s4[s10[u].product] = s10[u].attempt
      <4> DEFINE a == s10[u].attempt
      <4>1. StoreKit!OwedContext(u) /\ a # 0 /\ a \notin s13'.gone
        BY <2>2, <2>3, <3>3, OwedBefore DEF StoreKit!OwedContext
      <4>2. s10[u].product \in StoreProducts
        BY <4>1 DEF StoreKitIInv, Origins
      <4>3. CASE s2[u] = a
        BY <4>3
      <4>4. CASE s3[s10[u].product] = a
        <5>1. CASE u = t
          BY <2>1, <2>6, <4>4, <5>1 DEF claim, p
        <5>2. CASE u # t
          <6>1. a # s10[t].attempt
            BY <1>1, <4>1, <5>2 DEF StoreKitIInv, OneTransaction
          <6>2. a # claim
            BY <2>18, <4>1, <6>1
          <6> QED BY <2>6, <4>2, <4>4, <6>2 DEF claim
        <5> QED BY <5>1, <5>2
      <4>5. CASE s5[u] = a /\ s4[s10[u].product] = a
        BY <1>1, <2>6, <4>1, <4>5
      <4> QED BY <4>1, <4>3, <4>4, <4>5 DEF StoreKitIInv, Kept
    <3>4. s7.at \in {"buying", "stored"} =>
            s4[s7.product] \in {0, s7.attempt}
      BY DEF StoreKitIInv, Kept
    <3> QED BY <2>2, <2>8, <3>1, <3>2, <3>3, <3>4 DEF Kept
  <2>20. Relied'
    <3>1. ASSUME NEW g \in StoreKit!Flows PROVE ReliedOn(s8[g])'
      BY <2>2, <2>3, <2>4, <2>5, ReliedStays
    <3> QED BY <2>2, <2>3, <3>1, ReliedOnIs, ReliedOnWillBe DEF StoreKitIInv
  <2> QED BY <2>3, <2>7, <2>9, <2>10, <2>12, <2>13, <2>14, <2>16, <2>17, <2>19, <2>20
          DEF StoreKitIInv
<1> QED BY <1>4, <1>5

\* What a step that stores, or fails to store, does to the journal and the history.
Journals(t, context) ==
  /\ s2' \in [Transactions -> Contexted]
  /\ \A u \in Transactions : s2'[u] = s2[u] \/ (u = t /\ s2'[u] = context)
  /\ \A u \in Transactions : s2[u] # 0 => s2'[u] = s2[u]
  /\ SeenOK' /\ s13'.told = s13.told /\ s13'.settled = s13.settled
  /\ s13'.gone = s13.gone /\ s13'.unheard = s13.unheard
  /\ s13.late \subseteq s13'.late
  /\ \A u \in s9 \union StoreKit!Finished : s2'[u] # 0 => u \in s13'.late

LEMMA StoredJournals ==
  ASSUME StoreKitIInv, NEW t \in Transactions, NEW context \in Contexted, StoreKit!Stored(t, context)
  PROVE  Journals(t, context) /\ s2'[t] = context
<1>1. s2 \in [Transactions -> Contexted]
  BY DEF StoreKitIInv, StoreKit!TypeOK, Contexted
<1>2. /\ s2' \in [Transactions -> Contexted] /\ s2'[t] = context
      /\ \A u \in Transactions : u # t => s2'[u] = s2[u]
      /\ s2[t] \in {0, context}
  BY <1>1 DEF StoreKit!Stored
<1>3. /\ SeenOK' /\ s13'.told = s13.told /\ s13'.settled = s13.settled
      /\ s13'.gone = s13.gone /\ s13'.unheard = s13.unheard
      /\ s13.late \subseteq s13'.late
      /\ t \in s9 \union StoreKit!Finished => t \in s13'.late
  <2>1. CASE t \in s9 \union StoreKit!Finished
    <3> DEFINE late == s13.late \union {t}
    <3>1. s13' = [s13 EXCEPT !.late = late]
      BY <2>1 DEF StoreKit!Stored
    <3>2. late \in SUBSET Transactions
      BY SeenType
    <3> HIDE DEF late
    <3>3. /\ SeenOK' /\ s13'.told = s13.told /\ s13'.settled = s13.settled
          /\ s13'.gone = s13.gone /\ s13'.unheard = s13.unheard /\ s13'.late = late
      BY SeenType, <3>1, <3>2 DEF SeenOK
    <3> QED BY <3>3 DEF late
  <2>2. CASE t \notin s9 \union StoreKit!Finished
    <3>1. s13' = s13
      BY <2>2 DEF StoreKit!Stored
    <3> QED BY <2>2, <3>1 DEF SeenOK, StoreKitIInv
  <2> QED BY <2>1, <2>2
<1>4. \A u \in s9 \union StoreKit!Finished : s2[u] # 0 => u \in s13.late
  BY DEF StoreKitIInv, Settled
<1>5. \A u \in s9 \union StoreKit!Finished : u \in Transactions
  BY DEF StoreKitIInv, StoreKit!TypeOK, StoreKit!Finished
<1>6. \A u \in s9 \union StoreKit!Finished : s2'[u] # 0 => u \in s13'.late
  BY <1>2, <1>3, <1>4, <1>5
<1> QED BY <1>2, <1>3, <1>6 DEF Journals

LEMMA FailingJournals ==
  ASSUME StoreKitIInv, NEW t, NEW context, StoreKit!StoreFails
  PROVE  Journals(t, context)
BY DEF StoreKit!StoreFails, Journals, StoreKitIInv, StoreKit!TypeOK, Settled, SeenOK, Contexted

LEMMA PromoteKeeps ==
  ASSUME StoreKitIInv, NEW f \in StoreKit!Flows, StoreKit!PromoteContext(f)
  PROVE  StoreKitIInv'
<1> DEFINE t == s8[f].transaction
           claim == s8[f].claim
<1>1. /\ s8 \in [StoreKit!Flows -> FlowRecords] /\ s8[f] \in FlowRecords
      /\ s8[f].at = "promoting" /\ t \in Existing /\ t \in Transactions
      /\ claim \in Contexted /\ claim # 0 /\ s5[t] = claim
      /\ UNCHANGED <<s1, s3, s4, s5, s6, s7, s9, s10, s11,
                     s12>>
  BY FlowTypes, JournalType DEF StoreKit!PromoteContext, StoreKit!contexts, StoreKitIInv,
      FlowsOK, Places,
                                FlowRecords
<1>2. PICK at \in {"committing", "rollingBack"} :
        /\ Journals(t, claim) /\ StoreKit!GoesOn(f, at)
        /\ at = "committing" => s2'[t] = claim
  BY <1>1, StoredJournals, FailingJournals DEF StoreKit!PromoteContext
<1> DEFINE new == [s8[f] EXCEPT !.at = at]
<1>3. /\ new \in FlowRecords /\ new.at = at /\ new.left = s8[f].left
      /\ new.transaction = t /\ new.found = s8[f].found /\ new.claim = claim
  BY <1>1 DEF FlowRecords, StoreKit!FlowStates
<1>4. s8' = [s8 EXCEPT ![f] = new]
  BY <1>1, <1>2 DEF StoreKit!GoesOn
<1> HIDE DEF new, claim
<1>5. /\ s8' \in [StoreKit!Flows -> FlowRecords]
      /\ \A g \in StoreKit!Flows : s8'[g] = IF g = f THEN new ELSE s8[g]
  BY <1>1, <1>3, <1>4
<1>6. Existing' = Existing /\ (Selling' <=> Selling) /\ StoreKit!Finished' = StoreKit!Finished
  BY <1>1 DEF Existing, Selling, StoreKit!Finished
<1>7. StoreKit!TypeOK'
  BY <1>1, <1>2, <1>5 DEF StoreKitIInv, StoreKit!TypeOK, FlowRecords, Contexted, Journals
<1>8. OneTransaction'
  BY <1>1, <1>6 DEF StoreKitIInv, OneTransaction
<1>9. Origins'
  BY <1>1, <1>2, <1>6 DEF StoreKitIInv, Origins, Journals
<1>10. FlowsOK'
  <2>1. ASSUME NEW g \in StoreKit!Flows
        PROVE  /\ s8'[g].at \notin {"idle", "scanning"} => s8'[g].transaction \in Existing
               /\ s8'[g].left \subseteq Existing
               /\ \A pair \in s8'[g].found : pair[1] \in Existing
               /\ s8'[g].at \in Places => /\ s8'[g].claim # 0
                                          /\ s5[s8'[g].transaction] = s8'[g].claim
               /\ s8'[g].at = "waiting" => s5[s8'[g].transaction] # 0
    BY <1>1, <1>3, <1>5 DEF StoreKitIInv, FlowsOK
  <2> QED BY <1>1, <1>6, <2>1 DEF FlowsOK
<1>11. Owners'
  <2>1. \A g \in StoreKit!Flows, u \in Transactions : Promotes(s8'[g], u) <=> Promotes(s8[g], u)
    BY <1>1, <1>2, <1>3, <1>5 DEF Promotes, Places
  <2> QED BY <1>1, <2>1 DEF StoreKitIInv, Owners
<1>12. Heard'
  BY <1>1, <1>2, <1>3, <1>5 DEF StoreKitIInv, Heard, Journals, StoreKit!Flows
<1>13. OneContext'
  <2>1. ASSUME NEW u \in Existing, NEW c \in Nat, Agree(u, c) PROVE Agree(u, c)'
    <3>1. s2'[u] \in {0, c}
      BY <1>1, <1>2, <2>1 DEF Agree, Existing, Journals
    <3>2. \A q \in Queries : s8'[q].found = s8[q].found
      BY <1>3, <1>5 DEF StoreKit!Flows
    <3> QED BY <1>1, <2>1, <3>1, <3>2 DEF Agree
  <2> QED BY <1>6, <2>1 DEF StoreKitIInv, OneContext
<1>14. Settled'
  BY <1>1, <1>2, <1>6 DEF StoreKitIInv, Settled, Journals
<1>15. Strays'
  BY <1>1, <1>2 DEF StoreKitIInv, Strays, Journals
<1>16. Kept'
  <2>1. \A u \in Transactions : StoreKit!OwedContext(u)' => StoreKit!OwedContext(u) /\ s10[u].attempt # 0
    BY <1>1, <1>2 DEF StoreKit!OwedContext, Journals
  <2>2. \A u \in Transactions : s2[u] # 0 => s2'[u] = s2[u]
    BY <1>2 DEF Journals
  <2>3. \A u \in Transactions : StoreKit!OwedContext(u)' =>
           \/ s2'[u] = s10[u].attempt
           \/ s3[s10[u].product] = s10[u].attempt
           \/ /\ s5[u] = s10[u].attempt
              /\ s4[s10[u].product] = s10[u].attempt
    BY <2>1, <2>2 DEF StoreKitIInv, Kept
  <2>4. s13'.gone = s13.gone
    BY <1>2 DEF Journals
  <2>5. /\ \A a \in s11 : a.attempt \notin s13.gone => s3[a.product] = a.attempt
        /\ Selling /\ s7.attempt \notin s13.gone =>
             s3[s7.product] = s7.attempt
        /\ s7.at \in {"buying", "stored"} =>
             s4[s7.product] \in {0, s7.attempt}
    BY DEF StoreKitIInv, Kept
  <2> QED BY <1>1, <1>6, <2>3, <2>4, <2>5 DEF Kept
<1>17. Relied'
  <2>1. ASSUME NEW g \in StoreKit!Flows PROVE ReliedOn(s8[g])'
    <3>1. CASE g # f \/ at # "committing"
      BY <1>1, <1>2, <1>3, <1>5, <3>1, ReliedStays DEF Journals
    <3>2. CASE g = f /\ at = "committing"
      <4>1. \A u \in Transactions : StoreKit!OwedContext(u)' => StoreKit!OwedContext(u)
        BY <1>1, <1>2, OwedBefore DEF Journals
      <4>2. /\ \A pair \in s8[f].found : pair[2] = 0 => ~StoreKit!OwedContext(pair[1])
            /\ \A pair \in s8[f].found : pair[1] \in Transactions
        BY DEF StoreKitIInv, Relied, FlowsOK, Existing
      <4>3. s8'[g] = new
        BY <1>5, <3>2
      <4> QED BY <1>2, <1>3, <3>2, <4>1, <4>2, <4>3 DEF ReliedOn
    <3> QED BY <3>1, <3>2
  <2>2. s7.at = "stored" => /\ s7.attempt # 0
                            /\ s7.transaction \in Transactions
    BY DEF StoreKitIInv, Origins, Existing
  <2> QED BY <1>1, <1>2, <2>1, <2>2, ReliedOnIs, ReliedOnWillBe DEF StoreKitIInv, Journals
<1>18. SeenOK'
  BY <1>2 DEF Journals
<1> QED BY <1>7, <1>8, <1>9, <1>10, <1>11, <1>12, <1>13, <1>14, <1>15, <1>16, <1>17, <1>18
        DEF StoreKitIInv

\* The flow that promoted goes on, and so do those that waited for it.
LEMMA GoesOnWith ==
  ASSUME StoreKitIInv, NEW f \in StoreKit!Flows, NEW context \in Contexted,
         s8[f].at \notin {"idle", "scanning"}
  PROVE  LET new == StoreKit!WithContext(f, context) IN
         /\ new \in FlowRecords /\ new.at \in {"handled", "scanning"}
         /\ new.left = s8[f].left
         /\ new.found \subseteq s8[f].found \union {<<s8[f].transaction, context>>}
         /\ new.at = "handled" => new.transaction = s8[f].transaction
         /\ f = Updates => new.at = "handled"
<1>1. s8[f] \in FlowRecords /\ s8[f].transaction \in Transactions
  BY FlowTypes, JournalType
<1>2. CASE f = Updates
  <2> DEFINE new == [s8[f] EXCEPT !.at = "handled", !.claim = 0]
  <2>1. /\ new \in FlowRecords /\ new.at = "handled" /\ new.left = s8[f].left
        /\ new.transaction = s8[f].transaction /\ new.found = s8[f].found
    <3>1. "handled" \in StoreKit!FlowStates
      BY DEF StoreKit!FlowStates
    <3> QED BY <1>1, <3>1, ZeroIsContexted DEF FlowRecords
  <2>2. StoreKit!WithContext(f, context) = new
    BY <1>2 DEF StoreKit!WithContext
  <2> HIDE DEF new
  <2> QED BY <2>1, <2>2
<1>3. CASE f # Updates
  <2> DEFINE found == s8[f].found \union {<<s8[f].transaction, context>>}
             new == [s8[f] EXCEPT !.at = "scanning", !.claim = 0,
                                  !.transaction = NoTransaction, !.found = found]
  <2>1. found \in SUBSET (Transactions \X Contexted)
    BY <1>1 DEF FlowRecords
  <2>2. StoreKit!WithContext(f, context) = new
    BY <1>3 DEF StoreKit!WithContext
  <2> HIDE DEF found
  <2>3. new \in FlowRecords /\ new.at = "scanning" /\ new.left = s8[f].left /\ new.found = found
    <3>1. "scanning" \in StoreKit!FlowStates
      BY DEF StoreKit!FlowStates
    <3> QED BY <1>1, <2>1, <3>1, ZeroIsContexted DEF FlowRecords
  <2> HIDE DEF new
  <2> QED BY <1>3, <2>2, <2>3 DEF found
<1> QED BY <1>2, <1>3

LEMMA FailsWith ==
  ASSUME StoreKitIInv, NEW f \in StoreKit!Flows, s8[f].at \notin {"idle", "scanning"}
  PROVE  LET new == StoreKit!Failed(f) IN
         /\ new \in FlowRecords /\ new.at \in {"handled", "idle"}
         /\ new.left \subseteq s8[f].left /\ new.found \subseteq s8[f].found
         /\ new.at = "handled" => new.transaction = s8[f].transaction
         /\ f = Updates => new.at = "handled"
<1>1. s8[f] \in FlowRecords
  BY FlowTypes
<1>2. CASE f = Updates
  <2> DEFINE new == [s8[f] EXCEPT !.at = "handled", !.claim = 0]
  <2>1. /\ new \in FlowRecords /\ new.at = "handled" /\ new.left = s8[f].left
        /\ new.transaction = s8[f].transaction /\ new.found = s8[f].found
    <3>1. "handled" \in StoreKit!FlowStates
      BY DEF StoreKit!FlowStates
    <3> QED BY <1>1, <3>1, ZeroIsContexted DEF FlowRecords
  <2>2. StoreKit!Failed(f) = new
    BY <1>2 DEF StoreKit!Failed
  <2> HIDE DEF new
  <2> QED BY <2>1, <2>2
<1>3. CASE f # Updates
  BY <1>3, RestingIsAFlow DEF StoreKit!Failed, StoreKit!Resting
<1> QED BY <1>2, <1>3

LEMMA ConfirmsNext ==
  ASSUME NEW l \in FlowRecords
  PROVE  LET new == [l EXCEPT !.at = "confirming"] IN
         /\ new \in FlowRecords /\ new.at = "confirming" /\ new.left = l.left
         /\ new.found = l.found /\ new.transaction = l.transaction
<1>1. "confirming" \in StoreKit!FlowStates
  BY DEF StoreKit!FlowStates
<1> QED BY <1>1 DEF FlowRecords

\* What becomes of the flows when a promotion of t ends.
Ends(f, t) ==
  /\ s8' \in [StoreKit!Flows -> FlowRecords]
  /\ \A g \in StoreKit!Flows : g # f /\ g \notin StoreKit!Waiting(t) => s8'[g] = s8[g]
  /\ \A g \in StoreKit!Flows : g = f \/ g \in StoreKit!Waiting(t) =>
       /\ s8'[g].at \in {"handled", "scanning", "idle", "confirming"}
       /\ s8'[g].left \subseteq s8[g].left
       /\ s8'[g].at \in {"handled", "confirming"} =>
            s8'[g].transaction = s8[g].transaction
       /\ g = Updates => s8'[g].at \in {"handled", "confirming"}
  /\ \A g \in StoreKit!Flows : g # f => s8'[g].found \subseteq s8[g].found

LEMMA PromotionEnds ==
  ASSUME StoreKitIInv, NEW f \in StoreKit!Flows, NEW t, t = s8[f].transaction,
         s8[f].at \in {"committing", "rollingBack"}, Ends(f, t),
         \A pair \in s8'[f].found : pair \in s8[f].found \/ pair = <<t, s8[f].claim>>,
         s5' = [s5 EXCEPT ![t] = 0],
         UNCHANGED <<s10, s6, s13>>
  PROVE  FlowsOK' /\ Owners' /\ Heard'
<1>1. /\ t \in Existing /\ t \in Transactions /\ s5 \in [Transactions -> Contexted]
      /\ s8 \in [StoreKit!Flows -> FlowRecords]
  BY FlowTypes, JournalType DEF StoreKitIInv, StoreKit!TypeOK, Contexted
<1>2. /\ s5'[t] = 0 /\ \A u \in Transactions : u # t => s5'[u] = s5[u]
      /\ Existing' = Existing
  BY <1>1 DEF Existing
<1>3. Promotes(s8[f], t)
  BY DEF Promotes, Places
<1>4. \A g \in StoreKit!Flows : Promotes(s8[g], t) => g = f
  BY <1>1, <1>3 DEF StoreKitIInv, Owners
<1>5. ASSUME NEW g \in StoreKit!Flows
      PROVE  /\ s8'[g].at \notin {"idle", "scanning"} => s8'[g].transaction \in Existing
             /\ s8'[g].left \subseteq Existing
             /\ \A pair \in s8'[g].found : pair[1] \in Existing
             /\ s8'[g].at \in Places => /\ s8'[g].claim # 0
                                        /\ s5'[s8'[g].transaction] = s8'[g].claim
             /\ s8'[g].at = "waiting" => s5'[s8'[g].transaction] # 0
  <2>1. /\ s8[g].at \notin {"idle", "scanning"} => s8[g].transaction \in Existing
        /\ s8[g].left \subseteq Existing
        /\ \A pair \in s8[g].found : pair[1] \in Existing
        /\ s8[g].at \in Places => /\ s8[g].claim # 0
                                  /\ s5[s8[g].transaction] = s8[g].claim
        /\ s8[g].at = "waiting" => s5[s8[g].transaction] # 0
    BY DEF StoreKitIInv, FlowsOK
  <2>2. \A pair \in s8'[g].found : pair[1] \in Existing
    BY <1>1, <2>1 DEF Ends
  <2>3. CASE g = f \/ g \in StoreKit!Waiting(t)
    <3>1. s8[g].at \notin {"idle", "scanning"}
      BY <2>3 DEF StoreKit!Waiting
    <3>2. /\ s8'[g].at \in {"handled", "scanning", "idle", "confirming"}
          /\ s8'[g].left \subseteq s8[g].left
          /\ s8'[g].at \in {"handled", "confirming"} =>
               s8'[g].transaction = s8[g].transaction
      BY <2>3 DEF Ends
    <3> QED BY <2>1, <2>2, <3>1, <3>2 DEF Places
  <2>4. CASE g # f /\ g \notin StoreKit!Waiting(t)
    <3>1. s8'[g] = s8[g]
      BY <2>4 DEF Ends
    <3>2. s8[g].at \in Places \union {"waiting"} => s8[g].transaction # t
      BY <1>4, <2>4 DEF Promotes, StoreKit!Waiting
    <3> QED BY <1>2, <2>1, <3>1, <3>2 DEF Existing, Places
  <2> QED BY <2>3, <2>4
<1>6. FlowsOK'
  BY <1>2, <1>5 DEF FlowsOK
<1>7. ASSUME NEW g \in StoreKit!Flows, NEW u \in Transactions
      PROVE  Promotes(s8'[g], u) <=> Promotes(s8[g], u) /\ u # t
  <2>1. CASE g = f \/ g \in StoreKit!Waiting(t)
    BY <1>3, <2>1 DEF Ends, Promotes, Places, StoreKit!Waiting
  <2>2. CASE g # f /\ g \notin StoreKit!Waiting(t)
    BY <1>4, <2>2 DEF Ends, Promotes
  <2> QED BY <2>1, <2>2
<1>8. Owners'
  BY <1>2, <1>7 DEF StoreKitIInv, Owners
<1>9. Heard'
  <2>1. s8[Updates].at # "idle" =>
          s8'[Updates].at # "idle" /\ s8'[Updates].transaction = s8[Updates].transaction
    BY DEF Ends, StoreKit!Flows
  <2> QED BY <2>1 DEF StoreKitIInv, Heard
<1> QED BY <1>6, <1>8, <1>9

LEMMA CommitKeeps ==
  ASSUME StoreKitIInv, NEW f \in StoreKit!Flows, StoreKit!CommitClaim(f)
  PROVE  StoreKitIInv'
<1> DEFINE t == s8[f].transaction
           p == s10[t].product
           claim == s8[f].claim
<1>1. /\ s8 \in [StoreKit!Flows -> FlowRecords] /\ s8[f] \in FlowRecords
      /\ s8[f].at = "committing" /\ t \in Existing /\ t \in Transactions /\ p \in StoreProducts
      /\ claim \in Contexted /\ claim # 0 /\ s5[t] = claim
      /\ s5' = [s5 EXCEPT ![t] = 0]
      /\ UNCHANGED <<s1, s2, s6, s7, s9, s10, s11, s12, s13>>
  BY FlowTypes, JournalType DEF StoreKit!CommitClaim, StoreKitIInv, FlowsOK, Places, FlowRecords
<1>2. s8' = [g \in StoreKit!Flows |-> IF g = f THEN StoreKit!WithContext(f, claim)
                             ELSE IF g \in StoreKit!Waiting(t) THEN [s8[g] EXCEPT !.at = "confirming"]
                             ELSE s8[g]]
  BY DEF StoreKit!CommitClaim
<1>3. /\ s3 \in [StoreProducts -> Contexted] /\ s4 \in [StoreProducts -> Contexted]
      /\ s5 \in [Transactions -> Contexted] /\ s3[p] \in {0, s4[p]}
  BY <1>1 DEF StoreKitIInv, StoreKit!TypeOK, Contexted, Origins
<1>4. \/ s4[p] # claim /\ s3' = s3 /\ s4' = s4
      \/ /\ s4[p] = claim /\ s3' = [s3 EXCEPT ![p] = 0]
         /\ s4' = [s4 EXCEPT ![p] = 0]
  <2>1. CASE s4[p] # claim
    BY <2>1 DEF StoreKit!CommitClaim
  <2>2. CASE s4[p] = claim
    <3>1. s3' = [s3 EXCEPT ![p] = IF @ = claim THEN 0 ELSE @]
      BY <2>2 DEF StoreKit!CommitClaim
    <3>2. s4' = [s4 EXCEPT ![p] = 0]
      BY <2>2 DEF StoreKit!CommitClaim
    <3> HIDE DEF p, claim
    <3>3. s3' = [s3 EXCEPT ![p] = 0]
      BY <1>3, <2>2, <3>1
    <3> QED BY <2>2, <3>2, <3>3
  <2> QED BY <2>1, <2>2
<1>5. Ends(f, t)
  <2>1. ASSUME NEW g \in StoreKit!Flows
        PROVE  /\ s8'[g] \in FlowRecords
               /\ g # f /\ g \notin StoreKit!Waiting(t) => s8'[g] = s8[g]
               /\ g = f \/ g \in StoreKit!Waiting(t) =>
                    /\ s8'[g].at \in {"handled", "scanning", "idle", "confirming"}
                    /\ s8'[g].left \subseteq s8[g].left
                    /\ s8'[g].at \in {"handled", "confirming"} =>
                         s8'[g].transaction = s8[g].transaction
                    /\ g = Updates => s8'[g].at \in {"handled", "confirming"}
               /\ g # f => s8'[g].found \subseteq s8[g].found
    <3>1. CASE g = f
      <4>1. s8'[g] = StoreKit!WithContext(f, claim)
        BY <1>2, <3>1
      <4> HIDE DEF claim
      <4> QED BY <1>1, <3>1, <4>1, GoesOnWith
    <3>2. CASE g # f /\ g \in StoreKit!Waiting(t)
      <4>1. s8'[g] = [s8[g] EXCEPT !.at = "confirming"] /\ s8[g] \in FlowRecords
        BY <1>1, <1>2, <3>2
      <4> QED BY <3>2, <4>1, ConfirmsNext
    <3>3. CASE g # f /\ g \notin StoreKit!Waiting(t)
      BY <1>1, <1>2, <3>3
    <3> QED BY <3>1, <3>2, <3>3
  <2>2. DOMAIN s8' = StoreKit!Flows /\ s8' = [g \in StoreKit!Flows |-> s8'[g]]
    BY <1>2
  <2>3. s8' \in [StoreKit!Flows -> FlowRecords]
    BY <2>1, <2>2
  <2> QED BY <2>1, <2>3 DEF Ends
<1>6. s8'[f].found \subseteq s8[f].found \union {<<t, claim>>}
  <2>1. s8'[f] = StoreKit!WithContext(f, claim)
    BY <1>2
  <2> HIDE DEF claim
  <2> QED BY <1>1, <2>1, GoesOnWith
<1>7. FlowsOK' /\ Owners' /\ Heard'
  <2>1. \A pair \in s8'[f].found : pair \in s8[f].found \/ pair = <<t, s8[f].claim>>
    BY <1>6
  <2> QED BY <1>1, <1>5, <2>1, PromotionEnds
<1> HIDE DEF claim, p
<1>8. /\ s5' \in [Transactions -> Contexted] /\ s5'[t] = 0
      /\ \A u \in Transactions : u # t => s5'[u] = s5[u]
      /\ s3' \in [StoreProducts -> Contexted] /\ s4' \in [StoreProducts -> Contexted]
      /\ \A r \in StoreProducts : \/ s3'[r] = s3[r] /\ s4'[r] = s4[r]
                                  \/ /\ r = p /\ s4[r] = claim /\ s3[r] \in {0, claim}
                                     /\ s3'[r] = 0 /\ s4'[r] = 0
  BY <1>1, <1>3, <1>4, ZeroIsContexted
<1>9. Existing' = Existing /\ (Selling' <=> Selling) /\ StoreKit!Finished' = StoreKit!Finished
  BY <1>1 DEF Existing, Selling, StoreKit!Finished
<1>10. StoreKit!TypeOK'
  BY <1>1, <1>5, <1>8 DEF StoreKitIInv, StoreKit!TypeOK, FlowRecords, Contexted, Ends
<1>11. OneTransaction' /\ Settled' /\ SeenOK'
  BY <1>1, <1>9 DEF StoreKitIInv, OneTransaction, Settled, SeenOK
<1>12. Origins'
  <2>1. s12 \in Nat
    BY DEF StoreKitIInv, Origins, StoreKit!TypeOK, StoreKit!Scope
  <2>2. \A r \in StoreProducts : s4'[r] <= s12 /\ s3'[r] \in {0, s4'[r]}
    BY <1>8, <2>1 DEF StoreKitIInv, Origins
  <2>3. \A u \in Transactions : s5[u] = 0 => s5'[u] = 0
    BY <1>8
  <2> QED BY <1>1, <1>9, <2>2, <2>3 DEF StoreKitIInv, Origins
<1>13. claim = s10[t].attempt \/ claim \in s13.gone
  BY <1>1 DEF StoreKitIInv, Strays
<1>14. OneContext'
  <2>1. ASSUME NEW u \in Existing, NEW c \in Nat, Agree(u, c) PROVE Agree(u, c)'
    <3>1. s5'[u] \in {0, c}
      BY <1>8, <2>1 DEF Agree, Existing
    <3>2. ASSUME NEW q \in Queries, NEW pair \in s8'[q].found, pair[1] = u
          PROVE  pair[2] \in {0, c}
      <4>1. q \in StoreKit!Flows
        BY DEF StoreKit!Flows
      <4>2. CASE pair \in s8[q].found
        BY <2>1, <3>2, <4>2 DEF Agree
      <4>3. CASE pair = <<t, claim>>
        BY <1>1, <2>1, <3>2, <4>3 DEF Agree, claim
      <4> QED BY <1>5, <1>6, <3>2, <4>1, <4>2, <4>3 DEF Ends
    <3>3. LET last == s4'[s10[u].product]
          IN  last # 0 /\ last <= s10[u].date => last = c
      <4>1. s10[u].product \in StoreProducts
        BY DEF StoreKitIInv, Origins, Existing
      <4> QED BY <1>8, <2>1, <4>1 DEF Agree
    <3> QED BY <1>1, <2>1, <3>1, <3>2, <3>3 DEF Agree
  <2> QED BY <1>9, <2>1 DEF StoreKitIInv, OneContext
<1>15. Strays'
  BY <1>1, <1>8 DEF StoreKitIInv, Strays
<1>16. Kept'
  <2>1. ASSUME NEW a \in s11, a.attempt \notin s13.gone PROVE s3'[a.product] = a.attempt
    <3>1. a.product \in StoreProducts /\ a.attempt # 0
      BY StoreKitAssumption DEF StoreKitIInv, StoreKit!TypeOK
    <3>2. a.attempt # s10[t].attempt /\ s3[a.product] = a.attempt
      BY <1>1, <2>1 DEF StoreKitIInv, OneTransaction, Kept
    <3> QED BY <1>8, <1>13, <2>1, <3>1, <3>2
  <2>2. ASSUME Selling, s7.attempt \notin s13.gone
        PROVE  s3'[s7.product] = s7.attempt
    <3>1. /\ s7.attempt # s10[t].attempt /\ s7.product \in StoreProducts
          /\ s7.attempt # 0 /\ s3[s7.product] = s7.attempt
      BY <1>1, <2>2 DEF StoreKitIInv, OneTransaction, Origins, Kept, Selling
    <3> QED BY <1>8, <1>13, <2>2, <3>1
  <2>3. ASSUME NEW u \in Transactions, StoreKit!OwedContext(u)
        PROVE  \/ s2[u] = s10[u].attempt
               \/ s3'[s10[u].product] = s10[u].attempt
               \/ /\ s5'[u] = s10[u].attempt
                  /\ s4'[s10[u].product] = s10[u].attempt
    <3> DEFINE a == s10[u].attempt
    <3>1. a # 0 /\ a \notin s13.gone /\ u \notin s13.settled
      BY <2>3 DEF StoreKit!OwedContext
    <3>2. s10[u].product \in StoreProducts
      BY <3>1 DEF StoreKitIInv, Origins
    <3>3. a = claim => s2[u] = a
      <4>1. a = claim => u = t
        BY <1>1, <1>13, <3>1 DEF StoreKitIInv, OneTransaction
      <4>2. s2[t] = claim \/ t \in s13.settled
        BY <1>1 DEF StoreKitIInv, Relied, claim
      <4> QED BY <3>1, <4>1, <4>2
    <3>4. \/ s2[u] = a \/ s3[s10[u].product] = a
          \/ s5[u] = a /\ s4[s10[u].product] = a
      BY <2>3 DEF StoreKitIInv, Kept
    <3>5. u = t /\ s5[u] = a => a = claim
      BY <1>1 DEF claim
    <3> HIDE DEF a
    <3>6. \/ s2[u] = a \/ s3'[s10[u].product] = a
          \/ s5'[u] = a /\ s4'[s10[u].product] = a
      BY <1>8, <3>1, <3>2, <3>3, <3>4, <3>5
    <3> QED BY <3>6 DEF a
  <2>4. s7.at \in {"buying", "stored"} => s4'[s7.product] \in {0, s7.attempt}
    BY <1>8 DEF StoreKitIInv, Kept, Origins
  <2>5. \A u \in Transactions : StoreKit!OwedContext(u)' => StoreKit!OwedContext(u)
    BY <1>1 DEF StoreKit!OwedContext
  <2> QED BY <1>1, <1>9, <2>1, <2>2, <2>3, <2>4, <2>5 DEF Kept
<1>17. Relied'
  <2>1. ASSUME NEW g \in StoreKit!Flows PROVE ReliedOn(s8[g])'
    <3>1. CASE g # f
      <4>1. \/ s8'[g] = s8[g]
            \/ /\ s8'[g].at \notin {"committing", "rereading"}
               /\ s8'[g].found \subseteq s8[g].found
        BY <1>5, <3>1 DEF Ends
      <4> QED BY <1>1, <4>1, ReliedStays
    <3>2. CASE g = f
      <4>1. \A u \in Transactions : StoreKit!OwedContext(u)' => StoreKit!OwedContext(u)
        BY <1>1, OwedBefore
      <4>2. /\ \A pair \in s8[f].found : pair[2] = 0 => ~StoreKit!OwedContext(pair[1])
            /\ \A pair \in s8[f].found : pair[1] \in Transactions
        BY DEF StoreKitIInv, Relied, FlowsOK, Existing
      <4>3. s8'[g].at \notin {"committing", "rereading"}
        BY <1>5, <3>2 DEF Ends
      <4>4. \A pair \in s8'[g].found : pair[2] = 0 => ~StoreKit!OwedContext(pair[1])'
        BY <1>1, <1>6, <3>2, <4>1, <4>2 DEF claim
      <4> QED BY <4>3, <4>4 DEF ReliedOn
    <3> QED BY <3>1, <3>2
  <2> QED BY <1>1, <2>1, ReliedOnIs, ReliedOnWillBe DEF StoreKitIInv
<1> QED BY <1>7, <1>10, <1>11, <1>12, <1>14, <1>15, <1>16, <1>17 DEF StoreKitIInv

\* A promotion that could not be stored: the context is where it was.
LEMMA RollBackKeeps ==
  ASSUME StoreKitIInv, NEW f \in StoreKit!Flows, StoreKit!RollBackClaim(f)
  PROVE  StoreKitIInv'
<1> DEFINE t == s8[f].transaction
           p == s10[t].product
           claim == s8[f].claim
<1>1. /\ s8 \in [StoreKit!Flows -> FlowRecords] /\ s8[f] \in FlowRecords
      /\ s8[f].at = "rollingBack" /\ t \in Existing /\ t \in Transactions /\ p \in StoreProducts
      /\ claim \in Contexted /\ claim # 0 /\ s5[t] = claim
      /\ s5' = [s5 EXCEPT ![t] = 0]
      /\ UNCHANGED <<s1, s2, s4, s6, s7, s9, s10, s11, s12,
                     s13>>
  BY FlowTypes, JournalType DEF StoreKit!RollBackClaim, StoreKitIInv, FlowsOK, Places,
      FlowRecords
<1>2. s8' = [g \in StoreKit!Flows |-> IF g = f \/ g \in StoreKit!Waiting(t) THEN StoreKit!Failed(g) ELSE s8[g]]
  BY DEF StoreKit!RollBackClaim
<1>3. /\ s3 \in [StoreProducts -> Contexted] /\ s4 \in [StoreProducts -> Contexted]
      /\ s5 \in [Transactions -> Contexted] /\ s3[p] \in {0, s4[p]}
  BY <1>1 DEF StoreKitIInv, StoreKit!TypeOK, Contexted, Origins
<1>4. \/ ~(s4[p] = claim /\ s3[p] = 0) /\ s3' = s3
      \/ s4[p] = claim /\ s3[p] = 0 /\ s3' = [s3 EXCEPT ![p] = claim]
  BY DEF StoreKit!RollBackClaim
<1>5. Ends(f, t)
  <2>1. ASSUME NEW g \in StoreKit!Flows
        PROVE  /\ s8'[g] \in FlowRecords
               /\ g # f /\ g \notin StoreKit!Waiting(t) => s8'[g] = s8[g]
               /\ g = f \/ g \in StoreKit!Waiting(t) =>
                    /\ s8'[g].at \in {"handled", "scanning", "idle", "confirming"}
                    /\ s8'[g].left \subseteq s8[g].left
                    /\ s8'[g].at \in {"handled", "confirming"} =>
                         s8'[g].transaction = s8[g].transaction
                    /\ g = Updates => s8'[g].at \in {"handled", "confirming"}
               /\ s8'[g].found \subseteq s8[g].found
    <3>1. CASE g = f \/ g \in StoreKit!Waiting(t)
      <4>1. s8'[g] = StoreKit!Failed(g) /\ s8[g].at \notin {"idle", "scanning"}
        BY <1>1, <1>2, <3>1 DEF StoreKit!Waiting
      <4> QED BY <3>1, <4>1, FailsWith
    <3>2. CASE g # f /\ g \notin StoreKit!Waiting(t)
      <4>1. s8'[g] = s8[g] /\ s8[g] \in FlowRecords
        BY <1>1, <1>2, <3>2
      <4> QED BY <3>2, <4>1
    <3> QED BY <3>1, <3>2
  <2>2. DOMAIN s8' = StoreKit!Flows /\ s8' = [g \in StoreKit!Flows |-> s8'[g]]
    BY <1>2
  <2>3. s8' \in [StoreKit!Flows -> FlowRecords]
    BY <2>1, <2>2
  <2> QED BY <2>1, <2>3 DEF Ends
<1>6. \A g \in StoreKit!Flows : s8'[g].found \subseteq s8[g].found
  <2>1. s8'[f] = StoreKit!Failed(f)
    BY <1>2
  <2>2. s8'[f].found \subseteq s8[f].found
    BY <1>1, <2>1, FailsWith
  <2> QED BY <1>5, <2>2 DEF Ends
<1>7. FlowsOK' /\ Owners' /\ Heard'
  <2>1. \A pair \in s8'[f].found : pair \in s8[f].found \/ pair = <<t, s8[f].claim>>
    BY <1>6
  <2> QED BY <1>1, <1>5, <2>1, PromotionEnds
<1> HIDE DEF claim, p
<1>8. /\ s5' \in [Transactions -> Contexted] /\ s5'[t] = 0
      /\ \A u \in Transactions : u # t => s5'[u] = s5[u]
      /\ s3' \in [StoreProducts -> Contexted]
      /\ \A r \in StoreProducts : \/ s3'[r] = s3[r]
                                  \/ /\ r = p /\ s4[r] = claim /\ s3[r] = 0
                                     /\ s3'[r] = claim
      /\ s4[p] = claim => s3'[p] = claim
  BY <1>1, <1>3, <1>4, ZeroIsContexted
<1>9. Existing' = Existing /\ (Selling' <=> Selling) /\ StoreKit!Finished' = StoreKit!Finished
  BY <1>1 DEF Existing, Selling, StoreKit!Finished
<1>10. StoreKit!TypeOK'
  BY <1>1, <1>5, <1>8 DEF StoreKitIInv, StoreKit!TypeOK, FlowRecords, Contexted, Ends
<1>11. OneTransaction' /\ Settled' /\ SeenOK'
  BY <1>1, <1>9 DEF StoreKitIInv, OneTransaction, Settled, SeenOK
<1>12. Origins'
  <2>1. \A r \in StoreProducts : s4[r] <= s12 /\ s3'[r] \in {0, s4[r]}
    BY <1>8 DEF StoreKitIInv, Origins
  <2>2. \A u \in Transactions : s5[u] = 0 => s5'[u] = 0
    BY <1>8
  <2> QED BY <1>1, <1>9, <2>1, <2>2 DEF StoreKitIInv, Origins
<1>13. OneContext'
  <2>1. ASSUME NEW u \in Existing, NEW c \in Nat, Agree(u, c) PROVE Agree(u, c)'
    <3>1. s5'[u] \in {0, c}
      BY <1>8, <2>1 DEF Agree, Existing
    <3>2. ASSUME NEW q \in Queries, NEW pair \in s8'[q].found, pair[1] = u
          PROVE  pair[2] \in {0, c}
      BY <1>6, <2>1, <3>2 DEF Agree, StoreKit!Flows
    <3> QED BY <1>1, <2>1, <3>1, <3>2 DEF Agree
  <2> QED BY <1>9, <2>1 DEF StoreKitIInv, OneContext
<1>14. Strays'
  BY <1>1, <1>8 DEF StoreKitIInv, Strays
<1>15. Kept'
  <2>1. ASSUME NEW a \in s11, a.attempt \notin s13.gone PROVE s3'[a.product] = a.attempt
    <3>1. a.product \in StoreProducts /\ a.attempt # 0
      BY StoreKitAssumption DEF StoreKitIInv, StoreKit!TypeOK
    <3>2. s3[a.product] = a.attempt
      BY <2>1 DEF StoreKitIInv, Kept
    <3> QED BY <1>8, <3>1, <3>2
  <2>2. ASSUME Selling, s7.attempt \notin s13.gone
        PROVE  s3'[s7.product] = s7.attempt
    <3>1. /\ s7.product \in StoreProducts /\ s7.attempt # 0
          /\ s3[s7.product] = s7.attempt
      BY <2>2 DEF StoreKitIInv, Origins, Kept, Selling
    <3> QED BY <1>8, <3>1
  <2>3. ASSUME NEW u \in Transactions, StoreKit!OwedContext(u)
        PROVE  \/ s2[u] = s10[u].attempt
               \/ s3'[s10[u].product] = s10[u].attempt
               \/ /\ s5'[u] = s10[u].attempt
                  /\ s4[s10[u].product] = s10[u].attempt
    <3> DEFINE a == s10[u].attempt
    <3>1. a # 0
      BY <2>3 DEF StoreKit!OwedContext
    <3>2. s10[u].product \in StoreProducts
      BY <3>1 DEF StoreKitIInv, Origins
    <3>3. \/ s2[u] = a \/ s3[s10[u].product] = a
          \/ s5[u] = a /\ s4[s10[u].product] = a
      BY <2>3 DEF StoreKitIInv, Kept
    <3>4. u = t /\ s5[u] = a => a = claim /\ s10[u].product = p
      BY <1>1 DEF claim, p
    <3> HIDE DEF a
    <3>5. \/ s2[u] = a \/ s3'[s10[u].product] = a
          \/ s5'[u] = a /\ s4[s10[u].product] = a
      BY <1>8, <3>1, <3>2, <3>3, <3>4
    <3> QED BY <3>5 DEF a
  <2>4. s7.at \in {"buying", "stored"} => s4[s7.product] \in {0, s7.attempt}
    BY DEF StoreKitIInv, Kept
  <2>5. \A u \in Transactions : StoreKit!OwedContext(u)' => StoreKit!OwedContext(u)
    BY <1>1 DEF StoreKit!OwedContext
  <2> QED BY <1>1, <1>9, <2>1, <2>2, <2>3, <2>4, <2>5 DEF Kept
<1>16. Relied'
  <2>1. ASSUME NEW g \in StoreKit!Flows PROVE ReliedOn(s8[g])'
    <3>1. \/ s8'[g] = s8[g]
          \/ /\ s8'[g].at \notin {"committing", "rereading"}
             /\ s8'[g].found \subseteq s8[g].found
      BY <1>5, <1>6 DEF Ends
    <3> QED BY <1>1, <3>1, ReliedStays
  <2> QED BY <1>1, <2>1, ReliedOnIs, ReliedOnWillBe DEF StoreKitIInv
<1> QED BY <1>7, <1>10, <1>11, <1>12, <1>13, <1>14, <1>15, <1>16 DEF StoreKitIInv

-----------------------------------------------------------------------------
\* A new transaction: its attempt has no other, and its context is where the
\* purchase left it.  What may be claimed for it is the latest attempt.
LEMMA BirthKeeps ==
  ASSUME StoreKitIInv, NEW t \in Transactions, NEW p \in StoreProducts, NEW a \in Contexted,
         NEW renewal \in BOOLEAN, renewal => a = 0, a <= s12,
         StoreKit!Born(t, p, a, renewal),
         UNCHANGED <<s1, s2, s3, s4, s5, s6, s8, s9, s12,
                     s13>>,
         s11' \subseteq s11,
         \/ s7' = s7
         \/ /\ Selling /\ s7.product = p /\ s7.attempt = a
            /\ s7' = [s7 EXCEPT !.transaction = t],
         a # 0 => /\ \A u \in Transactions : s10[u].attempt # a
                  /\ \A b \in s11' : b.attempt # a
                  /\ Selling' => s7.attempt # a
                  /\ a \notin s13.gone => s3[p] = a
  PROVE  StoreKitIInv'
<1> DEFINE new == [at |-> "unfinished", product |-> p, date |-> s12, attempt |-> a,
                   renewal |-> renewal]
<1>1. s10[t].at = "unborn" /\ s10' = [s10 EXCEPT ![t] = new]
  BY DEF StoreKit!Born
<1>2. /\ new.at = "unfinished" /\ new.product = p /\ new.date = s12 /\ new.attempt = a
      /\ new.renewal = renewal
  OBVIOUS
<1>3. s12 \in Contexted /\ s12 \in Nat
  BY StoreKitAssumption DEF StoreKitIInv, Origins, StoreKit!TypeOK, StoreKit!Scope, Contexted
<1>4. new \in [at: {"unborn", "unfinished", "finished"}, product: StoreProducts \union {NoProduct},
               date: Contexted, attempt: Contexted, renewal: BOOLEAN]
  BY <1>3
<1>5. s10 \in [Transactions -> [at: {"unborn", "unfinished", "finished"},
                                product: StoreProducts \union {NoProduct}, date: Contexted,
                                attempt: Contexted, renewal: BOOLEAN]]
  BY DEF StoreKitIInv, StoreKit!TypeOK, Contexted
<1> HIDE DEF new
<1>6. /\ s10'[t] = new /\ \A u \in Transactions : u # t => s10'[u] = s10[u]
      /\ s10' \in [Transactions -> [at: {"unborn", "unfinished", "finished"},
                                    product: StoreProducts \union {NoProduct}, date: Contexted,
                                    attempt: Contexted, renewal: BOOLEAN]]
  BY <1>1, <1>4, <1>5
<1>7. /\ Existing' = Existing \union {t} /\ StoreKit!Finished' = StoreKit!Finished /\ t \notin Existing
      /\ NoTransaction \notin Transactions
  BY <1>1, <1>2, <1>6, StoreKitAssumption DEF Existing, StoreKit!Finished
<1>8. /\ s2[t] = 0 /\ s5[t] = 0 /\ s10[t].attempt = 0
      /\ s7.transaction # t
  BY <1>7 DEF StoreKitIInv, Origins
<1>9. /\ s7' \in [at: {"idle", "buying", "stored", "succeeded", "failed"},
                  attempt: Contexted, product: StoreProducts \union {NoProduct},
                  transaction: Transactions \union {NoTransaction}]
      /\ s7'.at = s7.at /\ s7'.attempt = s7.attempt
      /\ s7'.product = s7.product
      /\ \/ s7'.transaction = s7.transaction
         \/ /\ s7'.transaction = t /\ Selling /\ s7.product = p
            /\ s7.attempt = a
  <2>1. s7 \in [at: {"idle", "buying", "stored", "succeeded", "failed"},
                attempt: Contexted, product: StoreProducts \union {NoProduct},
                transaction: Transactions \union {NoTransaction}]
    BY DEF StoreKitIInv, StoreKit!TypeOK, Contexted
  <2> QED BY <2>1
<1>10. Selling' => Selling
  BY <1>7, <1>9 DEF Selling
<1>11. StoreKit!TypeOK'
  BY <1>6, <1>9 DEF StoreKitIInv, StoreKit!TypeOK, Contexted
<1>12. SeenOK' /\ Heard'
  BY DEF StoreKitIInv, SeenOK, Heard
<1>13. Origins'
  <2>1. ASSUME NEW u \in Transactions
        PROVE  /\ s10'[u].attempt <= s10'[u].date /\ s10'[u].date <= s12
               /\ u \in Existing' => s10'[u].product \in StoreProducts
               /\ u \notin Existing' => s2[u] = 0 /\ s5[u] = 0
                                        /\ s10'[u].attempt = 0
               /\ s10'[u].renewal => s10'[u].attempt = 0
    <3>1. CASE u = t
      BY <1>2, <1>3, <1>6, <1>7, <3>1
    <3>2. CASE u # t
      BY <1>6, <1>7, <3>2 DEF StoreKitIInv, Origins
    <3> QED BY <3>1, <3>2
  <2>2. /\ s7'.transaction \in Existing' \union {NoTransaction}
        /\ s7'.at \in {"stored", "succeeded"} => s7'.transaction \in Existing'
    BY <1>7, <1>9 DEF StoreKitIInv, Origins, Selling
  <2>3. s7'.at \in {"buying", "stored"} =>
          s7'.attempt # 0 /\ s7'.product \in StoreProducts
    BY <1>9 DEF StoreKitIInv, Origins
  <2>4. s7'.attempt <= s12
    BY <1>9 DEF StoreKitIInv, Origins
  <2> QED BY <2>1, <2>2, <2>3, <2>4 DEF StoreKitIInv, Origins
<1>14. OneTransaction'
  <2>1. \A u \in Transactions : s10'[u].attempt = IF u = t THEN a ELSE s10[u].attempt
    BY <1>2, <1>6
  <2>2. \A u, v \in Transactions :
          s10'[u].attempt = s10'[v].attempt /\ s10'[u].attempt # 0 => u = v
    BY <2>1 DEF StoreKitIInv, OneTransaction
  <2>3. \A u \in Transactions, b \in s11' : s10'[u].attempt # b.attempt
    <3>1. \A b \in s11' : b.attempt # 0
      BY StoreKitAssumption DEF StoreKitIInv, StoreKit!TypeOK
    <3> QED BY <2>1, <3>1 DEF StoreKitIInv, OneTransaction
  <2>4. Selling' => /\ \A u \in Transactions : s10'[u].attempt # s7'.attempt
                    /\ \A b \in s11' : b.attempt # s7'.attempt
    <3>1. Selling' => s7.attempt # 0 /\ s7.attempt # a
      BY <1>10 DEF Selling, StoreKitIInv, Origins
    <3> QED BY <1>9, <1>10, <2>1, <3>1 DEF StoreKitIInv, OneTransaction
  <2>5. \A u \in Transactions : s7'.transaction = u =>
          s10'[u].attempt = s7'.attempt
    BY <1>8, <1>9, <2>1 DEF StoreKitIInv, OneTransaction
  <2>6. \A b, c \in s11' : b.attempt = c.attempt => b = c
    BY DEF StoreKitIInv, OneTransaction
  <2> QED BY <2>2, <2>3, <2>4, <2>5, <2>6 DEF OneTransaction
<1>15. FlowsOK'
  BY <1>7 DEF StoreKitIInv, FlowsOK
<1>16. Owners'
  BY DEF StoreKitIInv, Owners
<1>17. OneContext'
  <2>1. ASSUME NEW u \in Existing, NEW c \in Nat, Agree(u, c) PROVE Agree(u, c)'
    <3>1. u \in Transactions /\ u # t
      BY <1>7 DEF Existing
    <3>2. s10'[u] = s10[u] /\ (s7'.transaction = u => s7.transaction = u)
      BY <1>6, <1>9, <3>1
    <3> QED BY <1>9, <2>1, <3>2 DEF Agree
  <2>2. \E c \in Nat : Agree(t, c)'
    <3>1. s4[p] \in Nat /\ a \in Nat
      BY StoreKitAssumption DEF StoreKitIInv, StoreKit!TypeOK, Contexted
    <3>2. PICK c \in Nat : c = IF s4[p] # 0 THEN s4[p] ELSE a
      BY <3>1
    <3>3. s7'.transaction = t => s7'.attempt \in {0, c}
      BY <3>2, <1>8, <1>9 DEF StoreKitIInv, Kept, Selling
    <3>4. \A q \in Queries : \A pair \in s8[q].found : pair[1] # t
      BY <1>7 DEF StoreKitIInv, FlowsOK, StoreKit!Flows
    <3>5. s4[s10'[t].product] # 0 => s4[s10'[t].product] = c
      BY <1>2, <1>6, <3>2
    <3>6. Agree(t, c)'
      BY <1>8, <3>3, <3>4, <3>5 DEF Agree
    <3> QED BY <3>6
  <2> QED BY <1>7, <2>1, <2>2 DEF StoreKitIInv, OneContext
<1>18. Settled'
  BY <1>7 DEF StoreKitIInv, Settled
<1>19. Strays'
  <2>1. \A u \in Transactions : u # t => s10'[u].attempt = s10[u].attempt
    BY <1>6
  <2> QED BY <1>8, <2>1 DEF StoreKitIInv, Strays
<1>20. \A u \in Transactions : u # t => (StoreKit!OwedContext(u)' <=> StoreKit!OwedContext(u))
  BY <1>6 DEF StoreKit!OwedContext
<1>21. Kept'
  <2>1. ASSUME NEW u \in Transactions, StoreKit!OwedContext(u)'
        PROVE  \/ s2[u] = s10'[u].attempt
               \/ s3[s10'[u].product] = s10'[u].attempt
               \/ /\ s5[u] = s10'[u].attempt
                  /\ s4[s10'[u].product] = s10'[u].attempt
    <3>1. CASE u = t
      BY <1>2, <1>6, <2>1, <3>1 DEF StoreKit!OwedContext
    <3>2. CASE u # t
      <4>1. StoreKit!OwedContext(u) /\ s10'[u] = s10[u]
        BY <1>6, <1>20, <2>1, <3>2
      <4> QED BY <4>1 DEF StoreKitIInv, Kept
    <3> QED BY <3>1, <3>2
  <2>2. /\ \A b \in s11 : b.attempt \notin s13.gone => s3[b.product] = b.attempt
        /\ Selling /\ s7.attempt \notin s13.gone =>
             s3[s7.product] = s7.attempt
        /\ s7.at \in {"buying", "stored"} =>
             s4[s7.product] \in {0, s7.attempt}
    BY DEF StoreKitIInv, Kept
  <2> QED BY <1>9, <1>10, <2>1, <2>2 DEF Kept
<1>22. Relied'
  <2>1. ASSUME NEW f \in StoreKit!Flows PROVE ReliedOn(s8[f])'
    <3>1. ReliedOn(s8[f])
      BY ReliedOnIs DEF StoreKitIInv
    <3>2. /\ s8[f].at = "rereading" => /\ s8[f].transaction \in Transactions
                                       /\ s8[f].transaction # t
          /\ \A pair \in s8[f].found : pair[1] \in Transactions /\ pair[1] # t
      BY <1>7 DEF StoreKitIInv, FlowsOK, Existing
    <3>3. s8[f].at = "rereading" =>
            s10'[s8[f].transaction] = s10[s8[f].transaction]
      BY <1>6, <3>2
    <3> QED BY <1>20, <3>1, <3>2, <3>3 DEF ReliedOn
  <2>2. s7'.at = "stored" => s7'.transaction = s7.transaction
    BY <1>9 DEF Selling
  <2> QED BY <1>9, <2>1, <2>2, ReliedOnIs, ReliedOnWillBe DEF StoreKitIInv
<1> QED BY <1>11, <1>12, <1>13, <1>14, <1>15, <1>16, <1>17, <1>18, <1>19, <1>21, <1>22
        DEF StoreKitIInv

\* Where a new transaction comes from.
LEMMA BirthsKeep ==
  ASSUME StoreKitIInv, NEW t \in Transactions,
         \/ \E p \in StoreProducts : StoreKit!BoughtElsewhere(t, p)
         \/ \E b \in s11 : StoreKit!PurchaseApproved(t, b)
         \/ StoreKit!StoreKitSells(t)
  PROVE  StoreKitIInv'
<1>1. s12 \in Nat /\ 0 \in Contexted
  BY ZeroIsContexted DEF StoreKitIInv, Origins, StoreKit!TypeOK, StoreKit!Scope
<1>2. ASSUME NEW p \in StoreProducts, StoreKit!BoughtElsewhere(t, p) PROVE StoreKitIInv'
  <2>1. PICK renewal \in BOOLEAN : StoreKit!Born(t, p, 0, renewal)
    BY <1>2 DEF StoreKit!BoughtElsewhere
  <2>2. /\ UNCHANGED <<s1, s2, s3, s4, s5, s6, s8, s9, s12,
                       s13>>
        /\ s11' \subseteq s11 /\ s7' = s7
    BY <1>2 DEF StoreKit!BoughtElsewhere, StoreKit!contexts
  <2> QED BY <1>1, <2>1, <2>2, BirthKeeps
<1>3. ASSUME NEW b \in s11, StoreKit!PurchaseApproved(t, b) PROVE StoreKitIInv'
  <2> DEFINE a == b.attempt
             p == b.product
  <2>1. a \in Contexted /\ a # 0 /\ p \in StoreProducts /\ a <= s12
    BY StoreKitAssumption DEF StoreKitIInv, StoreKit!TypeOK, Origins, Contexted
  <2>2. /\ StoreKit!Born(t, p, a, FALSE) /\ s11' = s11 \ {b} /\ s7' = s7
        /\ UNCHANGED <<s1, s2, s3, s4, s5, s6, s8, s9, s12,
                       s13>>
    BY <1>3 DEF StoreKit!PurchaseApproved, StoreKit!contexts
  <2>3. /\ \A u \in Transactions : s10[u].attempt # a
        /\ \A c \in s11' : c.attempt # a
        /\ Selling' => s7.attempt # a
        /\ a \notin s13.gone => s3[p] = a
    BY <2>2 DEF StoreKitIInv, OneTransaction, Kept, Selling
  <2> HIDE DEF a, p
  <2> QED BY <2>1, <2>2, <2>3, BirthKeeps
<1>4. CASE StoreKit!StoreKitSells(t)
  <2> DEFINE a == s7.attempt
             p == s7.product
  <2>1. /\ Selling /\ a \in Contexted /\ a # 0 /\ p \in StoreProducts /\ a <= s12
    BY <1>4 DEF StoreKit!StoreKitSells, StoreKitIInv, StoreKit!TypeOK, Origins, Contexted,
        Selling
  <2>2. /\ StoreKit!Born(t, p, a, FALSE) /\ s11' = s11
        /\ s7' = [s7 EXCEPT !.transaction = t]
        /\ UNCHANGED <<s1, s2, s3, s4, s5, s6, s8, s9, s12,
                       s13>>
    BY <1>4 DEF StoreKit!StoreKitSells, StoreKit!contexts
  <2>3. ~Selling'
    <3>1. s7'.transaction = t
      BY <2>2 DEF StoreKitIInv, StoreKit!TypeOK
    <3> QED BY <3>1, StoreKitAssumption DEF Selling
  <2>4. /\ \A u \in Transactions : s10[u].attempt # a
        /\ \A c \in s11' : c.attempt # a
        /\ a \notin s13.gone => s3[p] = a
    BY <2>1, <2>2 DEF StoreKitIInv, OneTransaction, Kept
  <2> HIDE DEF a, p
  <2>5. s7.product = p /\ s7.attempt = a
    BY DEF a, p
  <2> QED BY <2>1, <2>2, <2>3, <2>4, <2>5, BirthKeeps
<1> QED BY <1>2, <1>3, <1>4

-----------------------------------------------------------------------------
\* The steps of a purchase leave the flows where they are.
LEMMA FlowsStand ==
  ASSUME StoreKitIInv, UNCHANGED <<s5, s8, s10>>,
         s13.gone \subseteq s13'.gone, s13.settled \subseteq s13'.settled,
         \A t \in Transactions : s2[t] # 0 => s2'[t] = s2[t] \/ t \in s13'.settled
  PROVE  /\ FlowsOK' /\ Owners' /\ Existing' = Existing /\ StoreKit!Finished' = StoreKit!Finished
         /\ \A f \in StoreKit!Flows : ReliedOn(s8[f])'
         /\ \A t \in Transactions : StoreKit!OwedContext(t)' => StoreKit!OwedContext(t)
<1>1. Existing' = Existing /\ StoreKit!Finished' = StoreKit!Finished
  BY DEF Existing, StoreKit!Finished
<1>2. FlowsOK' /\ Owners'
  BY <1>1 DEF StoreKitIInv, FlowsOK, Owners
<1>3. \A f \in StoreKit!Flows : ReliedOn(s8[f])'
  BY ReliedStays
<1> QED BY <1>1, <1>2, <1>3, OwedBefore

PurchaseRecords == [at: {"idle", "buying", "stored", "succeeded", "failed"}, attempt: Contexted,
                    product: StoreProducts \union {NoProduct},
                    transaction: Transactions \union {NoTransaction}]

LEMMA PurchaseType ==
  ASSUME StoreKitIInv
  PROVE  /\ s7 \in PurchaseRecords /\ s6 \in Gates /\ s12 \in Contexted
         /\ s12 \in Nat
         /\ s3 \in [StoreProducts -> Contexted] /\ s4 \in [StoreProducts -> Contexted]
         /\ \A n \in Contexted : n \in Nat
         /\ \A t \in Transactions : t # NoTransaction
BY StoreKitAssumption
   DEF StoreKitIInv, StoreKit!TypeOK, Origins, StoreKit!Scope, PurchaseRecords, Gates, Contexted

LEMMA NoPurchaseType ==
  /\ StoreKit!NoPurchase \in PurchaseRecords
  /\ [StoreKit!NoPurchase EXCEPT !.at = "failed"] \in PurchaseRecords
BY ZeroIsContexted DEF StoreKit!NoPurchase, PurchaseRecords

LEMMA EnteredGate ==
  ASSUME StoreKitIInv, StoreKit!EnterGate
  PROVE  s6' \in Gates /\ s6'.inFlight /\ s6'.deferred = s6.deferred
BY PurchaseType DEF StoreKit!EnterGate, Gates

LEMMA MissingKeeps ==
  ASSUME StoreKitIInv, StoreKit!ProductMissing
  PROVE  StoreKitIInv'
<1>1. /\ UNCHANGED <<s1, s2, s3, s4, s5, s8, s9, s10, s11,
                     s12, s13>>
      /\ s6' \in Gates /\ s6'.inFlight /\ s6'.deferred = s6.deferred
  BY EnteredGate DEF StoreKit!ProductMissing, StoreKit!contexts
<1>2. /\ s7' \in PurchaseRecords /\ s7'.at = "failed" /\ s7'.attempt = 0
      /\ s7'.transaction = NoTransaction
  <2>1. s7' = [StoreKit!NoPurchase EXCEPT !.at = "failed"]
    BY DEF StoreKit!ProductMissing
  <2> QED BY <2>1, NoPurchaseType DEF StoreKit!NoPurchase
<1>3. /\ FlowsOK' /\ Owners' /\ Existing' = Existing /\ StoreKit!Finished' = StoreKit!Finished
      /\ \A f \in StoreKit!Flows : ReliedOn(s8[f])'
      /\ \A t \in Transactions : StoreKit!OwedContext(t)' => StoreKit!OwedContext(t)
  BY <1>1, FlowsStand
<1>4. StoreKit!TypeOK' /\ SeenOK'
  BY <1>1, <1>2 DEF StoreKitIInv, StoreKit!TypeOK, SeenOK, PurchaseRecords, Gates, Contexted
<1>5. Origins' /\ OneTransaction'
  <2>1. s12 \in Nat /\ \A t \in Transactions : t # NoTransaction
    BY PurchaseType
  <2> QED BY <1>1, <1>2, <1>3, <2>1 DEF StoreKitIInv, Origins, OneTransaction, Selling
<1>6. Heard'
  BY <1>1 DEF StoreKitIInv, Heard
<1>7. OneContext'
  <2>1. ASSUME NEW t \in Existing, NEW c \in Nat, Agree(t, c) PROVE Agree(t, c)'
    BY <1>1, <1>2, <2>1 DEF Agree
  <2> QED BY <1>3, <2>1 DEF StoreKitIInv, OneContext
<1>8. Settled' /\ Strays'
  BY <1>1, <1>3 DEF StoreKitIInv, Settled, Strays
<1>9. Kept'
  BY <1>1, <1>2, <1>3 DEF StoreKitIInv, Kept, Selling
<1>10. Relied'
  BY <1>2, <1>3, ReliedOnWillBe
<1> QED BY <1>3, <1>4, <1>5, <1>6, <1>7, <1>8, <1>9, <1>10 DEF StoreKitIInv

\* A new attempt has a number of its own, and it comes after every transaction.
LEMMA BeginKeeps ==
  ASSUME StoreKitIInv, NEW p \in StoreProducts, StoreKit!BeginPurchase(p)
  PROVE  StoreKitIInv'
<1> DEFINE n == s12 + 1
           new == [StoreKit!NoPurchase EXCEPT !.at = "buying", !.product = p, !.attempt = n]
<1>1. /\ UNCHANGED <<s1, s2, s5, s8, s9, s10, s11>>
      /\ s6' \in Gates /\ s6'.inFlight /\ s6'.deferred = s6.deferred
      /\ s12 < s1.attempts /\ s12' = n
      /\ s3' = [s3 EXCEPT ![p] = n] /\ s4' = [s4 EXCEPT ![p] = n]
      /\ s7' = new /\ s13' = StoreKit!Gone({s4[p]})
  BY EnteredGate DEF StoreKit!BeginPurchase
<1>2. /\ s12 \in Nat /\ n \in Contexted /\ n \in Nat /\ n # 0 /\ s12 < n
      /\ n <= s1.attempts
  <2>1. s1.attempts \in 0..MaxAttempts /\ s12 \in 0..s1.attempts
    BY DEF StoreKitIInv, Origins, StoreKit!TypeOK, StoreKit!Scope
  <2>2. s1.attempts \in Nat /\ s1.attempts <= MaxAttempts /\ s12 \in Nat
    BY <2>1
  <2>3. n \in Nat /\ n <= s1.attempts /\ n # 0 /\ s12 < n
    BY <1>1, <2>2
  <2>4. n \in 0..MaxAttempts
    BY <2>2, <2>3, StoreKitAssumption
  <2> QED BY <2>2, <2>3, <2>4 DEF Contexted
<1> HIDE DEF n
<1>3. /\ s7' \in PurchaseRecords /\ s7'.at = "buying" /\ s7'.attempt = n
      /\ s7'.product = p /\ s7'.transaction = NoTransaction
  BY <1>1, <1>2, NoPurchaseType DEF StoreKit!NoPurchase, PurchaseRecords
<1> HIDE DEF new
<1>4. /\ s3' \in [StoreProducts -> Contexted] /\ s4' \in [StoreProducts -> Contexted]
      /\ s3'[p] = n /\ s4'[p] = n
      /\ \A r \in StoreProducts : r # p => s3'[r] = s3[r] /\ s4'[r] = s4[r]
  BY <1>1, <1>2, PurchaseType
<1>5. /\ SeenOK' /\ s13'.gone = s13.gone \union ({s4[p]} \ {0})
      /\ s13'.settled = s13.settled /\ s13'.late = s13.late
      /\ s13'.unheard = s13.unheard
  <2>1. {s4[p]} \in SUBSET Nat
    BY PurchaseType
  <2> QED BY <1>1, <2>1, GoneType
<1>6. /\ FlowsOK' /\ Owners' /\ Existing' = Existing /\ StoreKit!Finished' = StoreKit!Finished
      /\ \A f \in StoreKit!Flows : ReliedOn(s8[f])'
      /\ \A t \in Transactions : StoreKit!OwedContext(t)' => StoreKit!OwedContext(t)
  BY <1>1, <1>5, FlowsStand
<1>7. StoreKit!TypeOK'
  BY <1>1, <1>2, <1>3, <1>4 DEF StoreKitIInv, StoreKit!TypeOK, PurchaseRecords, Gates, Contexted
<1>8. /\ \A t \in Transactions : s10[t].attempt < n /\ s10[t].date < n
      /\ \A a \in s11 : a.attempt < n
  <2>1. /\ \A t \in Transactions : s10[t].attempt \in Nat /\ s10[t].date \in Nat
        /\ \A a \in s11 : a.attempt \in Nat
    BY StoreKitAssumption DEF StoreKitIInv, StoreKit!TypeOK
  <2>2. /\ \A t \in Transactions : s10[t].attempt <= s10[t].date
                                   /\ s10[t].date <= s12
        /\ \A a \in s11 : a.attempt <= s12
    BY DEF StoreKitIInv, Origins
  <2> QED BY <1>2, <2>1, <2>2
<1>9. Origins'
  <2>1. \A r \in StoreProducts : s4'[r] <= n /\ s3'[r] \in {0, s4'[r]}
    <3>1. \A r \in StoreProducts : s4[r] \in Nat /\ s4[r] <= s12
                                   /\ s3[r] \in {0, s4[r]}
      BY PurchaseType DEF StoreKitIInv, Origins
    <3> QED BY <1>2, <1>4, <3>1
  <2>2. \A t \in Transactions : s10[t].date <= n
    <3>1. \A t \in Transactions : s10[t].date \in Nat
      BY StoreKitAssumption DEF StoreKitIInv, StoreKit!TypeOK
    <3> QED BY <1>2, <1>8, <3>1
  <2>3. \A a \in s11 : a.attempt <= n
    <3>1. \A a \in s11 : a.attempt \in Nat
      BY StoreKitAssumption DEF StoreKitIInv, StoreKit!TypeOK
    <3> QED BY <1>2, <1>8, <3>1
  <2>4. n \in 0..s1.attempts /\ n <= n
    BY <1>2 DEF StoreKitIInv, StoreKit!TypeOK, StoreKit!Scope
  <2>5. \A t \in Transactions :
          /\ s10[t].attempt <= s10[t].date
          /\ t \in Existing => s10[t].product \in StoreProducts
          /\ t \notin Existing => s2[t] = 0 /\ s5[t] = 0 /\ s10[t].attempt = 0
          /\ s10[t].renewal => s10[t].attempt = 0
    BY DEF StoreKitIInv, Origins
  <2> QED BY <1>1, <1>2, <1>3, <1>6, <2>1, <2>2, <2>3, <2>4, <2>5 DEF Origins
<1>10. OneTransaction'
  <2>1. \A t \in Transactions : s10[t].attempt # n
    <3>1. \A t \in Transactions : s10[t].attempt \in Nat
      BY StoreKitAssumption DEF StoreKitIInv, StoreKit!TypeOK
    <3> QED BY <1>2, <1>8, <3>1
  <2>2. \A a \in s11 : a.attempt # n
    <3>1. \A a \in s11 : a.attempt \in Nat
      BY StoreKitAssumption DEF StoreKitIInv, StoreKit!TypeOK
    <3> QED BY <1>2, <1>8, <3>1
  <2>3. \A t \in Transactions : t # NoTransaction
    BY PurchaseType
  <2> QED BY <1>1, <1>3, <2>1, <2>2, <2>3 DEF StoreKitIInv, OneTransaction
<1>11. Heard'
  BY <1>1, <1>5 DEF StoreKitIInv, Heard
<1>12. OneContext'
  <2>1. ASSUME NEW t \in Existing, NEW c \in Nat, Agree(t, c) PROVE Agree(t, c)'
    <3>1. t \in Transactions /\ s10[t].product \in StoreProducts /\ s7'.transaction # t
      BY <1>3, PurchaseType DEF Existing, StoreKitIInv, Origins
    <3>2. ~(n <= s10[t].date)
      <4>1. s10[t].date \in Nat
        BY <3>1, StoreKitAssumption DEF StoreKitIInv, StoreKit!TypeOK
      <4> QED BY <1>2, <1>8, <3>1, <4>1
    <3>3. LET last == s4'[s10[t].product]
          IN  last # 0 /\ last <= s10[t].date => last = c
      BY <1>4, <2>1, <3>1, <3>2 DEF Agree
    <3> QED BY <1>1, <2>1, <3>1, <3>3 DEF Agree
  <2> QED BY <1>6, <2>1 DEF StoreKitIInv, OneContext
<1>13. Settled' /\ Strays'
  BY <1>1, <1>5, <1>6 DEF StoreKitIInv, Settled, Strays
<1>14. \A a : a # 0 /\ a \notin s13'.gone => s4[p] # a /\ s3[p] # a
  BY <1>5 DEF StoreKitIInv, Origins
<1>15. Kept'
  <2>1. ASSUME NEW a \in s11, a.attempt \notin s13'.gone
        PROVE  s3'[a.product] = a.attempt
    <3>1. a.attempt # 0 /\ a.product \in StoreProducts
      BY StoreKitAssumption DEF StoreKitIInv, StoreKit!TypeOK
    <3>2. s3[a.product] = a.attempt
      BY <1>5, <2>1 DEF StoreKitIInv, Kept
    <3> QED BY <1>4, <1>14, <2>1, <3>1, <3>2
  <2>2. ASSUME NEW t \in Transactions, StoreKit!OwedContext(t)'
        PROVE  \/ s2[t] = s10[t].attempt
               \/ s3'[s10[t].product] = s10[t].attempt
               \/ /\ s5[t] = s10[t].attempt
                  /\ s4'[s10[t].product] = s10[t].attempt
    <3>1. /\ StoreKit!OwedContext(t) /\ s10[t].attempt # 0 /\ s10[t].attempt \notin s13'.gone
      BY <1>1, <1>6, <2>2 DEF StoreKit!OwedContext
    <3>2. s10[t].product \in StoreProducts
      BY <3>1 DEF StoreKitIInv, Origins
    <3>3. \/ s2[t] = s10[t].attempt
          \/ s3[s10[t].product] = s10[t].attempt
          \/ /\ s5[t] = s10[t].attempt
             /\ s4[s10[t].product] = s10[t].attempt
      BY <3>1 DEF StoreKitIInv, Kept
    <3> QED BY <1>4, <1>14, <3>1, <3>2, <3>3
  <2>3. /\ s3'[s7'.product] = s7'.attempt
        /\ s4'[s7'.product] \in {0, s7'.attempt}
    BY <1>3, <1>4
  <2>4. /\ s11' = s11 /\ s2' = s2 /\ s10' = s10
        /\ s5' = s5
    BY <1>1
  <2> QED BY <2>1, <2>2, <2>3, <2>4 DEF Kept
<1>16. Relied'
  BY <1>3, <1>6, ReliedOnWillBe
<1> QED BY <1>5, <1>6, <1>7, <1>9, <1>10, <1>11, <1>12, <1>13, <1>15, <1>16 DEF StoreKitIInv

LEMMA PendingKeeps ==
  ASSUME StoreKitIInv, StoreKit!PurchasePending
  PROVE  StoreKitIInv'
<1> DEFINE ask == [product |-> s7.product, attempt |-> s7.attempt]
<1>1. /\ UNCHANGED <<s1, s2, s3, s4, s5, s6, s8, s9, s10,
                     s12, s13>>
      /\ Selling /\ s7' = [s7 EXCEPT !.at = "failed"]
      /\ s11' = s11 \union {ask}
  BY DEF StoreKit!PurchasePending, StoreKit!contexts, Selling
<1>2. /\ s7' \in PurchaseRecords /\ s7'.at = "failed"
      /\ s7'.attempt = s7.attempt /\ s7'.transaction = s7.transaction
      /\ s7.transaction = NoTransaction
  <2>1. s7 \in PurchaseRecords
    BY PurchaseType
  <2> QED BY <1>1, <2>1 DEF PurchaseRecords, Selling
<1>3. /\ FlowsOK' /\ Owners' /\ Existing' = Existing /\ StoreKit!Finished' = StoreKit!Finished
      /\ \A f \in StoreKit!Flows : ReliedOn(s8[f])'
      /\ \A t \in Transactions : StoreKit!OwedContext(t)' => StoreKit!OwedContext(t)
  BY <1>1, FlowsStand
<1>4. /\ ask.attempt = s7.attempt /\ ask.product = s7.product
      /\ ask \in [product: StoreProducts, attempt: 1..MaxAttempts]
  <2>1. /\ s7.attempt # 0 /\ s7.product \in StoreProducts
        /\ s7.attempt \in Contexted
    BY <1>1, PurchaseType DEF StoreKitIInv, Origins, Selling, PurchaseRecords
  <2>2. s7.attempt \in 1..MaxAttempts
    BY <2>1, StoreKitAssumption DEF Contexted
  <2> QED BY <2>1, <2>2
<1> HIDE DEF ask
<1>5. StoreKit!TypeOK' /\ SeenOK'
  BY <1>1, <1>2, <1>4 DEF StoreKitIInv, StoreKit!TypeOK, SeenOK, PurchaseRecords, Contexted
<1>6. Origins'
  BY <1>1, <1>2, <1>3, <1>4 DEF StoreKitIInv, Origins
<1>7. OneTransaction'
  <2>1. \A a, b \in s11' : a.attempt = b.attempt => a = b
    BY <1>1, <1>4 DEF StoreKitIInv, OneTransaction
  <2>2. \A t \in Transactions, a \in s11' : s10[t].attempt # a.attempt
    BY <1>1, <1>4 DEF StoreKitIInv, OneTransaction
  <2>3. \A t \in Transactions : t # NoTransaction
    BY PurchaseType
  <2> QED BY <1>1, <1>2, <2>1, <2>2, <2>3 DEF StoreKitIInv, OneTransaction, Selling
<1>8. Heard'
  BY <1>1 DEF StoreKitIInv, Heard
<1>9. OneContext'
  <2>1. ASSUME NEW t \in Existing, NEW c \in Nat, Agree(t, c) PROVE Agree(t, c)'
    BY <1>1, <1>2, <2>1 DEF Agree
  <2> QED BY <1>3, <2>1 DEF StoreKitIInv, OneContext
<1>10. Settled' /\ Strays'
  BY <1>1, <1>3 DEF StoreKitIInv, Settled, Strays
<1>11. Kept'
  <2>1. \A a \in s11' : a.attempt \notin s13.gone => s3[a.product] = a.attempt
    BY <1>1, <1>4 DEF StoreKitIInv, Kept
  <2>2. \A t \in Transactions : StoreKit!OwedContext(t)' =>
          \/ s2[t] = s10[t].attempt
          \/ s3[s10[t].product] = s10[t].attempt
          \/ /\ s5[t] = s10[t].attempt
             /\ s4[s10[t].product] = s10[t].attempt
    BY <1>3 DEF StoreKitIInv, Kept
  <2> QED BY <1>1, <1>2, <2>1, <2>2 DEF Kept, Selling
<1>12. Relied'
  BY <1>2, <1>3, ReliedOnWillBe
<1> QED BY <1>3, <1>5, <1>6, <1>7, <1>8, <1>9, <1>10, <1>11, <1>12 DEF StoreKitIInv

\* Forgetting the context of a purchase loses nothing but the context of its attempt.
LEMMA ForgetLoses ==
  ASSUME StoreKitIInv, s7.at \in {"buying", "stored"}, StoreKit!Forget(s7.product)
  PROVE  /\ s3' \in [StoreProducts -> Contexted] /\ s4' \in [StoreProducts -> Contexted]
         /\ s5' = s5
         /\ \A p \in StoreProducts : /\ s3'[p] = s3[p] \/ s3'[p] = 0
                                     /\ s4'[p] = s4[p] \/ s4'[p] = 0
                                     /\ s3'[p] \in {0, s4'[p]}
         /\ \A a : \A p \in StoreProducts : a # 0 /\ a # s7.attempt =>
              (s3[p] = a => s3'[p] = a) /\ (s4[p] = a => s4'[p] = a)
<1> DEFINE p == s7.product
<1>1. /\ s3' = [s3 EXCEPT ![p] = 0] /\ s4' = [s4 EXCEPT ![p] = 0]
      /\ s5' = s5
  BY DEF StoreKit!Forget
<1>2. /\ p \in StoreProducts /\ s4[p] \in {0, s7.attempt}
      /\ \A r \in StoreProducts : s3[r] \in {0, s4[r]}
  BY DEF StoreKitIInv, Origins, Kept
<1> HIDE DEF p
<1> QED BY <1>1, <1>2, PurchaseType, ZeroIsContexted

LEMMA PurchaseFailsKeeps ==
  ASSUME StoreKitIInv, StoreKit!PurchaseFails
  PROVE  StoreKitIInv'
<1>1. /\ UNCHANGED <<s1, s2, s5, s6, s8, s9, s10, s11, s12>>
      /\ Selling /\ s7' = [s7 EXCEPT !.at = "failed"]
      /\ s13' = StoreKit!Gone({s7.attempt}) /\ StoreKit!Forget(s7.product)
  BY DEF StoreKit!PurchaseFails, Selling, StoreKit!Forget
<1>2. /\ s7' \in PurchaseRecords /\ s7'.at = "failed"
      /\ s7'.attempt = s7.attempt /\ s7'.transaction = s7.transaction
  <2>1. s7 \in PurchaseRecords
    BY PurchaseType
  <2> QED BY <1>1, <2>1 DEF PurchaseRecords
<1>3. /\ s3' \in [StoreProducts -> Contexted] /\ s4' \in [StoreProducts -> Contexted]
      /\ \A p \in StoreProducts : /\ s3'[p] = s3[p] \/ s3'[p] = 0
                                  /\ s4'[p] = s4[p] \/ s4'[p] = 0
                                  /\ s3'[p] \in {0, s4'[p]}
      /\ \A a : \A p \in StoreProducts : a # 0 /\ a # s7.attempt =>
           (s3[p] = a => s3'[p] = a) /\ (s4[p] = a => s4'[p] = a)
  BY <1>1, ForgetLoses DEF Selling
<1>4. /\ SeenOK' /\ s13'.gone = s13.gone \union {s7.attempt}
      /\ s13'.settled = s13.settled /\ s13'.late = s13.late
      /\ s13'.unheard = s13.unheard
  <2>1. s7.attempt # 0 /\ {s7.attempt} \in SUBSET Nat
    BY <1>1, PurchaseType DEF StoreKitIInv, Origins, Selling, PurchaseRecords
  <2> QED BY <1>1, <2>1, GoneType
<1>5. /\ FlowsOK' /\ Owners' /\ Existing' = Existing /\ StoreKit!Finished' = StoreKit!Finished
      /\ \A f \in StoreKit!Flows : ReliedOn(s8[f])'
      /\ \A t \in Transactions : StoreKit!OwedContext(t)' => StoreKit!OwedContext(t)
  BY <1>1, <1>4, FlowsStand
<1>6. StoreKit!TypeOK'
  BY <1>1, <1>2, <1>3 DEF StoreKitIInv, StoreKit!TypeOK, PurchaseRecords, Contexted
<1>7. Origins'
  <2>1. \A p \in StoreProducts : s4'[p] <= s12 /\ s3'[p] \in {0, s4'[p]}
    BY <1>3, PurchaseType DEF StoreKitIInv, Origins
  <2> QED BY <1>1, <1>2, <1>5, <2>1 DEF StoreKitIInv, Origins
<1>8. OneTransaction'
  BY <1>1, <1>2 DEF StoreKitIInv, OneTransaction, Selling
<1>9. Heard'
  BY <1>1, <1>4 DEF StoreKitIInv, Heard
<1>10. OneContext'
  <2>1. ASSUME NEW t \in Existing, NEW c \in Nat, Agree(t, c) PROVE Agree(t, c)'
    <3>1. s10[t].product \in StoreProducts
      BY DEF StoreKitIInv, Origins, Existing
    <3> QED BY <1>1, <1>2, <1>3, <2>1, <3>1 DEF Agree
  <2> QED BY <1>5, <2>1 DEF StoreKitIInv, OneContext
<1>11. Settled' /\ Strays'
  BY <1>1, <1>4, <1>5 DEF StoreKitIInv, Settled, Strays
<1>12. Kept'
  <2>1. ASSUME NEW a \in s11, a.attempt \notin s13'.gone
        PROVE  s3'[a.product] = a.attempt
    <3>1. a.attempt # 0 /\ a.product \in StoreProducts
      BY StoreKitAssumption DEF StoreKitIInv, StoreKit!TypeOK
    <3>2. s3[a.product] = a.attempt /\ a.attempt # s7.attempt
      BY <1>4, <2>1 DEF StoreKitIInv, Kept
    <3> QED BY <1>3, <3>1, <3>2
  <2>2. ASSUME NEW t \in Transactions, StoreKit!OwedContext(t)'
        PROVE  \/ s2[t] = s10[t].attempt
               \/ s3'[s10[t].product] = s10[t].attempt
               \/ /\ s5[t] = s10[t].attempt
                  /\ s4'[s10[t].product] = s10[t].attempt
    <3>1. /\ StoreKit!OwedContext(t) /\ s10[t].attempt # 0 /\ s10[t].attempt \notin s13'.gone
      BY <1>1, <1>5, <2>2 DEF StoreKit!OwedContext
    <3>2. s10[t].product \in StoreProducts /\ s10[t].attempt # s7.attempt
      BY <1>4, <3>1 DEF StoreKitIInv, Origins
    <3>3. \/ s2[t] = s10[t].attempt
          \/ s3[s10[t].product] = s10[t].attempt
          \/ /\ s5[t] = s10[t].attempt
             /\ s4[s10[t].product] = s10[t].attempt
      BY <3>1 DEF StoreKitIInv, Kept
    <3> QED BY <1>3, <3>1, <3>2, <3>3
  <2>3. /\ s11' = s11 /\ s2' = s2 /\ s10' = s10
        /\ s5' = s5
    BY <1>1
  <2> QED BY <1>2, <2>1, <2>2, <2>3 DEF Kept, Selling
<1>13. Relied'
  BY <1>2, <1>5, ReliedOnWillBe
<1> QED BY <1>4, <1>5, <1>6, <1>7, <1>8, <1>9, <1>10, <1>11, <1>12, <1>13 DEF StoreKitIInv

LEMMA StoreKeeps ==
  ASSUME StoreKitIInv, StoreKit!StoreMetadata
  PROVE  StoreKitIInv'
<1> DEFINE t == s7.transaction
           n == s7.attempt
<1>1. /\ UNCHANGED <<s1, s3, s4, s5, s6, s8, s9, s10, s11,
                     s12>>
      /\ s7.at = "buying" /\ t # NoTransaction
  BY DEF StoreKit!StoreMetadata, StoreKit!contexts
<1>2. /\ s7 \in PurchaseRecords /\ t \in Existing /\ t \in Transactions
      /\ n \in Contexted /\ n # 0 /\ s10[t].attempt = n
  BY <1>1, PurchaseType DEF StoreKitIInv, Origins, OneTransaction, Existing, PurchaseRecords
<1>3. PICK at \in {"stored", "failed"} :
        /\ s7' = [s7 EXCEPT !.at = at] /\ Journals(t, n)
        /\ at = "stored" => s2'[t] = n
  <2>1. CASE StoreKit!Stored(t, n) /\ s7' = [s7 EXCEPT !.at = "stored"]
    BY <1>2, <2>1, StoredJournals
  <2>2. CASE StoreKit!StoreFails /\ s7' = [s7 EXCEPT !.at = "failed"]
    BY <2>2, FailingJournals
  <2> QED BY <2>1, <2>2 DEF StoreKit!StoreMetadata
<1>4. /\ s7' \in PurchaseRecords /\ s7'.at = at
      /\ s7'.attempt = n /\ s7'.transaction = t
      /\ s7'.product = s7.product
  BY <1>2, <1>3 DEF PurchaseRecords
<1> HIDE DEF t, n
<1>5. /\ FlowsOK' /\ Owners' /\ Existing' = Existing /\ StoreKit!Finished' = StoreKit!Finished
      /\ \A f \in StoreKit!Flows : ReliedOn(s8[f])'
      /\ \A u \in Transactions : StoreKit!OwedContext(u)' => StoreKit!OwedContext(u)
  BY <1>1, <1>3, FlowsStand DEF Journals
<1>6. StoreKit!TypeOK' /\ SeenOK'
  BY <1>1, <1>3, <1>4 DEF StoreKitIInv, StoreKit!TypeOK, PurchaseRecords, Contexted, Journals
<1>7. Origins'
  <2>1. \A u \in Transactions : u \notin Existing => s2'[u] = 0
    BY <1>2, <1>3 DEF Journals, StoreKitIInv, Origins
  <2>2. s7.attempt <= s12 /\ s7.product \in StoreProducts
    BY <1>1 DEF StoreKitIInv, Origins
  <2> QED BY <1>1, <1>2, <1>4, <1>5, <2>1, <2>2 DEF StoreKitIInv, Origins, n
<1>8. OneTransaction'
  BY <1>1, <1>2, <1>4 DEF StoreKitIInv, OneTransaction, Selling, t, n
<1>9. Heard'
  BY <1>1, <1>3 DEF StoreKitIInv, Heard, Journals
<1>10. OneContext'
  <2>1. ASSUME NEW u \in Existing, NEW c \in Nat, Agree(u, c) PROVE Agree(u, c)'
    <3>1. s2'[u] \in {0, c}
      BY <1>2, <1>3, <2>1 DEF Journals, Agree, Existing, t, n
    <3> QED BY <1>1, <1>4, <2>1, <3>1 DEF Agree, t, n
  <2> QED BY <1>5, <2>1 DEF StoreKitIInv, OneContext
<1>11. Settled'
  BY <1>1, <1>3, <1>5 DEF StoreKitIInv, Settled, Journals
<1>12. Strays'
  BY <1>1, <1>2, <1>3 DEF StoreKitIInv, Strays, Journals
<1>13. Kept'
  <2>1. \A u \in Transactions : StoreKit!OwedContext(u)' =>
          \/ s2'[u] = s10[u].attempt
          \/ s3[s10[u].product] = s10[u].attempt
          \/ /\ s5[u] = s10[u].attempt
             /\ s4[s10[u].product] = s10[u].attempt
    <3>1. \A u \in Transactions : StoreKit!OwedContext(u)' => StoreKit!OwedContext(u) /\ s10[u].attempt # 0
      BY <1>5 DEF StoreKit!OwedContext
    <3> QED BY <1>3, <3>1 DEF StoreKitIInv, Kept, Journals
  <2>2. /\ s13'.gone = s13.gone /\ s4[s7.product] \in {0, s7.attempt}
        /\ \A a \in s11 : a.attempt \notin s13.gone => s3[a.product] = a.attempt
    BY <1>1, <1>3 DEF StoreKitIInv, Kept, Journals
  <2> QED BY <1>1, <1>4, <2>1, <2>2 DEF Kept, Selling, n
<1>14. Relied'
  BY <1>3, <1>4, <1>5, ReliedOnWillBe
<1> QED BY <1>5, <1>6, <1>7, <1>8, <1>9, <1>10, <1>11, <1>12, <1>13, <1>14 DEF StoreKitIInv

\* The journal has the context by now, unless its entry was removed already.
LEMMA ForgetKeeps ==
  ASSUME StoreKitIInv, StoreKit!ForgetContext
  PROVE  StoreKitIInv'
<1>1. /\ UNCHANGED <<s1, s2, s5, s6, s8, s9, s10, s11, s12,
                     s13>>
      /\ s7.at = "stored" /\ s7' = [s7 EXCEPT !.at = "succeeded"]
      /\ StoreKit!Forget(s7.product)
  BY DEF StoreKit!ForgetContext, StoreKit!Forget
<1>2. /\ s7' \in PurchaseRecords /\ s7'.at = "succeeded"
      /\ s7'.attempt = s7.attempt /\ s7'.transaction = s7.transaction
  <2>1. s7 \in PurchaseRecords
    BY PurchaseType
  <2> QED BY <1>1, <2>1 DEF PurchaseRecords
<1>3. /\ s3' \in [StoreProducts -> Contexted] /\ s4' \in [StoreProducts -> Contexted]
      /\ \A p \in StoreProducts : /\ s3'[p] = s3[p] \/ s3'[p] = 0
                                  /\ s4'[p] = s4[p] \/ s4'[p] = 0
                                  /\ s3'[p] \in {0, s4'[p]}
      /\ \A a : \A p \in StoreProducts : a # 0 /\ a # s7.attempt =>
           (s3[p] = a => s3'[p] = a) /\ (s4[p] = a => s4'[p] = a)
  BY <1>1, ForgetLoses
<1>4. /\ FlowsOK' /\ Owners' /\ Existing' = Existing /\ StoreKit!Finished' = StoreKit!Finished
      /\ \A f \in StoreKit!Flows : ReliedOn(s8[f])'
      /\ \A t \in Transactions : StoreKit!OwedContext(t)' => StoreKit!OwedContext(t)
  BY <1>1, FlowsStand
<1>5. StoreKit!TypeOK' /\ SeenOK'
  BY <1>1, <1>2, <1>3 DEF StoreKitIInv, StoreKit!TypeOK, SeenOK, PurchaseRecords, Contexted
<1>6. Origins'
  <2>1. \A p \in StoreProducts : s4'[p] <= s12 /\ s3'[p] \in {0, s4'[p]}
    BY <1>3, PurchaseType DEF StoreKitIInv, Origins
  <2> QED BY <1>1, <1>2, <1>4, <2>1 DEF StoreKitIInv, Origins
<1>7. OneTransaction'
  BY <1>1, <1>2 DEF StoreKitIInv, OneTransaction, Selling
<1>8. Heard'
  BY <1>1 DEF StoreKitIInv, Heard
<1>9. OneContext'
  <2>1. ASSUME NEW t \in Existing, NEW c \in Nat, Agree(t, c) PROVE Agree(t, c)'
    <3>1. s10[t].product \in StoreProducts
      BY DEF StoreKitIInv, Origins, Existing
    <3> QED BY <1>1, <1>2, <1>3, <2>1, <3>1 DEF Agree
  <2> QED BY <1>4, <2>1 DEF StoreKitIInv, OneContext
<1>10. Settled' /\ Strays'
  BY <1>1, <1>4 DEF StoreKitIInv, Settled, Strays
<1>11. /\ s7.transaction \in Transactions /\ s7.attempt # 0
       /\ s10[s7.transaction].attempt = s7.attempt
       /\ \/ s2[s7.transaction] = s7.attempt
          \/ s7.transaction \in s13.settled
  BY <1>1 DEF StoreKitIInv, Origins, OneTransaction, Relied, Existing
<1>12. Kept'
  <2>1. ASSUME NEW a \in s11, a.attempt \notin s13.gone PROVE s3'[a.product] = a.attempt
    <3>1. a.attempt # 0 /\ a.product \in StoreProducts
      BY StoreKitAssumption DEF StoreKitIInv, StoreKit!TypeOK
    <3>2. s3[a.product] = a.attempt /\ a.attempt # s7.attempt
      BY <1>11, <2>1 DEF StoreKitIInv, Kept, OneTransaction
    <3> QED BY <1>3, <3>1, <3>2
  <2>2. ASSUME NEW t \in Transactions, StoreKit!OwedContext(t)'
        PROVE  \/ s2[t] = s10[t].attempt
               \/ s3'[s10[t].product] = s10[t].attempt
               \/ /\ s5[t] = s10[t].attempt
                  /\ s4'[s10[t].product] = s10[t].attempt
    <3>1. StoreKit!OwedContext(t) /\ s10[t].attempt # 0
      BY <1>4, <2>2 DEF StoreKit!OwedContext
    <3>2. CASE s10[t].attempt = s7.attempt
      <4>1. t = s7.transaction
        BY <1>11, <3>1, <3>2 DEF StoreKitIInv, OneTransaction
      <4> QED BY <1>11, <3>1, <3>2, <4>1 DEF StoreKit!OwedContext
    <3>3. CASE s10[t].attempt # s7.attempt
      <4>1. s10[t].product \in StoreProducts
        BY <3>1 DEF StoreKitIInv, Origins
      <4>2. \/ s2[t] = s10[t].attempt
            \/ s3[s10[t].product] = s10[t].attempt
            \/ /\ s5[t] = s10[t].attempt
               /\ s4[s10[t].product] = s10[t].attempt
        BY <3>1 DEF StoreKitIInv, Kept
      <4> QED BY <1>3, <3>1, <3>3, <4>1, <4>2
    <3> QED BY <3>2, <3>3
  <2>3. /\ s11' = s11 /\ s2' = s2 /\ s10' = s10
        /\ s5' = s5 /\ s13' = s13
    BY <1>1
  <2> QED BY <1>2, <2>1, <2>2, <2>3 DEF Kept, Selling
<1>13. Relied'
  BY <1>2, <1>4, ReliedOnWillBe
<1> QED BY <1>4, <1>5, <1>6, <1>7, <1>8, <1>9, <1>10, <1>12, <1>13 DEF StoreKitIInv

LEMMA EndKeeps ==
  ASSUME StoreKitIInv, StoreKit!EndPurchase
  PROVE  StoreKitIInv'
<1> DEFINE explicit == IF s7.at = "succeeded" THEN {s7.transaction} ELSE {}
           others == s6.deferred \ explicit
           awaited == explicit \ s6.deferred
           suppressed == IF awaited = {} THEN s6.suppressed
                         ELSE StoreKit!LastOf(Append(s6.suppressed, s7.transaction), MaxRemembered)
           told == s13.told \union explicit
           unheard == IF others # {} THEN {} ELSE s13.unheard \ explicit
<1>1. /\ UNCHANGED <<s1, s2, s3, s4, s5, s8, s9, s10, s11,
                     s12>>
      /\ s7' = StoreKit!NoPurchase
      /\ s6' = [inFlight |-> FALSE, deferred |-> {}, suppressed |-> suppressed]
      /\ s13' = [s13 EXCEPT !.told = told, !.unheard = unheard]
  BY SeenType DEF StoreKit!EndPurchase, StoreKit!EndGate, StoreKit!contexts
<1>2. /\ explicit \subseteq Transactions
      /\ explicit # {} => s7.transaction \in Transactions
  BY DEF StoreKitIInv, Origins, Existing
<1>3. suppressed \in Seq(Transactions)
  <2>1. s6.suppressed \in Seq(Transactions)
    BY PurchaseType DEF Gates
  <2>2. awaited # {} => s7.transaction \in Transactions
    BY <1>2
  <2>3. awaited # {} => Append(s6.suppressed, s7.transaction) \in Seq(Transactions)
    BY <2>1, <2>2, AppendProperties
  <2> HIDE DEF awaited
  <2>4. awaited # {} =>
          StoreKit!LastOf(Append(s6.suppressed, s7.transaction), MaxRemembered)
            \in Seq(Transactions)
    BY <2>3, LastOfType, StoreKitAssumption
  <2> QED BY <2>1, <2>4
<1>4. s6' \in Gates
  <2> HIDE DEF suppressed
  <2> QED BY <1>1, <1>3 DEF Gates
<1>5. told \in SUBSET Transactions /\ unheard \in SUBSET Transactions
  BY <1>2, SeenType
<1>6. Heard'
  <2>1. s13'.unheard = unheard
    BY <1>1, SeenType
  <2>2. ASSUME NEW t \in unheard PROVE s8[Updates].at # "idle" /\ s8[Updates].transaction = t
    <3>1. others = {} /\ t \in s13.unheard /\ t \notin explicit
      BY <2>2
    <3>2. t \notin s6.deferred
      BY <3>1
    <3> QED BY <3>1, <3>2 DEF StoreKitIInv, Heard
  <2> HIDE DEF unheard
  <2> QED BY <1>1, <2>1, <2>2 DEF Heard
<1> HIDE DEF explicit, others, awaited, suppressed, told, unheard
<1>7. /\ SeenOK' /\ s13'.gone = s13.gone /\ s13'.settled = s13.settled
      /\ s13'.late = s13.late
  BY <1>1, <1>5, SeenType DEF SeenOK
<1>8. /\ FlowsOK' /\ Owners' /\ Existing' = Existing /\ StoreKit!Finished' = StoreKit!Finished
      /\ \A f \in StoreKit!Flows : ReliedOn(s8[f])'
      /\ \A t \in Transactions : StoreKit!OwedContext(t)' => StoreKit!OwedContext(t)
  BY <1>1, <1>7, FlowsStand
<1>9. /\ s7' \in PurchaseRecords /\ s7'.at = "idle" /\ s7'.attempt = 0
      /\ s7'.transaction = NoTransaction
  BY <1>1, NoPurchaseType DEF StoreKit!NoPurchase
<1>10. StoreKit!TypeOK'
  BY <1>1, <1>4, <1>9 DEF StoreKitIInv, StoreKit!TypeOK, PurchaseRecords, Gates, Contexted
<1>11. Origins' /\ OneTransaction'
  BY <1>1, <1>8, <1>9, PurchaseType DEF StoreKitIInv, Origins, OneTransaction, Selling
<1>12. OneContext'
  <2>1. ASSUME NEW t \in Existing, NEW c \in Nat, Agree(t, c) PROVE Agree(t, c)'
    BY <1>1, <1>9, <2>1 DEF Agree
  <2> QED BY <1>8, <2>1 DEF StoreKitIInv, OneContext
<1>13. Settled' /\ Strays'
  BY <1>1, <1>7, <1>8 DEF StoreKitIInv, Settled, Strays
<1>14. Kept'
  BY <1>1, <1>7, <1>8, <1>9 DEF StoreKitIInv, Kept, Selling
<1>15. Relied'
  BY <1>8, <1>9, ReliedOnWillBe
<1> QED BY <1>6, <1>7, <1>8, <1>10, <1>11, <1>12, <1>13, <1>14, <1>15 DEF StoreKitIInv

-----------------------------------------------------------------------------
\* The metadata of a transaction is removed, by the first finishTransaction of it or
\* by one more.
LEMMA RemovalKeeps ==
  ASSUME StoreKitIInv, NEW t \in Transactions, StoreKit!RemoveMetadata(t) \/ StoreKit!FinishAgain(t)
  PROVE  StoreKitIInv'
<1> DEFINE settled == s13.settled \union {t}
           told == s13.told \ {t}
<1>1. /\ UNCHANGED <<s1, s3, s4, s5, s6, s7, s8, s10, s11,
                     s12>>
      /\ s2' = [s2 EXCEPT ![t] = 0]
      /\ t \in Existing /\ s9' \subseteq s9 \union {t}
  BY DEF StoreKit!RemoveMetadata, StoreKit!FinishAgain, StoreKit!contexts,
      StoreKit!Unfinished, StoreKit!Finished, Existing
<1>2. s13' = [s13 EXCEPT !.settled = settled, !.told = told]
  <2>1. CASE StoreKit!RemoveMetadata(t)
    BY <2>1 DEF StoreKit!RemoveMetadata
  <2>2. CASE StoreKit!FinishAgain(t)
    <3>1. settled = s13.settled
      BY <2>2 DEF StoreKit!FinishAgain, StoreKitIInv, Settled
    <3> QED BY <2>2, <3>1, SeenType DEF StoreKit!FinishAgain
  <2> QED BY <2>1, <2>2
<1>3. settled \in SUBSET Transactions /\ told \in SUBSET Transactions
  BY SeenType
<1> HIDE DEF settled, told
<1>4. /\ SeenOK' /\ s13'.gone = s13.gone /\ s13'.settled = settled
      /\ s13'.late = s13.late /\ s13'.unheard = s13.unheard
  BY <1>2, <1>3, SeenType DEF SeenOK
<1>5. /\ s2' \in [Transactions -> Contexted] /\ s2'[t] = 0
      /\ \A u \in Transactions : u # t => s2'[u] = s2[u]
  BY <1>1, ZeroIsContexted DEF StoreKitIInv, StoreKit!TypeOK, Contexted
<1>6. t \in s13'.settled /\ s13.settled \subseteq s13'.settled
  BY <1>4 DEF settled
<1>7. /\ FlowsOK' /\ Owners' /\ Existing' = Existing /\ StoreKit!Finished' = StoreKit!Finished
      /\ \A f \in StoreKit!Flows : ReliedOn(s8[f])'
      /\ \A u \in Transactions : StoreKit!OwedContext(u)' => StoreKit!OwedContext(u)
  BY <1>1, <1>4, <1>5, <1>6, FlowsStand
<1>8. StoreKit!TypeOK'
  BY <1>1, <1>5 DEF StoreKitIInv, StoreKit!TypeOK, Contexted
<1>9. Origins' /\ OneTransaction'
  BY <1>1, <1>5, <1>7 DEF StoreKitIInv, Origins, OneTransaction, Selling
<1>10. Heard'
  BY <1>1, <1>4 DEF StoreKitIInv, Heard
<1>11. OneContext'
  <2>1. ASSUME NEW u \in Existing, NEW c \in Nat, Agree(u, c) PROVE Agree(u, c)'
    <3>1. s2'[u] \in {0, c}
      BY <1>5, <2>1 DEF Agree, Existing
    <3> QED BY <1>1, <2>1, <3>1 DEF Agree
  <2> QED BY <1>7, <2>1 DEF StoreKitIInv, OneContext
<1>12. Settled'
  <2>1. s9' \subseteq Existing' /\ s9' \union StoreKit!Finished' \subseteq s13'.settled
    BY <1>1, <1>6, <1>7 DEF StoreKitIInv, Settled
  <2>2. \A u \in s9' \union StoreKit!Finished' : u # t => u \in s9 \union StoreKit!Finished
    BY <1>1, <1>7
  <2>3. \A u \in s9' \union StoreKit!Finished' : u \in Transactions
    BY <2>1, <1>7 DEF StoreKit!Finished, Existing
  <2>4. \A u \in s9' \union StoreKit!Finished' : s2'[u] # 0 => u \in s13'.late
    BY <1>4, <1>5, <2>2, <2>3 DEF StoreKitIInv, Settled
  <2> QED BY <2>1, <2>4 DEF Settled
<1>13. Strays'
  BY <1>1, <1>4, <1>5 DEF StoreKitIInv, Strays
<1>14. Kept'
  <2>1. \A u \in Transactions : StoreKit!OwedContext(u)' => StoreKit!OwedContext(u) /\ u # t
    BY <1>6, <1>7 DEF StoreKit!OwedContext
  <2>2. \A u \in Transactions : StoreKit!OwedContext(u)' =>
          \/ s2'[u] = s10[u].attempt
          \/ s3[s10[u].product] = s10[u].attempt
          \/ /\ s5[u] = s10[u].attempt
             /\ s4[s10[u].product] = s10[u].attempt
    BY <1>5, <2>1 DEF StoreKitIInv, Kept
  <2>3. /\ \A a \in s11 : a.attempt \notin s13.gone => s3[a.product] = a.attempt
        /\ Selling /\ s7.attempt \notin s13.gone =>
             s3[s7.product] = s7.attempt
        /\ s7.at \in {"buying", "stored"} =>
             s4[s7.product] \in {0, s7.attempt}
    BY DEF StoreKitIInv, Kept
  <2> QED BY <1>1, <1>4, <2>2, <2>3 DEF Kept, Selling
<1>15. Relied'
  <2>1. s7.at = "stored" => /\ s7.transaction \in Transactions
                            /\ \/ s2[s7.transaction] = s7.attempt
                               \/ s7.transaction \in s13.settled
    BY DEF StoreKitIInv, Relied, Origins, Existing
  <2> QED BY <1>1, <1>5, <1>6, <1>7, <2>1, ReliedOnWillBe
<1> QED BY <1>4, <1>7, <1>8, <1>9, <1>10, <1>11, <1>12, <1>13, <1>14, <1>15 DEF StoreKitIInv

LEMMA FinishKeeps ==
  ASSUME StoreKitIInv, NEW t \in Transactions, StoreKit!Finish(t)
  PROVE  StoreKitIInv'
<1>1. /\ UNCHANGED <<s1, s2, s3, s4, s5, s6, s7, s8, s11,
                     s12, s13>>
      /\ t \in s9 /\ s9' = s9 \ {t}
      /\ s10' = [s10 EXCEPT ![t].at = "finished"]
  BY DEF StoreKit!Finish, StoreKit!contexts
<1>2. t \in Existing /\ t \in s13.settled
  BY <1>1 DEF StoreKitIInv, Settled
<1>3. s10 \in [Transactions -> [at: {"unborn", "unfinished", "finished"},
                                product: StoreProducts \union {NoProduct}, date: Contexted,
                                attempt: Contexted, renewal: BOOLEAN]]
  BY DEF StoreKitIInv, StoreKit!TypeOK, Contexted
<1>4. /\ s10' \in [Transactions -> [at: {"unborn", "unfinished", "finished"},
                                    product: StoreProducts \union {NoProduct}, date: Contexted,
                                    attempt: Contexted, renewal: BOOLEAN]]
      /\ \A u \in Transactions : /\ s10'[u].product = s10[u].product
                                 /\ s10'[u].date = s10[u].date
                                 /\ s10'[u].attempt = s10[u].attempt
                                 /\ s10'[u].renewal = s10[u].renewal
                                 /\ s10'[u].at = IF u = t THEN "finished"
                                                 ELSE s10[u].at
  BY <1>1, <1>3
<1>5. Existing' = Existing /\ StoreKit!Finished' = StoreKit!Finished \union {t}
  BY <1>2, <1>4 DEF Existing, StoreKit!Finished
<1>6. \A u \in Transactions : StoreKit!OwedContext(u)' <=> StoreKit!OwedContext(u)
  BY <1>1, <1>4 DEF StoreKit!OwedContext
<1>7. StoreKit!TypeOK' /\ SeenOK'
  BY <1>1, <1>4 DEF StoreKitIInv, StoreKit!TypeOK, SeenOK, Contexted
<1>8. Origins'
  BY <1>1, <1>4, <1>5 DEF StoreKitIInv, Origins
<1>9. OneTransaction'
  BY <1>1, <1>4 DEF StoreKitIInv, OneTransaction, Selling
<1>10. FlowsOK' /\ Owners' /\ Heard'
  BY <1>1, <1>5 DEF StoreKitIInv, FlowsOK, Owners, Heard
<1>11. OneContext'
  <2>1. ASSUME NEW u \in Existing, NEW c \in Nat, Agree(u, c) PROVE Agree(u, c)'
    <3>1. s10'[u].product = s10[u].product /\ s10'[u].date = s10[u].date
      BY <1>4 DEF Existing
    <3> QED BY <1>1, <2>1, <3>1 DEF Agree
  <2> QED BY <1>5, <2>1 DEF StoreKitIInv, OneContext
<1>12. Settled'
  BY <1>1, <1>2, <1>5 DEF StoreKitIInv, Settled
<1>13. Strays'
  BY <1>1, <1>4 DEF StoreKitIInv, Strays
<1>14. Kept'
  <2>1. \A u \in Transactions : StoreKit!OwedContext(u)' =>
          \/ s2[u] = s10'[u].attempt
          \/ s3[s10'[u].product] = s10'[u].attempt
          \/ /\ s5[u] = s10'[u].attempt
             /\ s4[s10'[u].product] = s10'[u].attempt
    BY <1>4, <1>6 DEF StoreKitIInv, Kept
  <2> QED BY <1>1, <2>1 DEF StoreKitIInv, Kept, Selling
<1>15. Relied'
  <2>1. ASSUME NEW f \in StoreKit!Flows PROVE ReliedOn(s8[f])'
    <3>1. ReliedOn(s8[f])
      BY ReliedOnIs DEF StoreKitIInv
    <3>2. /\ s8[f].at = "rereading" => s8[f].transaction \in Transactions
          /\ \A pair \in s8[f].found : pair[1] \in Transactions
      BY DEF StoreKitIInv, FlowsOK, Existing
    <3> QED BY <1>1, <1>4, <1>6, <3>1, <3>2 DEF ReliedOn
  <2> QED BY <1>1, <2>1, ReliedOnIs, ReliedOnWillBe DEF StoreKitIInv
<1> QED BY <1>7, <1>8, <1>9, <1>10, <1>11, <1>12, <1>13, <1>14, <1>15 DEF StoreKitIInv

\* After a restart, what is owed is what the journal has: the entry of another
\* transaction there is no reason to owe a context.
LEMMA RestartKeeps ==
  ASSUME StoreKitIInv, StoreKit!Restart
  PROVE  StoreKitIInv'
<1> DEFINE ask == [product |-> s7.product, attempt |-> s7.attempt]
           gone == s13.gone \union (1..s12 \ {s2[t] : t \in Transactions})
<1>1. /\ UNCHANGED <<s1, s2, s10, s12>>
      /\ s3' = [p \in StoreProducts |-> 0] /\ s4' = [p \in StoreProducts |-> 0]
      /\ s5' = [t \in Transactions |-> 0]
      /\ s6' = StoreKit!Open /\ s7' = StoreKit!NoPurchase /\ s8' = [f \in StoreKit!Flows |-> StoreKit!Resting]
      /\ s9' = {}
      /\ s13' = [s13 EXCEPT !.gone = gone, !.told = {}, !.unheard = {}]
  BY DEF StoreKit!Restart
<1>2. s11' = IF Selling THEN s11 \union {ask} ELSE s11
  BY DEF StoreKit!Restart, Selling
<1>3. Selling => /\ ask.attempt = s7.attempt /\ ask.attempt \in 1..s12
                 /\ ask \in [product: StoreProducts, attempt: 1..MaxAttempts]
  <2>1. Selling => /\ s7.attempt # 0 /\ s7.product \in StoreProducts
                   /\ s7.attempt \in Contexted /\ s7.attempt <= s12
    BY PurchaseType DEF StoreKitIInv, Origins, Selling, PurchaseRecords
  <2>2. Selling => s7.attempt \in 1..MaxAttempts /\ s7.attempt \in 1..s12
    BY <2>1, StoreKitAssumption, PurchaseType DEF Contexted
  <2> QED BY <2>1, <2>2
<1> HIDE DEF ask
<1>4. gone \in SUBSET Nat /\ s13.gone \subseteq gone
  BY SeenType, PurchaseType
<1>5. \A n \in 1..s12 : n \notin gone =>
         n \notin s13.gone /\ \E t \in Transactions : s2[t] = n
  OBVIOUS
<1> HIDE DEF gone
<1>6. /\ SeenOK' /\ s13'.gone = gone /\ s13'.settled = s13.settled
      /\ s13'.late = s13.late /\ s13'.unheard = {}
  BY <1>1, <1>4, SeenType DEF SeenOK
<1>7. /\ Existing' = Existing /\ StoreKit!Finished' = StoreKit!Finished /\ ~Selling'
      /\ s7'.attempt = 0 /\ s7'.transaction = NoTransaction
      /\ s7'.at = "idle" /\ s7' \in PurchaseRecords
  BY <1>1, NoPurchaseType DEF Existing, StoreKit!Finished, Selling, StoreKit!NoPurchase
<1>8. \A f \in StoreKit!Flows : s8'[f] = StoreKit!Resting
  BY <1>1
<1>9. StoreKit!TypeOK'
  <2>1. s6' \in Gates
    <3>1. <<>> \in Seq(Transactions)
      BY EmptySeq
    <3> QED BY <1>1, <3>1 DEF StoreKit!Open, Gates
  <2>2. s8' \in [StoreKit!Flows -> FlowRecords]
    BY <1>1, RestingIsAFlow
  <2>3. /\ s3' \in [StoreProducts -> Contexted] /\ s4' \in [StoreProducts -> Contexted]
        /\ s5' \in [Transactions -> Contexted]
    BY <1>1, ZeroIsContexted
  <2>4. s11' \subseteq [product: StoreProducts, attempt: 1..MaxAttempts]
    BY <1>2, <1>3 DEF StoreKitIInv, StoreKit!TypeOK
  <2> QED BY <1>1, <1>7, <2>1, <2>2, <2>3, <2>4
             DEF StoreKitIInv, StoreKit!TypeOK, PurchaseRecords, FlowRecords, Gates, Contexted
<1>10. Origins'
  <2>1. \A a \in s11' : a.attempt <= s12
    BY <1>2, <1>3, PurchaseType DEF StoreKitIInv, Origins
  <2>2. s12 \in Nat
    BY PurchaseType
  <2> QED BY <1>1, <1>7, <2>1, <2>2 DEF StoreKitIInv, Origins
<1>11. OneTransaction'
  <2>1. \A a, b \in s11' : a.attempt = b.attempt => a = b
    BY <1>2, <1>3 DEF StoreKitIInv, OneTransaction
  <2>2. \A t \in Transactions, a \in s11' : s10[t].attempt # a.attempt
    BY <1>2, <1>3 DEF StoreKitIInv, OneTransaction
  <2>3. \A t \in Transactions : t # NoTransaction
    BY PurchaseType
  <2> QED BY <1>1, <1>7, <2>1, <2>2, <2>3 DEF StoreKitIInv, OneTransaction
<1>12. FlowsOK' /\ Owners' /\ Heard'
  <2>1. \A f \in StoreKit!Flows, t \in Transactions : ~Promotes(s8'[f], t)
    BY <1>8 DEF Promotes, Places, StoreKit!Resting
  <2> QED BY <1>1, <1>6, <1>8, <2>1 DEF FlowsOK, Owners, Heard, Places, StoreKit!Resting
<1>13. OneContext'
  <2>1. ASSUME NEW t \in Existing, NEW c \in Nat, Agree(t, c) PROVE Agree(t, c)'
    <3>1. t \in Transactions /\ s10[t].product \in StoreProducts
      BY DEF Existing, StoreKitIInv, Origins
    <3>2. s5'[t] = 0 /\ s4'[s10[t].product] = 0
      BY <1>1, <3>1
    <3>3. \A q \in Queries : s8'[q].found = {}
      BY <1>8 DEF StoreKit!Flows, StoreKit!Resting
    <3> QED BY <1>1, <1>7, <2>1, <3>2, <3>3 DEF Agree
  <2> QED BY <1>7, <2>1 DEF StoreKitIInv, OneContext
<1>14. Settled'
  BY <1>1, <1>6, <1>7 DEF StoreKitIInv, Settled
<1>15. Strays'
  BY <1>1, <1>4, <1>6 DEF StoreKitIInv, Strays
<1>16. Kept'
  <2>1. ASSUME NEW n \in 1..s12, n \notin gone
        PROVE  \E t \in Transactions : s2[t] = n /\ s10[t].attempt = n
    <3>1. PICK t \in Transactions : s2[t] = n
      BY <1>5, <2>1
    <3>2. s2[t] # 0 /\ s2[t] \notin s13.gone
      BY <1>5, <2>1, <3>1
    <3> QED BY <3>1, <3>2 DEF StoreKitIInv, Strays
  <2>2. ASSUME NEW a \in s11', a.attempt \notin gone PROVE FALSE
    <3>1. a.attempt \in 1..s12
      <4>1. \A b \in s11 : b.attempt \in 1..MaxAttempts /\ b.attempt <= s12
        BY DEF StoreKitIInv, StoreKit!TypeOK, Origins
      <4>2. \A b \in s11 : b.attempt \in 1..s12
        BY <4>1, StoreKitAssumption, PurchaseType
      <4> QED BY <1>2, <1>3, <4>2
    <3>2. \A t \in Transactions : s10[t].attempt # a.attempt
      BY <1>2, <1>3 DEF StoreKitIInv, OneTransaction
    <3> QED BY <2>1, <2>2, <3>1, <3>2
  <2>3. ASSUME NEW t \in Transactions, StoreKit!OwedContext(t)' PROVE s2[t] = s10[t].attempt
    <3>1. s10[t].attempt # 0 /\ s10[t].attempt \notin gone
      BY <1>1, <1>6, <2>3 DEF StoreKit!OwedContext
    <3>2. s10[t].attempt \in 1..s12
      <4>1. s10[t].attempt \in Nat /\ s10[t].date \in Nat
        BY StoreKitAssumption DEF StoreKitIInv, StoreKit!TypeOK
      <4>2. s10[t].attempt <= s10[t].date /\ s10[t].date <= s12
        BY DEF StoreKitIInv, Origins
      <4> QED BY <3>1, <4>1, <4>2, PurchaseType
    <3>3. PICK u \in Transactions :
            s2[u] = s10[t].attempt /\ s10[u].attempt = s10[t].attempt
      BY <2>1, <3>1, <3>2
    <3>4. u = t
      BY <3>1, <3>3 DEF StoreKitIInv, OneTransaction
    <3> QED BY <3>3, <3>4
  <2> QED BY <1>1, <1>6, <1>7, <2>2, <2>3 DEF Kept
<1>17. Relied'
  <2>1. \A f \in StoreKit!Flows : ReliedOn(s8[f])'
    BY <1>8 DEF ReliedOn, StoreKit!Resting
  <2> QED BY <1>7, <2>1, ReliedOnWillBe
<1> QED BY <1>6, <1>9, <1>10, <1>11, <1>12, <1>13, <1>14, <1>15, <1>16, <1>17 DEF StoreKitIInv

LEMMA StoreKitInit == StoreKit!Init => StoreKitIInv
<1> SUFFICES ASSUME StoreKit!Init PROVE StoreKitIInv
  OBVIOUS
<1>1. /\ s1 \in StoreKit!Scope /\ s2 = [t \in Transactions |-> 0]
      /\ s3 = [p \in StoreProducts |-> 0] /\ s4 = [p \in StoreProducts |-> 0]
      /\ s5 = [t \in Transactions |-> 0] /\ s6 = StoreKit!Open /\ s7 = StoreKit!NoPurchase
      /\ s8 = [f \in StoreKit!Flows |-> StoreKit!Resting] /\ s9 = {}
      /\ s10 = [t \in Transactions |-> StoreKit!Unborn] /\ s11 = {} /\ s12 = 0
      /\ s13 = StoreKit!Unseen
  BY StoreKitAssumption DEF StoreKit!Init
<1>2. /\ s7 \in PurchaseRecords /\ s7.at = "idle" /\ s7.attempt = 0
      /\ s7.transaction = NoTransaction
  BY <1>1, NoPurchaseType DEF StoreKit!NoPurchase
<1>3. /\ Existing = {} /\ StoreKit!Finished = {} /\ ~Selling
      /\ \A t \in Transactions : s10[t] = StoreKit!Unborn /\ s2[t] = 0 /\ s5[t] = 0
      /\ \A f \in StoreKit!Flows : s8[f] = StoreKit!Resting
  BY <1>1, <1>2 DEF Existing, StoreKit!Finished, Selling, StoreKit!Unborn
<1>4. StoreKit!TypeOK
  <2>1. s6 \in Gates
    <3>1. <<>> \in Seq(Transactions)
      BY EmptySeq
    <3> QED BY <1>1, <3>1 DEF StoreKit!Open, Gates
  <2>2. s8 \in [StoreKit!Flows -> FlowRecords]
    BY <1>1, RestingIsAFlow
  <2>3. /\ s3 \in [StoreProducts -> Contexted] /\ s4 \in [StoreProducts -> Contexted]
        /\ s5 \in [Transactions -> Contexted] /\ s2 \in [Transactions -> Contexted]
    BY <1>1, ZeroIsContexted
  <2>4. s10 \in [Transactions -> [at: {"unborn", "unfinished", "finished"},
                                  product: StoreProducts \union {NoProduct}, date: Contexted,
                                  attempt: Contexted, renewal: BOOLEAN]]
    BY <1>1, ZeroIsContexted DEF StoreKit!Unborn
  <2> QED BY <1>1, <1>2, <2>1, <2>2, <2>3, <2>4
             DEF StoreKit!TypeOK, PurchaseRecords, FlowRecords, Gates, Contexted
<1>5. SeenOK /\ s13.unheard = {}
  BY <1>1 DEF SeenOK, StoreKit!Unseen
<1>6. Origins /\ OneTransaction
  <2>1. s1.attempts \in Nat
    BY <1>1 DEF StoreKit!Scope
  <2>2. \A t \in Transactions : s10[t].attempt = 0 /\ s10[t].date = 0
                                /\ s10[t].renewal = FALSE
    BY <1>3 DEF StoreKit!Unborn
  <2> QED BY <1>1, <1>2, <1>3, <2>1, <2>2 DEF Origins, OneTransaction
<1>7. FlowsOK /\ Owners /\ Heard
  <2>1. \A f \in StoreKit!Flows, t \in Transactions : ~Promotes(s8[f], t)
    BY <1>3 DEF Promotes, Places, StoreKit!Resting
  <2> QED BY <1>3, <1>5, <2>1 DEF FlowsOK, Owners, Heard, Places, StoreKit!Resting
<1>8. OneContext /\ Settled /\ Strays
  BY <1>1, <1>3 DEF OneContext, Settled, Strays
<1>9. Kept
  BY <1>1, <1>2, <1>3 DEF Kept, StoreKit!OwedContext, StoreKit!Unborn
<1>10. Relied
  <2>1. \A f \in StoreKit!Flows : ReliedOn(s8[f])
    BY <1>3 DEF ReliedOn, StoreKit!Resting
  <2> QED BY <1>2, <2>1, ReliedOnIs
<1> QED BY <1>4, <1>5, <1>6, <1>7, <1>8, <1>9, <1>10 DEF StoreKitIInv

LEMMA StoreKitStands ==
  ASSUME StoreKitIInv, UNCHANGED StoreKit!vars
  PROVE  StoreKitIInv'
<1>1. UNCHANGED <<s1, s2, s3, s4, s5, s6, s7, s8, s9,
                  s10, s11, s12, s13>>
  BY DEF StoreKit!vars
<1>2. /\ FlowsOK' /\ Owners' /\ Existing' = Existing /\ StoreKit!Finished' = StoreKit!Finished
      /\ \A f \in StoreKit!Flows : ReliedOn(s8[f])'
      /\ \A t \in Transactions : StoreKit!OwedContext(t)' => StoreKit!OwedContext(t)
  BY <1>1, FlowsStand
<1>3. StoreKit!TypeOK' /\ SeenOK' /\ Heard' /\ (Selling' <=> Selling)
  BY <1>1 DEF StoreKitIInv, StoreKit!TypeOK, SeenOK, Heard, Selling
<1>4. Origins' /\ OneTransaction'
  BY <1>1, <1>2, <1>3 DEF StoreKitIInv, Origins, OneTransaction
<1>5. OneContext'
  <2>1. ASSUME NEW t \in Existing, NEW c \in Nat, Agree(t, c) PROVE Agree(t, c)'
    BY <1>1, <2>1 DEF Agree
  <2> QED BY <1>2, <2>1 DEF StoreKitIInv, OneContext
<1>6. Settled' /\ Strays' /\ Kept'
  BY <1>1, <1>2, <1>3 DEF StoreKitIInv, Settled, Strays, Kept
<1>7. Relied'
  BY <1>1, <1>2, ReliedOnIs, ReliedOnWillBe DEF StoreKitIInv
<1> QED BY <1>2, <1>3, <1>4, <1>5, <1>6, <1>7 DEF StoreKitIInv

LEMMA StoreKitNext ==
  ASSUME StoreKitIInv, StoreKit!Next
  PROVE  StoreKitIInv'
<1>1. ASSUME NEW t \in Transactions,
             \/ \E p \in StoreProducts : StoreKit!BoughtElsewhere(t, p)
             \/ \E a \in s11 : StoreKit!PurchaseApproved(t, a)
             \/ StoreKit!StoreKitSells(t) \/ StoreKit!UpdateArrives(t)
             \/ StoreKit!RemoveMetadata(t) \/ StoreKit!Finish(t) \/ StoreKit!FinishAgain(t)
      PROVE  StoreKitIInv'
  BY <1>1, BirthsKeep, UpdatesKeep, RemovalKeeps, FinishKeeps
<1>2. ASSUME NEW f \in StoreKit!Flows,
             \/ StoreKit!ReadJournal(f) \/ StoreKit!ReadFails(f)
             \/ StoreKit!WaitForPromotion(f) \/ StoreKit!ClaimContext(f)
             \/ StoreKit!PromoteContext(f) \/ StoreKit!CommitClaim(f) \/ StoreKit!RollBackClaim(f)
             \/ StoreKit!ReadJournalAgain(f) \/ StoreKit!ConfirmPromotion(f)
      PROVE  StoreKitIInv'
  BY <1>2, LooksKeep, ClaimKeeps, PromoteKeeps, CommitKeeps, RollBackKeeps
<1>3. CASE StoreKit!UpdateHandled
  <2>1. s8[Updates].transaction \in Transactions
    BY <1>3, JournalType DEF StoreKit!UpdateHandled, StoreKit!Flows
  <2> QED BY <1>3, <2>1, UpdatesKeep
<1>4. ASSUME NEW p \in StoreProducts, StoreKit!BeginPurchase(p) PROVE StoreKitIInv'
  BY <1>4, BeginKeeps
<1>5. CASE \/ StoreKit!ProductMissing \/ StoreKit!PurchasePending \/ StoreKit!PurchaseFails
           \/ StoreKit!StoreMetadata \/ StoreKit!ForgetContext
           \/ StoreKit!EndPurchase \/ StoreKit!Restart
  BY <1>5, MissingKeeps, PendingKeeps, PurchaseFailsKeeps, StoreKeeps, ForgetKeeps, EndKeeps,
     RestartKeeps
<1>6. ASSUME NEW q \in Queries, StoreKit!BeginQuery(q) \/ StoreKit!ScanNext(q) \/ StoreKit!QueryReturns(q)
      PROVE  StoreKitIInv'
  BY <1>6, QueriesKeep
<1> QED BY <1>1, <1>2, <1>3, <1>4, <1>5, <1>6 DEF StoreKit!Next

-----------------------------------------------------------------------------
LEMMA AttributionFollows == StoreKitIInv => StoreKit!AttributionIsKept
<1> SUFFICES ASSUME StoreKitIInv PROVE StoreKit!AttributionIsKept
  OBVIOUS
<1>1. StoreKit!RecoverableContextIsKept
  <2>1. ASSUME NEW q \in Queries, NEW t \in Transactions, StoreKit!OwedContext(t),
               <<t, 0>> \in s8[q].found
        PROVE  FALSE
    <3>1. ReliedOn(s8[q])
      BY ReliedOnIs DEF StoreKitIInv, StoreKit!Flows
    <3> QED BY <2>1, <3>1 DEF ReliedOn
  <2> QED BY <2>1 DEF StoreKit!RecoverableContextIsKept
<1>2. StoreKit!ContextNeverChanges
  <2>1. ASSUME NEW t \in Transactions PROVE \E c \in Nat : StoreKit!Contexts(t) \subseteq {0, c}
    <3>1. CASE t \in Existing
      <4>1. PICK c \in Nat : Agree(t, c)
        BY <3>1 DEF StoreKitIInv, OneContext
      <4> QED BY <4>1 DEF Agree, StoreKit!Contexts
    <3>2. CASE t \notin Existing
      <4>1. s2[t] = 0 /\ s7.transaction # t
        BY <3>2, PurchaseType DEF StoreKitIInv, Origins
      <4>2. \A q \in Queries : \A pair \in s8[q].found : pair[1] # t
        BY <3>2 DEF StoreKitIInv, FlowsOK, StoreKit!Flows
      <4> QED BY <4>1, <4>2 DEF StoreKit!Contexts
    <3> QED BY <3>1, <3>2
  <2>2. ASSUME NEW t \in Transactions PROVE Cardinality(StoreKit!Contexts(t) \ {0}) <= 1
    <3>1. PICK c \in Nat : StoreKit!Contexts(t) \subseteq {0, c}
      BY <2>1
    <3> DEFINE S == StoreKit!Contexts(t) \ {0}
    <3>2. S = {} \/ S = {c}
      BY <3>1
    <3> HIDE DEF S
    <3>3. Cardinality(S) = 0 \/ Cardinality(S) = 1
      BY <3>2, FS_EmptySet, FS_Singleton
    <3> QED BY <3>3 DEF S
  <2> QED BY <2>2, StoreKitCardinality DEF StoreKit!ContextNeverChanges
<1>3. StoreKit!FinishedIsForgotten
  BY DEF StoreKitIInv, Settled, StoreKit!FinishedIsForgotten
<1> QED BY <1>1, <1>2, <1>3 DEF StoreKit!AttributionIsKept

LEMMA HearingFollows == StoreKitIInv => StoreKit!UpdatesAreHeard
<1> SUFFICES ASSUME StoreKitIInv PROVE StoreKit!UpdatesAreHeard
  OBVIOUS
<1>1. StoreKit!WaitersHaveAnOwner
  <2>1. ASSUME NEW f \in StoreKit!Flows, s8[f].at = "waiting"
        PROVE  \E g \in StoreKit!Flows : /\ s8[g].at \in {"promoting", "committing", "rollingBack"}
                                         /\ s8[g].transaction = s8[f].transaction
                                         /\ s8[g].claim = s5[s8[f].transaction]
    <3>1. s8[f].transaction \in Transactions /\ s5[s8[f].transaction] # 0
      BY <2>1 DEF StoreKitIInv, FlowsOK, Existing
    <3>2. PICK g \in StoreKit!Flows : Promotes(s8[g], s8[f].transaction)
      BY <3>1 DEF StoreKitIInv, Owners
    <3>3. s5[s8[g].transaction] = s8[g].claim
      BY <3>2 DEF StoreKitIInv, FlowsOK, Promotes
    <3> QED BY <3>2, <3>3 DEF Promotes, Places
  <2> QED BY <2>1 DEF StoreKit!WaitersHaveAnOwner
<1>2. \A t \in s13.unheard : \/ s8[Updates].transaction = t
                             \/ s6.inFlight /\ t \in s6.deferred
  BY DEF StoreKitIInv, Heard
<1> QED BY <1>1, <1>2 DEF StoreKit!UpdatesAreHeard

LEMMA StoreKitHolds == Spec => [](part = "ios" => StoreKitIInv)
<1>1. Init => (part = "ios" => StoreKitIInv)
  BY StoreKitInit DEF Init
<1>2. (part = "ios" => StoreKitIInv) /\ [Next]_vars => (part = "ios" => StoreKitIInv)'
  <2> SUFFICES ASSUME part = "ios" => StoreKitIInv, [Next]_vars, part' = "ios"
               PROVE  StoreKitIInv'
    OBVIOUS
  <2>1. part = "ios" /\ (StoreKit!Next \/ UNCHANGED StoreKit!vars)
    BY DEF Next, vars, from7, StoreKit!vars
  <2> QED
    BY <2>1, StoreKitNext, StoreKitStands
<1> QED
  BY <1>1, <1>2, PTL DEF Spec

\* A transaction that an attempt of this app caused is not handed to Rust without the
\* context of that attempt unless it was given up, and never with two, for any
\* products, transactions, queries and scopes and any journal
\* (RevenueCatPlugin.swift:566, LocalTransactionMetadataStore.swift:89).
THEOREM AttributionKept == Spec => []AttributionIsKept
<1>1. (part = "ios" => StoreKitIInv) => AttributionIsKept
  BY AttributionFollows DEF AttributionIsKept
<1> QED
  BY <1>1, StoreKitHolds, PTL

\* No update is lost while a purchase is in flight, and none waits for a promotion
\* that nobody will end (RevenueCatPlugin.swift:149).
THEOREM UpdatesHeard == Spec => []UpdatesAreHeard
<1>1. (part = "ios" => StoreKitIInv) => UpdatesAreHeard
  BY HearingFollows DEF UpdatesAreHeard
<1> QED
  BY <1>1, StoreKitHolds, PTL

-----------------------------------------------------------------------------
(* All of them *)

Part == part \in {"configure", "caches", "http", "diagnostics", "offerings", "ios", "entitled"}

\* Whatever the part of a behaviour, its variables have their types.
THEOREM TypesHold == Spec => []TypesOK
<1>1. Init => Part
  BY DEF Init, Part
<1>2. Part /\ [Next]_vars => Part'
  BY DEF Next, vars, Part
<1>3. Spec => []Part
  BY <1>1, <1>2, PTL DEF Spec
<1>4. /\ Part
      /\ part = "configure" => Configuring!IInv
      /\ part = "caches" => Caching!IInv
      /\ part = "http" => HttpIInv
      /\ part = "diagnostics" => EventsIInv
      /\ part = "offerings" => OffersIInv
      /\ part = "ios" => StoreKitIInv
      /\ part = "entitled" => EntitledIInv
      => TypesOK
  BY SameConfiguration, SameCaches
     DEF Part, TypesOK, HttpIInv, EventsIInv, OffersIInv, StoreKitIInv, EntitledIInv
<1> QED
  BY <1>3, <1>4, ConfigureHolds, CachesHold, HttpHolds, EventsHold, OffersHold, StoreKitHolds,
     EntitledHolds, PTL
=============================================================================

---------------------------- MODULE Diagnostics ----------------------------
(* The diagnostics queue (diagnostics.rs), what fills it (track_request in   *)
(* http/client.rs) and its flushes (customer_operations.rs): batches are     *)
(* posted one at a time, put back after some failures and given up after     *)
(* others.  Giving up, and an overflow, leave a marker entry instead of what *)
(* was lost.  Diagnostics are enabled; disabled, nothing is ever tracked.    *)
EXTENDS BackendErrors, Sequences

CONSTANTS Flushes,       \* flush calls that may run at the same time
          MaxStored, BatchSize, MaxRetries,
          MaxEvents      \* how many requests are tracked (bound)

VARIABLES
  entries,   \* the queue
  failures,  \* consecutive_failures
  syncing,   \* a flush is under way
  flush,     \* where each flush stands
  owed,      \* how many threads cleared a full queue and are about to track its marker
  tracked,   \* the number of events tracked so far
  received,  \* what reached the diagnostics host
  dropped    \* the future of a flush was dropped

vars == <<entries, failures, syncing, flush, owed, tracked, received, dropped>>

\* An entry has a name; requests are told apart by their number.
Event(n) == [name |-> "http_request_performed", id |-> n]
Marker(name) == [name |-> name, id |-> 0]

Overflowed == Marker("max_events_stored_limit_reached")
RetriesReached == Marker("max_diagnostics_sync_retries_reached")
Cleared == Marker("clearing_diagnostics_after_failed_sync")
Markers == {Overflowed, RetriesReached, Cleared}

Entry == {Event(n) : n \in 1..MaxEvents} \union Markers

Places == {"idle", "claimed", "posting", "resetting", "marking"}

Resting == [at |-> "idle", batch |-> <<>>, marker |-> Cleared]

Init == /\ entries = <<>>
        /\ failures = 0
        /\ syncing = FALSE
        /\ flush = [f \in Flushes |-> Resting]
        /\ owed = 0
        /\ tracked = 0
        /\ received = {}
        /\ dropped = FALSE

-----------------------------------------------------------------------------
\* A full queue is cleared; its marker is tracked after the lock is released.
Tracked(queue, entry) ==
  IF Len(queue) >= MaxStored THEN <<>> ELSE Append(queue, entry)

Overflows(queue) == IF Len(queue) >= MaxStored THEN 1 ELSE 0

\* A request was performed.
TrackRequest ==
  /\ tracked < MaxEvents
  /\ tracked' = tracked + 1
  /\ entries' = Tracked(entries, Event(tracked + 1))
  /\ owed' = owed + Overflows(entries)
  /\ UNCHANGED <<failures, syncing, flush, received, dropped>>

TrackOverflow ==
  /\ owed > 0
  /\ entries' = Tracked(entries, Overflowed)
  /\ owed' = owed - 1 + Overflows(entries)
  /\ UNCHANGED <<failures, syncing, flush, tracked, received, dropped>>

-----------------------------------------------------------------------------
(* One flush; its loop begins again after each batch. *)

\* take_batch: only one flush at a time.
ClaimSync(f) ==
  /\ flush[f].at = "idle"
  /\ ~syncing
  /\ syncing' = TRUE
  /\ flush' = [flush EXCEPT ![f].at = "claimed"]
  /\ UNCHANGED <<entries, failures, owed, tracked, received, dropped>>

BatchLength == IF Len(entries) < BatchSize THEN Len(entries) ELSE BatchSize

TakeBatch(f) ==
  /\ flush[f].at = "claimed"
  /\ IF entries = <<>>
     THEN /\ syncing' = FALSE
          /\ flush' = [flush EXCEPT ![f] = Resting]
          /\ UNCHANGED entries
     ELSE /\ flush' = [flush EXCEPT ![f].at = "posting",
                                    ![f].batch = SubSeq(entries, 1, BatchLength)]
          /\ entries' = SubSeq(entries, BatchLength + 1, Len(entries))
          /\ UNCHANGED syncing
  /\ UNCHANGED <<failures, owed, tracked, received, dropped>>

\* The host has the batch; the answer is still to come.
HostReceives(f) ==
  /\ flush[f].at = "posting"
  /\ received' = received \union {flush[f].batch[i] : i \in DOMAIN flush[f].batch}
  /\ UNCHANGED <<entries, failures, syncing, flush, owed, tracked, dropped>>

BatchSucceeded(f) ==
  /\ flush[f].at = "posting"
  /\ {flush[f].batch[i] : i \in DOMAIN flush[f].batch} \subseteq received
  /\ failures' = 0
  /\ syncing' = FALSE
  /\ flush' = [flush EXCEPT ![f] = Resting]
  /\ UNCHANGED <<entries, owed, tracked, received, dropped>>

Retryable(error) == error \in {"NetworkError", "UnknownBackendError"}

\* Put back in front of what was tracked meanwhile; after MaxRetries failures
\* everything goes.  The flag is free before the counter is reset.
BatchFailedRetryable(f) ==
  /\ failures' = failures + 1
  /\ syncing' = FALSE
  /\ IF failures + 1 >= MaxRetries
     THEN /\ entries' = <<>>
          /\ flush' = [flush EXCEPT ![f] = [at |-> "resetting", batch |-> <<>>,
                                            marker |-> RetriesReached]]
     ELSE /\ entries' = flush[f].batch \o entries
          /\ flush' = [flush EXCEPT ![f] = Resting]

\* Faulty variant of BatchFailedFatal: no marker.
FailedFatalSilently(f) ==
  /\ failures' = 0
  /\ syncing' = FALSE
  /\ entries' = <<>>
  /\ flush' = [flush EXCEPT ![f] = Resting]

BatchFailedFatal(f) ==
  /\ failures' = 0
  /\ syncing' = FALSE
  /\ entries' = <<>>
  /\ flush' = [flush EXCEPT ![f] = [at |-> "marking", batch |-> <<>>, marker |-> Cleared]]

BatchFailed(f, error) ==
  /\ flush[f].at = "posting"
  /\ IF Retryable(error) THEN BatchFailedRetryable(f) ELSE BatchFailedFatal(f)
  /\ UNCHANGED <<owed, tracked, received, dropped>>

\* No answer in time, or no connection.
PostLost(f) == BatchFailed(f, "NetworkError")

\* The statuses, bodies and codes that are told apart.
ErrorAnswers == {500, 400} \X {"json", "text"} \X {0, 7110, 9999}

HostRefuses(f, answer) == BatchFailed(f, ParseBackendError(answer[1], answer[2], answer[3]))

ResetFailures(f) ==
  /\ flush[f].at = "resetting"
  /\ failures' = 0
  /\ flush' = [flush EXCEPT ![f].at = "marking"]
  /\ UNCHANGED <<entries, syncing, owed, tracked, received, dropped>>

TrackMarker(f) ==
  /\ flush[f].at = "marking"
  /\ entries' = Tracked(entries, flush[f].marker)
  /\ owed' = owed + Overflows(entries)
  /\ flush' = [flush EXCEPT ![f] = Resting]
  /\ UNCHANGED <<failures, syncing, tracked, received, dropped>>

\* The caller drops the future while it waits for the host: nobody reports the
\* batch, and the flag stays set.
FlushDropped(f) ==
  /\ flush[f].at = "posting"
  /\ dropped' = TRUE
  /\ flush' = [flush EXCEPT ![f] = Resting]
  /\ UNCHANGED <<entries, failures, syncing, owed, tracked, received>>

Next ==
  \/ TrackRequest
  \/ TrackOverflow
  \/ \E f \in Flushes :
       \/ ClaimSync(f) \/ TakeBatch(f)
       \/ HostReceives(f) \/ BatchSucceeded(f) \/ PostLost(f)
       \/ \E answer \in ErrorAnswers : HostRefuses(f, answer)
       \/ ResetFailures(f) \/ TrackMarker(f) \/ FlushDropped(f)

Spec == Init /\ [][Next]_vars

-----------------------------------------------------------------------------
TypeOK == /\ entries \in Seq(Entry)
          /\ failures \in Nat
          /\ syncing \in BOOLEAN
          /\ flush \in [Flushes -> [at: Places, batch: Seq(Entry), marker: Markers]]
          /\ owed \in Nat
          /\ tracked \in 0..MaxEvents
          /\ received \subseteq Entry
          /\ dropped \in BOOLEAN

QueueIsBounded == Len(entries) <= MaxStored + BatchSize

Holding(f) == flush[f].at \in {"claimed", "posting"}

SyncHasOneOwner ==
  /\ \A f, g \in Flushes : Holding(f) /\ Holding(g) => f = g
  /\ \A f \in Flushes : Holding(f) => syncing
  /\ syncing => dropped \/ \E f \in Flushes : Holding(f)

Everywhere ==
  {entries[i] : i \in DOMAIN entries} \union received
    \union UNION {{flush[f].batch[i] : i \in DOMAIN flush[f].batch} : f \in Flushes}

LossesAreAnnounced ==
  \/ {Event(n) : n \in 1..tracked} \subseteq Everywhere
  \/ Markers \intersect Everywhere # {}
  \/ owed > 0
  \/ \E f \in Flushes : flush[f].at \in {"resetting", "marking"}
  \/ dropped

\* The queue stays bounded although a failed batch is put back in front of what
\* was tracked meanwhile: only one batch is ever out (diagnostics.rs:19, 141).
\* `syncing` is set exactly while one flush holds the claim, unless the future of
\* a flush was dropped (:111).  Events that are neither waiting, on their way nor
\* received were given up, and then a marker says so or is about to be tracked,
\* unless a flush was dropped (:60, 147, 158).
EventsAreAccountedFor == QueueIsBounded /\ SyncHasOneOwner /\ LossesAreAnnounced

\* diagnostics.rs:4: "5xx failures retry up to 3 times before clearing, any other
\* failure clears immediately".
ServerErrorsAreRetried ==
  [][\A f \in Flushes, answer \in ErrorAnswers :
       answer[1] >= 500 /\ failures + 1 < MaxRetries /\ HostRefuses(f, answer)
         => entries' = flush[f].batch \o entries]_vars
=============================================================================

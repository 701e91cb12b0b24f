------------------------- MODULE BillingConnection -------------------------
(* The connection of the Android plugin to Play (RevenueCatPlugin.kt, region  *)
(* Connection management): commands are queued until the billing client is   *)
(* ready, connections that fail are tried again with a growing delay.        *)
(* Commands and the main looper run on different threads, and the client     *)
(* becomes ready or unready on a thread of its own.                          *)
EXTENDS Naturals, FiniteSets, Sequences

CONSTANTS Requests,  \* of commands; a request that was answered may come again
          MaxDelay,  \* RECONNECT_TIMER_MAX_TIME, in units of the first delay
          MaxTasks   \* bound: connections asked for at a time

VARIABLES
  link,       \* BillingClient: isReady is link = "up"
  steady,     \* external: the service never disconnects by itself
  queue,      \* serviceRequests
  scheduled,  \* reconnectionAlreadyScheduled
  delay,      \* reconnectMilliseconds
  main,       \* messages of the main looper that are due
  timers,     \* connections posted with a delay
  waiting     \* requests nobody has answered yet

vars == <<link, steady, queue, scheduled, delay, main, timers, waiting>>

Connect == [kind |-> "connect"]
Setup(code) == [kind |-> "setup", code |-> code]
Run(requests, error) == [kind |-> "run", requests |-> requests, error |-> error]

\* Response codes by what onBillingSetupFinished makes of them.  DEVELOPER_ERROR
\* is what a client answers that is connecting already.
Permanent == {"BILLING_UNAVAILABLE", "DEVELOPER_ERROR"}
Codes == Permanent \union {"OK", "SERVICE_UNAVAILABLE"}

\* Connections that are scheduled, due, being made or answered.
Connections == timers + Cardinality({i \in DOMAIN main : main[i].kind # "run"})
                 + (IF link = "connecting" THEN 1 ELSE 0)

-----------------------------------------------------------------------------
(* What the plugin does with its queue *)

\* executePendingRequests, with these messages before it: the loop asks before
\* every request whether the client is ready, so that a disconnection leaves the
\* rest in the queue.
ExecutePending(requests, messages) ==
  \/ /\ link = "up"
     /\ queue' = {}
     /\ main' = messages \o (IF requests = {} THEN <<>> ELSE <<Run(requests, FALSE)>>)
     /\ link' = link
  \/ /\ link = "up" /\ ~steady
     /\ \E ran \in SUBSET requests :
          /\ ran # requests
          /\ queue' = requests \ ran
          /\ main' = messages \o (IF ran = {} THEN <<>> ELSE <<Run(ran, FALSE)>>)
     /\ link' = "down"
  \/ /\ link # "up"
     /\ queue' = requests
     /\ main' = messages
     /\ link' = link

\* sendErrorsToAllPendingRequests
SendErrorsToAllPending(messages) ==
  /\ queue' = {}
  /\ main' = messages \o (IF queue = {} THEN <<>> ELSE <<Run(queue, TRUE)>>)

\* retryBillingServiceConnectionWithExponentialBackoff
RetryWithBackoff ==
  IF scheduled THEN UNCHANGED <<scheduled, timers, delay>>
  ELSE /\ scheduled' = TRUE
       /\ timers' = timers + 1
       /\ delay' = IF 2 * delay > MaxDelay THEN MaxDelay ELSE 2 * delay

-----------------------------------------------------------------------------
Init == /\ link = "down"
        /\ steady \in BOOLEAN
        /\ queue = {}
        /\ scheduled = FALSE
        /\ delay = 1
        /\ main = <<>>
        /\ timers = 0
        /\ waiting = {}

\* executeRequestOnUIThread
ExecuteRequest(r) ==
  /\ r \notin waiting
  /\ waiting' = waiting \union {r}
  /\ \/ link = "up" /\ ExecutePending(queue \union {r}, main)
     \/ /\ link # "up" /\ Connections < MaxTasks
        /\ queue' = queue \union {r}
        /\ main' = Append(main, Connect)
        /\ UNCHANGED link
  /\ UNCHANGED <<steady, scheduled, delay, timers>>

DelayEnds == /\ timers > 0
             /\ timers' = timers - 1
             /\ main' = Append(main, Connect)
             /\ UNCHANGED <<link, steady, queue, scheduled, delay, waiting>>

\* What becomes of a connection that is due; with the client not ready the call may throw.
ClientStarts ==
  /\ main # <<>> /\ Head(main) = Connect
  /\ \/ /\ link = "down"
        /\ link' = "connecting" /\ main' = Tail(main) /\ UNCHANGED queue
     \/ /\ link = "connecting"
        /\ main' = Append(Tail(main), Setup("DEVELOPER_ERROR")) /\ UNCHANGED <<link, queue>>
     \/ /\ link # "up"
        /\ SendErrorsToAllPending(Tail(main)) /\ UNCHANGED link
     \/ /\ link = "up"
        /\ main' = Tail(main) /\ UNCHANGED <<link, queue>>

\* Faulty variant of StartConnection: the flag of a scheduled connection stays.
StartConnectionKeepingFlag ==
  ClientStarts /\ UNCHANGED <<steady, scheduled, delay, timers, waiting>>

\* The delayed part of startConnection.
StartConnection ==
  /\ ClientStarts
  /\ scheduled' = FALSE
  /\ UNCHANGED <<steady, delay, timers, waiting>>

\* The client reports how an attempt ended; onBillingSetupFinished posts the rest.
AttemptEnds(code) ==
  /\ link = "connecting"
  /\ link' = IF code = "OK" THEN "up" ELSE "down"
  /\ main' = Append(main, Setup(code))
  /\ UNCHANGED <<steady, queue, scheduled, delay, timers, waiting>>

OnBillingSetupFinished ==
  /\ main # <<>> /\ Head(main).kind = "setup"
  /\ LET code == Head(main).code IN
     \/ /\ code = "OK"
        /\ delay' = 1
        /\ ExecutePending(queue, Tail(main))
        /\ UNCHANGED <<scheduled, timers>>
     \/ /\ code \in Permanent
        /\ SendErrorsToAllPending(Tail(main))
        /\ UNCHANGED <<link, scheduled, timers, delay>>
     \/ /\ code = "SERVICE_UNAVAILABLE"
        /\ RetryWithBackoff
        /\ main' = Tail(main)
        /\ UNCHANGED <<link, queue>>
  /\ UNCHANGED <<steady, waiting>>

\* The requests themselves: each answers its command, with what Play says, with
\* the connection's error, or because the client is not connected any more.
RunRequests ==
  /\ main # <<>> /\ Head(main).kind = "run"
  /\ waiting' = waiting \ Head(main).requests
  /\ main' = Tail(main)
  /\ UNCHANGED <<link, steady, queue, scheduled, delay, timers>>

OnBillingServiceDisconnected ==
  /\ link = "up" /\ ~steady
  /\ link' = "down"
  /\ UNCHANGED <<steady, queue, scheduled, delay, main, timers, waiting>>

MainLooper == StartConnection \/ OnBillingSetupFinished \/ RunRequests

Next ==
  \/ \E r \in Requests : ExecuteRequest(r)
  \/ DelayEnds
  \/ StartConnection \/ OnBillingSetupFinished \/ RunRequests
  \/ \E code \in Codes \ {"DEVELOPER_ERROR"} : AttemptEnds(code)
  \/ OnBillingServiceDisconnected

Spec == Init /\ [][Next]_vars

\* The looper goes on, delays end, attempts end, and an attempt that is repeated
\* does not fail for a passing reason for ever.
Fairness ==
  /\ WF_vars(MainLooper) /\ WF_vars(DelayEnds)
  /\ WF_vars(\E code \in Codes : AttemptEnds(code))
  /\ SF_vars(\E code \in {"OK", "BILLING_UNAVAILABLE"} : AttemptEnds(code))

FairSpec == Spec /\ Fairness

-----------------------------------------------------------------------------
Messages == {Connect} \union {Setup(code) : code \in Codes}
            \union [kind : {"run"}, requests : SUBSET Requests, error : BOOLEAN]

TypeOK ==
  /\ link \in {"down", "connecting", "up"}
  /\ steady \in BOOLEAN /\ scheduled \in BOOLEAN
  /\ queue \subseteq waiting /\ waiting \subseteq Requests
  /\ delay \in 1..MaxDelay
  /\ timers \in 0..MaxTasks
  /\ main \in Seq(Messages)

IsDue(message) == \E i \in DOMAIN main : main[i] = message

Runs(i) == IF main[i].kind = "run" THEN main[i].requests ELSE {}

\* A command whose request nobody has answered is in the queue, or in one message
\* that will answer it, and not in both.
RequestsAreHeld ==
  /\ waiting = queue \union UNION {Runs(i) : i \in DOMAIN main}
  /\ \A i \in DOMAIN main : Runs(i) \intersect queue = {}
  /\ \A i, j \in DOMAIN main : i # j => Runs(i) \intersect Runs(j) = {}

\* With a service that does not disconnect, what is in the queue has a connection to
\* wait for, or the message that the client is ready; for that, a retry that counts
\* as scheduled really comes.
QueueIsAwaited ==
  /\ scheduled => timers > 0 \/ IsDue(Connect)
  /\ steady /\ IsDue(Setup("OK")) => link = "up"
  /\ steady /\ queue # {} => IF link = "up" THEN IsDue(Setup("OK")) ELSE Connections > 0

\* The inductive invariant; no retry adds a connection to those there are.
IInv == TypeOK /\ Connections <= MaxTasks /\ RequestsAreHeld /\ QueueIsAwaited

\* No command stays in the queue: however connections fail, are tried again and
\* run into each other it is emptied again and again (RevenueCatPlugin.kt:264,
\* 345), as long as the service does not disconnect by itself: a command that is
\* queued then waits for the next command to start a connection.
QueueIsServed == []<>(steady => queue = {})
=============================================================================

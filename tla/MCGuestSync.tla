----------------------------- MODULE MCGuestSync -----------------------------
(* Two components of the plugin that hold requests back and have to take them  *)
(* up again, side by side: the synchronization scheduler of the guest         *)
(* JavaScript and the Android connection to Play.  They share no state, so a   *)
(* behaviour is about one of them (`part`) while the other stays in its        *)
(* initial state, where fairness asks nothing of it.  No symmetry is declared: *)
(* the run checks liveness.                                                  *)
EXTENDS GuestSync, TLC

CONSTANTS Requests, MaxDelay, MaxTasks

ASSUME ConnectionsAssumption == MaxDelay \in Nat \ {0} /\ MaxTasks \in Nat

VARIABLES part, link, steady, queue, scheduled, delay, main, timers, waiting

connection == <<link, steady, queue, scheduled, delay, main, timers, waiting>>

Connection == INSTANCE BillingConnection

SchedulersInit == /\ part \in {"guest", "connection"}
                  /\ Init /\ Connection!Init
                  /\ part = "guest" => steady

SchedulersNext ==
  \/ part = "guest" /\ Next /\ UNCHANGED <<part, connection>>
  \/ part = "connection" /\ Connection!Next /\ UNCHANGED <<part, vars>>

SchedulersSpec == /\ SchedulersInit /\ [][SchedulersNext]_<<part, vars, connection>>
                  /\ Fairness /\ Connection!Fairness

-----------------------------------------------------------------------------
\* The inductive invariants of both, with their types.
SchedulersIInv == IInv /\ Connection!IInv

\* BillingConnection: the queue of commands is emptied again and again, as long as
\* the service does not disconnect.
QueueIsServed == Connection!QueueIsServed
=============================================================================

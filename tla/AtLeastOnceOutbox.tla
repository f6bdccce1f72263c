-------------------------- MODULE AtLeastOnceOutbox --------------------------
(***************************************************************************)
(* What a transactional outbox promises to the service that writes to it:  *)
(* an event whose transaction committed is handed to the broker at least   *)
(* once before it is recorded as published, or it is given up for good     *)
(* after a publish call of its own; its fate never changes, and nothing is *)
(* ever published that was not committed.  How many workers share the      *)
(* table, and how claims, leases and retries are arranged, is left to the  *)
(* implementation.                                                         *)
(***************************************************************************)
EXTENDS Naturals

CONSTANT Events   \* the events a service may commit to its outbox

VARIABLES
  status,   \* the fate of each event
  tried,    \* events some worker has called the broker for
  copies    \* how many copies of each event the broker has accepted

vars == <<status, tried, copies>>

TypeOK ==
  /\ status \in [Events -> {"absent", "pending", "published", "dead"}]
  /\ tried \subseteq Events
  /\ copies \in [Events -> Nat]

Init ==
  /\ status = [e \in Events |-> "absent"]
  /\ tried = {}
  /\ copies = [e \in Events |-> 0]

\* The business transaction commits, and the event with it.
Commit(e) ==
  /\ status[e] = "absent"
  /\ status' = [status EXCEPT ![e] = "pending"]
  /\ UNCHANGED <<tried, copies>>

\* A worker calls the broker for an event, for the first or a later time.
Try(e) ==
  /\ status[e] # "absent"
  /\ tried' = tried \union {e}
  /\ UNCHANGED <<status, copies>>

\* The broker accepts one more copy, possibly after the event was settled.
Accept(e) ==
  /\ e \in tried
  /\ copies' = [copies EXCEPT ![e] = @ + 1]
  /\ UNCHANGED <<status, tried>>

\* The event is recorded as published: only if the broker has it.
Publish(e) ==
  /\ status[e] = "pending"
  /\ copies[e] > 0
  /\ status' = [status EXCEPT ![e] = "published"]
  /\ UNCHANGED <<tried, copies>>

\* The event is given up: only after the broker was called for it.
GiveUp(e) ==
  /\ status[e] = "pending"
  /\ e \in tried
  /\ status' = [status EXCEPT ![e] = "dead"]
  /\ UNCHANGED <<tried, copies>>

Next ==
  \E e \in Events : Commit(e) \/ Try(e) \/ Accept(e) \/ Publish(e) \/ GiveUp(e)

Spec == Init /\ [][Next]_vars

\* Its fate is decided.
Settled(e) == status[e] \in {"published", "dead"}
=============================================================================

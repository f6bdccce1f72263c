------------------------- MODULE IdempotentConsumer -------------------------
(***************************************************************************)
(* What a queue, its worker and its dead letters promise together: an      *)
(* event that reached the queue takes effect at most once, however often   *)
(* it is delivered; the broker lets go of its last waiting copy only once  *)
(* it took effect or was dead-lettered; a dead letter stays until somebody *)
(* replays it.  How deliveries, retries, restarts and lost channels are    *)
(* arranged is left to the implementation.                                 *)
(***************************************************************************)
EXTENDS Naturals

CONSTANTS
  Queues,   \* one for each consuming service
  Events    \* what is published to the exchange

VARIABLES
  reached,  \* events of which a queue ever received a copy
  waiting,  \* events of which a queue, or its worker, has an unanswered copy
  parked,   \* events among the dead letters of a queue
  applied   \* how often a service's handler took effect for an event

vars == <<reached, waiting, parked, applied>>

TypeOK ==
  /\ reached \in [Queues -> SUBSET Events]
  /\ waiting \in [Queues -> SUBSET Events]
  /\ parked \in [Queues -> SUBSET Events]
  /\ applied \in [Queues -> [Events -> Nat]]

Init ==
  /\ reached = [q \in Queues |-> {}]
  /\ waiting = [q \in Queues |-> {}]
  /\ parked = [q \in Queues |-> {}]
  /\ applied = [q \in Queues |-> [e \in Events |-> 0]]

\* The exchange routes a copy of the event to some queues.
Routed(e, to) ==
  /\ reached' = [q \in Queues |-> IF q \in to THEN reached[q] \union {e} ELSE reached[q]]
  /\ waiting' = [q \in Queues |-> IF q \in to THEN waiting[q] \union {e} ELSE waiting[q]]

Reach(e, to) ==
  /\ Routed(e, to)
  /\ UNCHANGED <<parked, applied>>

\* The handler takes effect.  This may be the handler of a copy that was meanwhile
\* answered for by another delivery, or not at all.
ApplyAgain(q, e) ==
  /\ e \in reached[q]
  /\ applied' = [applied EXCEPT ![q][e] = @ + 1]
  /\ UNCHANGED <<reached, waiting, parked>>
Apply(q, e) ==
  /\ e \in reached[q]
  /\ applied[q][e] = 0
  /\ applied' = [applied EXCEPT ![q][e] = @ + 1]
  /\ UNCHANGED <<reached, waiting, parked>>

\* The last waiting copy of an event that took effect is acknowledged.
Finish(q, e) ==
  /\ e \in waiting[q]
  /\ applied[q][e] > 0
  /\ waiting' = [waiting EXCEPT ![q] = @ \ {e}]
  /\ UNCHANGED <<reached, parked, applied>>

\* A copy is rejected and dead-lettered; others may be waiting still.
Park(q, e) ==
  /\ e \in waiting[q]
  /\ parked' = [parked EXCEPT ![q] = @ \union {e}]
  /\ \/ UNCHANGED waiting
     \/ waiting' = [waiting EXCEPT ![q] = @ \ {e}]
  /\ UNCHANGED <<reached, applied>>

\* The replay tool is done with the last dead letter of an event.  It was published
\* to the bound queues before, is now, or, when that fails, is discarded.
Release(q, e, to) ==
  /\ e \in parked[q]
  /\ parked' = [parked EXCEPT ![q] = @ \ {e}]
  /\ Routed(e, to)
  /\ UNCHANGED applied

Next ==
  \E e \in Events :
    \/ \E to \in SUBSET Queues : Reach(e, to)
    \/ \E q \in Queues :
         \/ Apply(q, e) \/ Finish(q, e) \/ Park(q, e)
         \/ \E to \in SUBSET Queues : Release(q, e, to)

Spec == Init /\ [][Next]_vars
=============================================================================

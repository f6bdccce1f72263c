--------------------------- MODULE MCEventConsumer ---------------------------
(***************************************************************************)
(* Small instances of EventConsumer: a service's queue beside the audit    *)
(* queue, which is bound to every event of the flow.                       *)
(***************************************************************************)
EXTENDS EventConsumer

CONSTANTS e1, e2, scoring, audit
BothQueues == [e \in {e1} |-> {scoring, audit}]
TwoAndOne == [q \in {scoring, audit} |-> IF q = scoring THEN 2 ELSE 1]
TwoEach == [q \in {scoring} |-> 2]
OneEach == [q \in {scoring} |-> 1]
ScoringOnly == [e \in {e1, e2} |-> {scoring}]
=============================================================================

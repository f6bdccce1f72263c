--------------------------- MODULE MCCircuitBreaker ---------------------------
(***************************************************************************)
(* Small instance of CircuitBreaker: more tasks than the bulkhead lets in. *)
(***************************************************************************)
EXTENDS CircuitBreaker, TLC

CONSTANTS c1, c2, c3, c4, c5
=============================================================================

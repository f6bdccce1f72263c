------------------------- MODULE MCGatewayIdempotency -------------------------
(***************************************************************************)
(* Small instances of GatewayIdempotency: retries of one payload and a     *)
(* request that reuses the key for another.                                *)
(***************************************************************************)
EXTENDS GatewayIdempotency, TLC

CONSTANTS q1, q2, q3, h1, h2
OneOther == [r \in {q1, q2, q3} |-> IF r = q3 THEN h2 ELSE h1]
=============================================================================

---------------------------- MODULE MCOutboxRelay ----------------------------
(***************************************************************************)
(* Small instance of OutboxRelay: a relay and a flush call drain a table,  *)
(* with tokens for all that two rows and two workers hold at once.         *)
(***************************************************************************)
EXTENDS OutboxRelay

CONSTANTS r1, r2
ThreeEvents == 1..3
FourTokens == 1..4
=============================================================================

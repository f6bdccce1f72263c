---------------------------- MODULE MCMigrations ----------------------------
(***************************************************************************)
(* Small instance of Migrations: two applications with three times of      *)
(* submission each, and four runs of the script.                           *)
(***************************************************************************)
EXTENDS Migrations, TLC

CONSTANTS a1, a2, v1, v2

Symmetric == Permutations({a1, a2}) \union Permutations({v1, v2})
=============================================================================

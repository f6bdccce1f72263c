-------------------------- MODULE MCModelLifecycle --------------------------
(***************************************************************************)
(* Instances of ModelLifecycle for TLC.                                    *)
(***************************************************************************)
EXTENDS ModelLifecycle, TLC

CONSTANTS m1, m2, d1, d2, s1, s2, r1, r2, r3, p1, p2

(* A run of the served model that passes, one whose data fails the policy, *)
(* and one that was trained under another model name.                      *)
MCTrainRequest ==
    (r1 :> [model |-> m1, data |-> d1, spec |-> s1]) @@
    (r2 :> [model |-> m1, data |-> d2, spec |-> s1]) @@
    (r3 :> [model |-> m2, data |-> d1, spec |-> s2])

MCOneRun == r1 :> [model |-> m1, data |-> d1, spec |-> s1]

(* Two replicas whose clocks agree, or differ by MaxSkew.                  *)
MCSkew == (p1 :> 0) @@ (p2 :> MaxSkew)

MCNoSkew == [p \in Promoters |-> 0]

Symmetry ==
    Permutations(Versions) \cup Permutations(Evals) \cup Permutations(Keys)
    \cup Permutations(Tickets) \cup Permutations(Registrars)
=============================================================================

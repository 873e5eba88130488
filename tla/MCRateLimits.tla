---------------------------- MODULE MCRateLimits ----------------------------
(* Instances of RateLimits. *)
EXTENDS RateLimits, TLC

SmallUsages == {[tokens |-> 1, cost |-> 0], [tokens |-> 2, cost |-> 1]}
RequestSymmetry == Permutations(Requests)
=============================================================================

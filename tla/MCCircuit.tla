----------------------------- MODULE MCCircuit -----------------------------
(* Instances of CircuitHistory: pools of the requested model. *)
EXTENDS CircuitHistory, TLC

CONSTANTS k1, k2, k3, k4

SharedKey == << <<k1>>, <<k2, k1>> >>

GoodHeaders == {NoHeader, 1}
RequestSymmetry == Permutations(Requests)
=============================================================================

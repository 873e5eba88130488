------------------------------- MODULE MCChat -------------------------------
(* Instances of ChatCompletions: pools of the requested model. *)
EXTENDS ChatCompletions, TLC

CONSTANTS k1, k2, k3, k4

PoolAndSpare == << <<k1, k2>>, <<k3>> >>
SinglePools == << <<k1>>, <<k2>> >>

NoHeaderOnly == {NoHeader}
NoneOrRefused == {NoHeader, BadHeader}
RequestSymmetry == Permutations(Requests)
=============================================================================

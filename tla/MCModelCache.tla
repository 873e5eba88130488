---------------------------- MODULE MCModelCache ----------------------------
(* Instances of ModelCache. *)
EXTENDS ModelCache, TLC
MCSymmetry == Permutations(Names) \cup Permutations(Shown) \cup Permutations(Admins)
=============================================================================

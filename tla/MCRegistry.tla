----------------------------- MODULE MCRegistry -----------------------------
(* An instance of ModelRegistry. *)
EXTENDS ModelRegistry, TLC
MCSymmetry == Permutations(Providers) \cup Permutations(Models) \cup Permutations(Admins)
=============================================================================

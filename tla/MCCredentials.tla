--------------------------- MODULE MCCredentials ---------------------------
(* Instances of Credentials. *)
EXTENDS Credentials, TLC
MCSymmetry == Permutations(Tokens) \cup Permutations(Keys) \cup Permutations(Requests)
=============================================================================

----------------------------- MODULE MCAccounts -----------------------------
(* Instances of Accounts. *)
EXTENDS Accounts, TLC
CONSTANTS r1, r2, g1, e1, e2, i0, i1, i2

MCPrimaryEmail == g1 :> e2
MCSymmetry == Permutations(Requests) \cup Permutations({i1, i2}) \cup Permutations(Servers)
=============================================================================

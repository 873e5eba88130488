------------------------------- MODULE MCAuth -------------------------------
(* Instances of AuthCache. *)
EXTENDS AuthCache
=============================================================================

------------------------------ MODULE MCStream ------------------------------
(* An instance of StreamRelay. *)
EXTENDS StreamRelay
=============================================================================

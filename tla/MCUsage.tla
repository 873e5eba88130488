------------------------------ MODULE MCUsage ------------------------------
(* Instances of UsageBuffer. *)
EXTENDS UsageBuffer
=============================================================================

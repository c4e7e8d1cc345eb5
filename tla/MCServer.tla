------------------------------ MODULE MCServer ------------------------------
(* Finite instances of Server. *)
EXTENDS Server
=============================================================================

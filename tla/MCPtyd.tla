------------------------------- MODULE MCPtyd -------------------------------
(* Ptyd for TLC. *)
EXTENDS Ptyd
=============================================================================

--------------------------- MODULE MCPtydHandoff ----------------------------
(* PtydHandoff for TLC. *)
EXTENDS PtydHandoff
=============================================================================

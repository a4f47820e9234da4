----------------------------- MODULE MCIntercom -----------------------------
(* Intercom for TLC: one tab with hooks, one that only has the tools. *)
EXTENDS Intercom
=============================================================================

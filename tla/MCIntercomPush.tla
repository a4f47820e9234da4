--------------------------- MODULE MCIntercomPush ---------------------------
(* IntercomPush for TLC. *)
EXTENDS IntercomPush
=============================================================================

--------------------------- MODULE MCRelayTunnel ----------------------------
(* RelayTunnel for TLC. *)
EXTENDS RelayTunnel
=============================================================================

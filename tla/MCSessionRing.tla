--------------------------- MODULE MCSessionRing ----------------------------
(* Instance of SessionRing for TLC: chunks up to one byte longer than the   *)
(* ring, so that a chunk can fit, cut the head, drop several chunks, or     *)
(* replace everything and be cut itself.                                    *)
EXTENDS SessionRing
=============================================================================

----------------------------- MODULE ByteWindow -----------------------------
(***************************************************************************)
(* What a terminal's replay memory promises: the last Cap bytes the        *)
(* terminal printed, in order, whatever sizes they arrived in.             *)
(***************************************************************************)
EXTENDS Naturals, Sequences, SequencesExt

CONSTANTS Byte, Cap, MaxChunk

VARIABLE window

Chunk == UNION {[1..n -> Byte] : n \in 1..MaxChunk}

LastCap(s) == IF Len(s) <= Cap THEN s ELSE SubSeq(s, Len(s) - Cap + 1, Len(s))

Init == window = <<>>

Append1(c) == window' = LastCap(window \o c)

Next == \E c \in Chunk : Append1(c)

Spec == Init /\ [][Next]_window
=============================================================================

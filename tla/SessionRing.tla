---------------------------- MODULE SessionRing -----------------------------
(***************************************************************************)
(* The per-session byte ring of the PTY daemon (packages/ptyd/src/store.ts)*)
(* as the code keeps it: a list of chunks and a separate byte count that   *)
(* the trim loop maintains by hand.                                        *)
(***************************************************************************)
EXTENDS Naturals, Sequences, SequencesExt

CONSTANTS Byte,      (* the byte values told apart                          *)
          Cap,       (* bufferCap                                           *)
          MaxChunk   (* longest chunk one read delivers (bound)             *)

ASSUME RingAssumption == Cap \in Nat \ {0} /\ MaxChunk \in Nat \ {0}

VARIABLES buffer,       (* Session.buffer: the chunks, oldest first         *)
          bufferBytes   (* Session.bufferBytes                              *)

vars == <<buffer, bufferBytes>>

\* A read of a pty never delivers an empty chunk.
Chunk == UNION {[1..n -> Byte] : n \in 1..MaxChunk}

\* Mutant of CutHead: an off-by-one cut that drops one byte too few.
CutHeadOneShort(head, excess) == SubSeq(head, excess, Len(head))

\* head.subarray(excess): the oldest bytes of a chunk go, the newest stay.
CutHead(head, excess) == SubSeq(head, excess + 1, Len(head))

\* The condition of appendOutput's while loop, of a pair <<buffer, bufferBytes>>.
OverCap(st) == st[2] > Cap /\ st[1] # <<>>

\* The loop's body: drop the oldest chunk, or cut it when it is too long to drop.
TrimHead(st) ==
  LET head   == Head(st[1])
      rest   == Tail(st[1])
      excess == st[2] - Cap
  IN  IF Len(head) <= excess
      THEN <<rest, st[2] - Len(head)>>
      ELSE <<<<CutHead(head, excess)>> \o rest, st[2] - excess>>

\* The whole loop. Each turn drops a chunk or is the last, so that there are
\* at most as many turns as chunks: after[k] is the ring after k of them.
Trim(buf, bytes) ==
  LET after[k \in 0..Len(buf)] ==
        IF k = 0 THEN <<buf, bytes>>
        ELSE IF OverCap(after[k - 1]) THEN TrimHead(after[k - 1])
        ELSE after[k - 1]
  IN  after[Len(buf)]

Replay == FlattenSeq(buffer)

Init == buffer = <<>> /\ bufferBytes = 0

AppendOutput(c) ==
  LET t == Trim(Append(buffer, c), bufferBytes + Len(c))
  IN  buffer' = t[1] /\ bufferBytes' = t[2]

Next == \E c \in Chunk : AppendOutput(c)

Spec == Init /\ [][Next]_vars
-----------------------------------------------------------------------------
Window == INSTANCE ByteWindow WITH window <- Replay

(* The chunk list implements the plain "last Cap bytes" window: what a      *)
(* subscriber is replayed is exactly the newest output, never a hole.       *)
RingImplementsWindow == Window!Spec
=============================================================================

----------------------------- MODULE RingProofs -----------------------------
(***************************************************************************)
(* Proofs about the byte ring of a session (SessionRing), for any bytes,   *)
(* any cap and chunks of any length: the chunk list and its own count   *)
(* implement the plain window of ByteWindow.                               *)
(*                                                                         *)
(* The loop and the concatenation are recursive functions, so the proofs   *)
(* are inductions over the natural numbers.  An induction is carried by    *)
(* the set of the numbers at which the claim holds (NatSetInduction), and  *)
(* that a recursive function exists at all by BoundedRecursion.            *)
(***************************************************************************)
EXTENDS SessionRing, Integers, SequenceTheorems, WellFoundedInduction, TLAPS

(* Induction, for a set: a set with 0 and with the successor of each of its  *)
(* numbers holds all of them. A least number outside would contradict WFMin. *)
LEMMA NatSetInduction ==
  ASSUME NEW T, 0 \in T, \A n \in Nat : n \in T => n + 1 \in T
  PROVE  \A n \in Nat : n \in T
<1> DEFINE U == {n \in Nat : n \notin T}
           R == OpToRel(<, Nat)
<1>1. \A z : z \in R <=> z \in {y \in Nat \X Nat : y[1] < y[2]}
  BY DEF OpToRel
<1>2. SUFFICES ASSUME U # {} PROVE FALSE
  OBVIOUS
<1>3. U \subseteq Nat
  OBVIOUS
<1>4. IsWellFoundedOn(R, Nat)
  BY NatLessThanWellFounded
<1>5. \A x, y \in Nat : x < y => <<x, y>> \in R
  BY <1>1
<1> HIDE DEF R
<1> HIDE DEF U
<1>6. PICK x \in U : \A y \in U : ~ (<<y, x>> \in R)
  BY <1>2, <1>3, <1>4, WFMin
<1> USE DEF U
<1>7. x # 0 /\ x - 1 \in Nat /\ x - 1 < x /\ x = (x - 1) + 1
  BY <1>6
<1>8. x - 1 \in U
  BY <1>6, <1>7
<1> QED
  BY <1>5, <1>6, <1>7, <1>8

(* g is computed from base by N turns of F.                                  *)
Recurses(g, N, F, base) ==
  \A k \in 0..N : g[k] = IF k = 0 THEN base ELSE F[k][g[k - 1]]

(* Every F and base determine such a function.                               *)
LEMMA BoundedRecursion ==
  ASSUME NEW S, NEW N \in Nat, NEW F \in [Nat -> [S -> S]], NEW base \in S
  PROVE  \E g \in [0..N -> S] : Recurses(g, N, F, base)
<1> DEFINE Good(g, n) ==
             \A k \in 0..n : g[k] = IF k = 0 THEN base ELSE F[k][g[k - 1]]
           T == {n \in Nat : \E g \in [0..n -> S] : Good(g, n)}
<1>1. 0 \in T
  <2> DEFINE g == [k \in 0..0 |-> base]
  <2>1. g \in [0..0 -> S]
    OBVIOUS
  <2>2. Good(g, 0)
    OBVIOUS
  <2> QED
    BY <2>1, <2>2
<1>2. ASSUME NEW n \in Nat, n \in T PROVE n + 1 \in T
  <2>1. PICK g \in [0..n -> S] : Good(g, n)
    BY <1>2
  <2>2. /\ g[0] = base
        /\ \A k \in 1..n : g[k] = F[k][g[k - 1]]
    <3>1. 0 \in 0..n /\ \A k \in 1..n : k \in 0..n /\ k # 0
      OBVIOUS
    <3> QED
      BY <2>1, <3>1
  <2> DEFINE h == [k \in 0..(n + 1) |-> IF k = n + 1 THEN F[n + 1][g[n]] ELSE g[k]]
  <2>3. g[n] \in S /\ F[n + 1][g[n]] \in S
    BY <2>1
  <2>4. h \in [0..(n + 1) -> S]
    BY <2>1, <2>3
  <2>5. /\ DOMAIN h = 0..(n + 1)
        /\ h[0] = base
        /\ \A k \in 0..n : h[k] = g[k]
        /\ h[n + 1] = F[n + 1][g[n]]
    BY <2>2
  <2> HIDE DEF h
  <2>6. \A k \in 0..(n + 1) : h[k] = IF k = 0 THEN base ELSE F[k][h[k - 1]]
    <3> TAKE k \in 0..(n + 1)
    <3>1. CASE k = 0
      BY <3>1, <2>5
    <3>2. CASE k \in 1..n
      <4>1. k - 1 \in 0..n /\ k \in 0..n /\ k # 0
        BY <3>2
      <4> QED
        BY <4>1, <3>2, <2>2, <2>5
    <3>3. CASE k = n + 1
      <4>1. k - 1 = n /\ n \in 0..n /\ k # 0
        BY <3>3
      <4> QED
        BY <4>1, <3>3, <2>5
    <3> QED
      BY <3>1, <3>2, <3>3
  <2>7. Good(h, n + 1)
    BY <2>4, <2>6
  <2>8. \E f \in [0..(n + 1) -> S] : Good(f, n + 1)
    BY <2>4, <2>7
  <2> HIDE DEF Good
  <2> QED
    BY <2>8
<1>3. N \in T
  <2> HIDE DEF T
  <2> QED
    BY <1>1, <1>2, NatSetInduction
<1> QED
  BY <1>3 DEF Recurses

(* g[i] is the concatenation of the first i chunks of s (as in FlattenSeq).  *)
Flat(g, s) ==
  g = [i \in 1..Len(s) |-> IF i = 1 THEN s[i] ELSE g[i - 1] \o s[i]]

(* There is such a function, whatever the chunks.                            *)
LEMMA FlatExists ==
  ASSUME NEW B, NEW s \in Seq(Seq(B))
  PROVE  \E g \in [1..Len(s) -> Seq(B)] : Flat(g, s)
<1> DEFINE S == Seq(B)
           part(k) == IF k \in 1..Len(s) THEN s[k] ELSE <<>>
           F == [k \in Nat |-> [x \in S |-> IF k = 1 THEN part(1) ELSE x \o part(k)]]
<1>1. \A k \in Nat : part(k) \in S
  <2> TAKE k \in Nat
  <2>1. \A i \in 1..Len(s) : s[i] \in S
    BY ElementOfSeq
  <2>2. <<>> \in S
    BY EmptySeq
  <2> QED
    BY <2>1, <2>2
<1> HIDE DEF part
<1>2. \A x, y \in S : x \o y \in S
  BY ConcatProperties
<1> HIDE DEF S
<1>3. F \in [Nat -> [S -> S]]
  BY <1>1, <1>2
<1>4. \A k \in Nat, x \in S : F[k][x] = IF k = 1 THEN part(1) ELSE x \o part(k)
  OBVIOUS
<1> HIDE DEF F
<1>5. Len(s) \in Nat
  BY LenProperties
<1> DEFINE N == Len(s)
           base == part(0)
<1>a. N \in Nat /\ base \in S
  BY <1>1, <1>5
<1> HIDE DEF N, base
<1>b. \E g \in [0..N -> S] : Recurses(g, N, F, base)
  BY <1>3, <1>a, BoundedRecursion
<1>6. PICK g \in [0..Len(s) -> S] :
        \A k \in 0..Len(s) : g[k] = IF k = 0 THEN base ELSE F[k][g[k - 1]]
  BY <1>b DEF N, Recurses
<1> DEFINE h == [i \in 1..Len(s) |-> g[i]]
<1>7. h \in [1..Len(s) -> S]
  BY <1>5, <1>6
<1>8. \A i \in 1..Len(s) : h[i] = IF i = 1 THEN s[i] ELSE h[i - 1] \o s[i]
  <2> TAKE i \in 1..Len(s)
  <2>1. i \in Nat /\ i - 1 \in 0..Len(s) /\ i \in 0..Len(s) /\ i # 0
    BY <1>5
  <2>2. h[i] = F[i][g[i - 1]]
    BY <2>1, <1>6
  <2>3. g[i - 1] \in S
    BY <2>1, <1>6
  <2>4. part(i) = s[i]
    BY DEF part
  <2>5. CASE i = 1
    BY <2>1, <2>2, <2>3, <2>4, <2>5, <1>4
  <2>6. CASE i # 1
    <3>1. h[i - 1] = g[i - 1]
      BY <2>6, <1>5
    <3> QED
      BY <3>1, <2>1, <2>2, <2>3, <2>4, <2>6, <1>4
  <2> QED
    BY <2>5, <2>6
<1>9. Flat(h, s)
  BY <1>7, <1>8 DEF Flat
<1> QED
  BY <1>7, <1>9 DEF S

(* There is only one.                                                        *)
LEMMA FlatUnique ==
  ASSUME NEW B, NEW s \in Seq(Seq(B)), NEW f, NEW g, Flat(f, s), Flat(g, s)
  PROVE  f = g
<1> DEFINE T == {i \in Nat : i \in 1..Len(s) => f[i] = g[i]}
<1>1. Len(s) \in Nat
  BY LenProperties
<1>2. /\ \A i \in 1..Len(s) : f[i] = IF i = 1 THEN s[i] ELSE f[i - 1] \o s[i]
      /\ \A i \in 1..Len(s) : g[i] = IF i = 1 THEN s[i] ELSE g[i - 1] \o s[i]
  BY DEF Flat
<1>3. 0 \in T
  OBVIOUS
<1>4. ASSUME NEW i \in Nat, i \in T PROVE i + 1 \in T
  <2>1. SUFFICES ASSUME i + 1 \in 1..Len(s) PROVE f[i + 1] = g[i + 1]
    OBVIOUS
  <2>2. CASE i = 0
    BY <2>1, <2>2, <1>2
  <2>3. CASE i # 0
    <3>1. f[i] = g[i] /\ (i + 1) - 1 = i /\ i + 1 # 1
      BY <1>1, <1>4, <2>1, <2>3
    <3> QED
      BY <3>1, <2>1, <1>2
  <2> QED
    BY <2>2, <2>3
<1>5. \A i \in Nat : i \in T
  <2> HIDE DEF T
  <2> QED
    BY <1>3, <1>4, NatSetInduction
<1>6. \A i \in 1..Len(s) : f[i] = g[i]
  BY <1>5
<1>7. /\ f = [i \in 1..Len(s) |-> f[i]]
      /\ g = [i \in 1..Len(s) |-> g[i]]
  BY DEF Flat
<1> QED
  BY <1>6, <1>7

(* What Replay returns (FlattenSeq) is its last value.                       *)
LEMMA FlattenSeqIsFlat ==
  ASSUME NEW B, NEW s \in Seq(Seq(B)), NEW g, s # <<>>, Flat(g, s)
  PROVE  FlattenSeq(s) = g[Len(s)]
<1> DEFINE f == CHOOSE h : Flat(h, s)
<1>1. Flat(f, s)
  OBVIOUS
<1>2. Len(s) # 0
  BY EmptySeq
<1>3. FlattenSeq(s) = f[Len(s)]
  BY <1>2 DEF FlattenSeq, Flat
<1> HIDE DEF f
<1> QED
  BY <1>1, <1>3, FlatUnique

(* The replay of an empty ring is empty.                                     *)
LEMMA FlattenEmpty == FlattenSeq(<<>>) = <<>>
  BY EmptySeq DEF FlattenSeq

(* The replay of chunks of bytes is a sequence of bytes.                     *)
LEMMA FlattenType ==
  ASSUME NEW B, NEW s \in Seq(Seq(B))
  PROVE  FlattenSeq(s) \in Seq(B)
<1>1. CASE s = <<>>
  BY <1>1, FlattenEmpty, EmptySeq
<1>2. CASE s # <<>>
  <2>1. PICK g \in [1..Len(s) -> Seq(B)] : Flat(g, s)
    BY FlatExists
  <2>2. Len(s) \in 1..Len(s)
    BY <1>2, EmptySeq, LenProperties
  <2>3. FlattenSeq(s) = g[Len(s)]
    BY <1>2, <2>1, FlattenSeqIsFlat
  <2> QED
    BY <2>2, <2>3
<1> QED
  BY <1>1, <1>2

(* Pushing a chunk appends its bytes to the replay.                          *)
LEMMA FlattenAppend ==
  ASSUME NEW B, NEW s \in Seq(Seq(B)), NEW c \in Seq(B)
  PROVE  FlattenSeq(Append(s, c)) = FlattenSeq(s) \o c
<1>1. PICK t \in Seq(Seq(B)) : t = Append(s, c)
  BY AppendProperties
<1>2. /\ t # <<>> /\ Len(t) = Len(s) + 1
      /\ \A i \in 1..Len(s) : t[i] = s[i]
      /\ t[Len(s) + 1] = c
      /\ Len(s) \in Nat
  BY <1>1, AppendProperties, LenProperties
<1>3. PICK g \in [1..Len(t) -> Seq(B)] : Flat(g, t)
  BY FlatExists
<1>4. \A i \in 1..Len(t) : g[i] = IF i = 1 THEN t[i] ELSE g[i - 1] \o t[i]
  BY <1>3 DEF Flat
<1>5. FlattenSeq(t) = g[Len(t)]
  BY <1>2, <1>3, FlattenSeqIsFlat
<1>6. CASE s = <<>>
  <2>1. Len(s) = 0 /\ FlattenSeq(s) = <<>>
    BY <1>6, EmptySeq, FlattenEmpty
  <2>2. FlattenSeq(t) = c
    BY <2>1, <1>2, <1>4, <1>5
  <2> QED
    BY <2>1, <2>2, <1>1, ConcatEmptySeq
<1>7. CASE s # <<>>
  <2> DEFINE h == [i \in 1..Len(s) |-> g[i]]
  <2>1. Len(s) # 0
    BY <1>7, <1>2, EmptySeq
  <2>2. \A i \in 1..Len(s) : h[i] = IF i = 1 THEN s[i] ELSE h[i - 1] \o s[i]
    <3> TAKE i \in 1..Len(s)
    <3>1. i \in 1..Len(t) /\ (i # 1 => i - 1 \in 1..Len(s)) /\ t[i] = s[i]
      BY <1>2
    <3> QED
      BY <3>1, <1>4
  <2>3. Flat(h, s)
    BY <2>2 DEF Flat
  <2>4. FlattenSeq(s) = h[Len(s)]
    <3> HIDE DEF h
    <3> QED
      BY <2>3, <1>7, FlattenSeqIsFlat
  <2>5. h[Len(s)] = g[Len(s)]
    BY <2>1, <1>2
  <2>6. g[Len(t)] = g[Len(s)] \o c
    <3>1. Len(t) \in 1..Len(t) /\ Len(t) # 1 /\ Len(t) - 1 = Len(s)
      BY <2>1, <1>2
    <3>2. t[Len(t)] = c
      BY <1>2
    <3> QED
      BY <3>1, <3>2, <1>4
  <2> QED
    BY <2>4, <2>5, <2>6, <1>1, <1>5
<1> QED
  BY <1>6, <1>7

(* A chunk in front puts its bytes in front.                                 *)
LEMMA FlattenCons ==
  ASSUME NEW B, NEW h \in Seq(B), NEW s \in Seq(Seq(B))
  PROVE  FlattenSeq(<<h>> \o s) = h \o FlattenSeq(s)
<1> DEFINE S == Seq(B)
           T == {n \in Nat : \A x \in Seq(S) :
                   Len(x) = n => FlattenSeq(<<h>> \o x) = h \o FlattenSeq(x)}
<1>1. <<h>> \in Seq(S) /\ <<h>> = Append(<<>>, h) /\ <<>> \in Seq(S)
  OBVIOUS
<1>2. 0 \in T
  <2>1. SUFFICES ASSUME NEW x \in Seq(S), Len(x) = 0
                 PROVE  FlattenSeq(<<h>> \o x) = h \o FlattenSeq(x)
    OBVIOUS
  <2>2. x = <<>>
    BY <2>1, EmptySeq
  <2>3. <<h>> \o x = Append(<<>>, h)
    BY <2>2, <1>1, ConcatEmptySeq
  <2>4. FlattenSeq(Append(<<>>, h)) = FlattenSeq(<<>>) \o h
    BY <1>1, FlattenAppend
  <2>5. <<>> \o h = h /\ h \o <<>> = h
    BY ConcatEmptySeq
  <2> QED
    BY <2>2, <2>3, <2>4, <2>5, FlattenEmpty
<1>3. ASSUME NEW n \in Nat, n \in T PROVE n + 1 \in T
  <2>0. n + 1 \in Nat
    OBVIOUS
  <2>1. SUFFICES ASSUME NEW x \in Seq(S), Len(x) = n + 1
                 PROVE  FlattenSeq(<<h>> \o x) = h \o FlattenSeq(x)
    BY <2>0, Zenon
  <2>2. x # <<>>
    BY <2>1, EmptySeq
  <2>3. PICK y \in Seq(S), e \in S : x = Append(y, e)
    BY <2>2, SequenceEmptyOrAppend
  <2>4. Len(y) = n
    BY <2>1, <2>3, AppendProperties, LenProperties
  <2>5. FlattenSeq(<<h>> \o y) = h \o FlattenSeq(y)
    BY <2>4, <1>3
  <2>6. <<h>> \o y \in Seq(S)
    BY <1>1, ConcatProperties
  <2>7. <<h>> \o x = Append(<<h>> \o y, e)
    <3>1. x = y \o <<e>> /\ Append(<<h>> \o y, e) = (<<h>> \o y) \o <<e>>
      BY <2>3, <2>6, AppendIsConcat
    <3>2. <<e>> \in Seq(S)
      OBVIOUS
    <3>3. (<<h>> \o y) \o <<e>> = <<h>> \o (y \o <<e>>)
      BY <1>1, <3>2, ConcatAssociative, SMTT(30)
    <3> QED
      BY <3>1, <3>3
  <2>8. FlattenSeq(Append(<<h>> \o y, e)) = FlattenSeq(<<h>> \o y) \o e
    BY <2>6, FlattenAppend
  <2>9. FlattenSeq(Append(y, e)) = FlattenSeq(y) \o e
    BY FlattenAppend
  <2>10. (h \o FlattenSeq(y)) \o e = h \o (FlattenSeq(y) \o e)
    <3>1. FlattenSeq(y) \in S
      BY FlattenType
    <3> QED
      BY <3>1, ConcatAssociative, SMTT(30)
  <2> QED
    BY <2>3, <2>5, <2>7, <2>8, <2>9, <2>10
<1>4. \A n \in Nat : n \in T
  <2> HIDE DEF T
  <2> QED
    BY <1>2, <1>3, NatSetInduction
<1> QED
  BY <1>4, LenProperties

(* The window of enough bytes is their last Cap.                             *)
LEMMA LastCapLong ==
  ASSUME NEW x \in Seq(Byte), Cap <= Len(x)
  PROVE  Window!LastCap(x) = SubSeq(x, Len(x) - Cap + 1, Len(x))
<1>1. Len(x) \in Nat /\ Cap \in Nat
  BY LenProperties, RingAssumption
<1>2. CASE Len(x) <= Cap
  <2>1. Len(x) - Cap + 1 = 1
    BY <1>1, <1>2
  <2> QED
    BY <2>1, <1>2, SubSeqFull DEF Window!LastCap
<1>3. CASE ~ (Len(x) <= Cap)
  BY <1>3 DEF Window!LastCap
<1> QED
  BY <1>2, <1>3

(* Bytes in front of enough others do not count.                             *)
LEMMA LastCapOfConcat ==
  ASSUME NEW a \in Seq(Byte), NEW x \in Seq(Byte), Cap <= Len(x)
  PROVE  Window!LastCap(a \o x) = Window!LastCap(x)
<1>1. PICK la \in Nat, lx \in Nat : la = Len(a) /\ lx = Len(x)
  BY LenProperties
<1>2. Cap \in Nat \ {0} /\ Cap <= lx
  BY <1>1, RingAssumption
<1>3. a \o x \in Seq(Byte) /\ Len(a \o x) = la + lx
  BY <1>1, ConcatProperties
<1>4. PICK m \in Nat : m = lx - Cap + 1
  BY <1>2
<1>5. m + la \in (la + 1)..(la + lx) /\ lx + la \in (la + 1)..(la + lx)
  BY <1>2, <1>4
<1>6. SubSeq(a \o x, m + la, lx + la) = SubSeq(x, m + la - la, lx + la - la)
  BY <1>1, <1>5, SubSeqOfConcat2
<1>7. /\ m + la - la = m /\ lx + la - la = lx
      /\ m + la = la + lx - Cap + 1
      /\ lx + la = la + lx
      /\ Cap <= la + lx
  BY <1>2, <1>4
<1>8. Window!LastCap(a \o x) = SubSeq(a \o x, m + la, lx + la)
  <2>1. PICK y \in Seq(Byte) : y = a \o x
    BY <1>3
  <2>2. Len(y) = la + lx /\ Cap <= Len(y)
    BY <2>1, <1>3, <1>7
  <2>3. Window!LastCap(y) = SubSeq(y, Len(y) - Cap + 1, Len(y))
    BY <2>2, LastCapLong
  <2>4. Len(y) - Cap + 1 = m + la /\ Len(y) = lx + la
    BY <2>2, <1>2, <1>7
  <2> QED
    BY <2>1, <2>3, <2>4
<1>9. Window!LastCap(x) = SubSeq(x, m, lx)
  BY <1>1, <1>2, <1>4, LastCapLong
<1> QED
  BY <1>6, <1>7, <1>8, <1>9

(* The chunk lists with a correct count.                                     *)
RingState == {st \in Seq(Seq(Byte)) \X Nat : st[2] = Len(FlattenSeq(st[1]))}

(* The replay is the oldest chunk and the replay of the rest.                *)
LEMMA FlattenHead ==
  ASSUME NEW B, NEW s \in Seq(Seq(B)), s # <<>>
  PROVE  FlattenSeq(s) = Head(s) \o FlattenSeq(Tail(s))
<1>1. Head(s) \in Seq(B) /\ Tail(s) \in Seq(Seq(B)) /\ Len(s) \in Nat \ {0}
  BY HeadTailProperties, EmptySeq
<1>2. s = <<Head(s)>> \o Tail(s)
  <2>1. 1 \in 1..Len(s) /\ Len(s) \in 1..Len(s) /\ s[1] = Head(s)
    BY <1>1
  <2>2. SubSeq(s, 1, Len(s)) = <<s[1]>> \o SubSeq(s, 1 + 1, Len(s))
    BY <2>1, SubSeqRecursiveFirst
  <2>3. SubSeq(s, 1, Len(s)) = s /\ Tail(s) = SubSeq(s, 2, Len(s))
    BY SubSeqFull, TailIsSubSeq
  <2> QED
    BY <2>1, <2>2, <2>3
<1>3. FlattenSeq(<<Head(s)>> \o Tail(s)) = Head(s) \o FlattenSeq(Tail(s))
  BY <1>1, FlattenCons
<1> QED
  BY <1>2, <1>3

(* A cut takes exactly e bytes off the front of a chunk.                     *)
LEMMA CutHeadSplits ==
  ASSUME NEW head \in Seq(Byte), NEW e \in Nat, e < Len(head)
  PROVE  /\ CutHead(head, e) \in Seq(Byte)
         /\ Len(CutHead(head, e)) = Len(head) - e
         /\ \E gone \in Seq(Byte) : head = gone \o CutHead(head, e)
<1>1. PICK n \in Nat : n = Len(head)
  BY LenProperties
<1>2. /\ 1 \in Int /\ e \in Int /\ e + 1 \in Int /\ n \in Int
      /\ e + 1 <= n /\ n - (e + 1) + 1 = n - e
      /\ 1 \in 1..(n + 1) /\ e \in (1 - 1)..n /\ n \in e..n
  BY <1>1
<1>3. /\ \A i \in 1..e : head[i] \in Byte
      /\ \A i \in (e + 1)..n : head[i] \in Byte
  <2>1. \A i \in 1..n : head[i] \in Byte
    BY <1>1, ElementOfSeq
  <2> QED
    BY <2>1, <1>1
<1>4. SubSeq(head, 1, e) \in Seq(Byte)
  BY <1>2, <1>3, SubSeqProperties
<1>5. /\ SubSeq(head, e + 1, n) \in Seq(Byte)
      /\ Len(SubSeq(head, e + 1, n)) = n - (e + 1) + 1
  BY <1>2, <1>3, SubSeqProperties
<1>6. SubSeq(head, 1, e) \o SubSeq(head, e + 1, n) = SubSeq(head, 1, n)
  BY <1>1, <1>2, ConcatAdjacentSubSeq
<1>7. SubSeq(head, 1, n) = head
  BY <1>1, SubSeqFull
<1> QED
  BY <1>1, <1>2, <1>4, <1>5, <1>6, <1>7 DEF CutHead

(* A turn of the loop keeps the count correct and the newest Cap bytes; it   *)
(* drops a chunk or is the last turn.                                        *)
LEMMA TrimHeadKeeps ==
  ASSUME NEW st \in RingState, OverCap(st)
  PROVE  /\ TrimHead(st) \in RingState
         /\ Window!LastCap(FlattenSeq(TrimHead(st)[1]))
              = Window!LastCap(FlattenSeq(st[1]))
         /\ \/ TrimHead(st)[2] <= Cap
            \/ Len(TrimHead(st)[1]) = Len(st[1]) - 1
<1>1. PICK buf \in Seq(Seq(Byte)), n \in Nat :
        st = <<buf, n>> /\ n = Len(FlattenSeq(buf)) /\ n > Cap /\ buf # <<>>
  BY DEF RingState, OverCap
<1>2. PICK head \in Seq(Byte), rest \in Seq(Seq(Byte)) :
        head = Head(buf) /\ rest = Tail(buf) /\ Len(rest) = Len(buf) - 1
  BY <1>1, HeadTailProperties
<1>3. PICK all \in Seq(Byte), old \in Seq(Byte) :
        all = FlattenSeq(buf) /\ old = FlattenSeq(rest)
  BY FlattenType
<1>4. all = head \o old
  BY <1>1, <1>2, <1>3, FlattenHead
<1>5. PICK lh \in Nat, lo \in Nat : lh = Len(head) /\ lo = Len(old)
  BY LenProperties
<1>6. n = lh + lo
  <2>1. Len(head \o old) = Len(head) + Len(old)
    BY ConcatProperties
  <2> QED
    BY <2>1, <1>1, <1>3, <1>4, <1>5
<1>7. PICK excess \in Nat : excess = n - Cap /\ excess # 0
  <2>1. n - Cap \in Nat /\ n - Cap # 0
    BY <1>1, RingAssumption
  <2> QED
    BY <2>1
<1>8. Cap \in Nat \ {0} /\ n - excess = Cap
  BY <1>7, RingAssumption
<1>9. CASE lh <= excess
  <2>1. TrimHead(st) = <<rest, n - lh>>
    BY <1>1, <1>2, <1>5, <1>7, <1>9 DEF TrimHead
  <2>2. n - lh = lo /\ Cap <= lo
    BY <1>6, <1>7, <1>8, <1>9
  <2>3. <<rest, lo>> \in RingState
    BY <1>3, <1>5 DEF RingState
  <2>4. Window!LastCap(head \o old) = Window!LastCap(old)
    BY <1>5, <2>2, LastCapOfConcat
  <2>5. TrimHead(st) = <<rest, lo>>
    BY <2>1, <2>2
  <2>6. TrimHead(st)[1] = rest /\ st[1] = buf
    BY <2>5, <1>1
  <2>7. Window!LastCap(FlattenSeq(rest)) = Window!LastCap(FlattenSeq(buf))
    BY <2>4, <1>3, <1>4
  <2> QED
    BY <2>3, <2>5, <2>6, <2>7, <1>2
<1>10. CASE ~ (lh <= excess)
  <2>1. PICK kept \in Seq(Byte), gone \in Seq(Byte) :
          /\ kept = CutHead(head, excess) /\ Len(kept) = lh - excess
          /\ head = gone \o kept
    <3>1. excess < Len(head)
      BY <1>5, <1>10
    <3> QED
      BY <3>1, <1>5, CutHeadSplits
  <2>2. TrimHead(st) = <<<<kept>> \o rest, Cap>>
    BY <1>1, <1>2, <1>5, <1>7, <1>8, <1>10, <2>1 DEF TrimHead
  <2>3. PICK cut \in Seq(Seq(Byte)) : cut = <<kept>> \o rest
    <3>1. <<kept>> \in Seq(Seq(Byte))
      OBVIOUS
    <3> QED
      BY <3>1, ConcatProperties
  <2>4. FlattenSeq(cut) = kept \o old
    BY <2>3, <1>3, FlattenCons
  <2>5. PICK new \in Seq(Byte) : new = kept \o old /\ Len(new) = Cap
    <3>1. kept \o old \in Seq(Byte) /\ Len(kept \o old) = Len(kept) + Len(old)
      BY ConcatProperties
    <3>2. (lh - excess) + lo = Cap
      BY <1>6, <1>8
    <3> QED
      BY <3>1, <3>2, <2>1, <1>5
  <2>6. all = gone \o new
    <3>1. (gone \o kept) \o old = gone \o (kept \o old)
      BY ConcatAssociative, SMTT(30)
    <3> QED
      BY <3>1, <2>1, <2>5, <1>4
  <2>7. <<cut, Cap>> \in RingState
    BY <2>4, <2>5, <1>8 DEF RingState
  <2>8. Window!LastCap(gone \o new) = Window!LastCap(new)
    <3>1. Cap <= Len(new)
      BY <2>5, <1>8
    <3> QED
      BY <3>1, LastCapOfConcat
  <2>9. TrimHead(st) = <<cut, Cap>>
    BY <2>2, <2>3
  <2>10. TrimHead(st)[1] = cut /\ TrimHead(st)[2] <= Cap /\ st[1] = buf
    BY <2>9, <1>1, <1>8
  <2>11. Window!LastCap(FlattenSeq(cut)) = Window!LastCap(FlattenSeq(buf))
    BY <2>4, <2>5, <2>6, <2>8, <1>3
  <2> QED
    BY <2>7, <2>9, <2>10, <2>11
<1> QED
  BY <1>9, <1>10

(* f[k] is the ring after k turns of the loop (the function inside Trim).    *)
Loop(f, buf, bytes) ==
  f = [k \in 0..Len(buf) |->
         IF k = 0 THEN <<buf, bytes>>
         ELSE IF OverCap(f[k - 1]) THEN TrimHead(f[k - 1])
         ELSE f[k - 1]]

(* There is such a function, and its values are correct rings.               *)
LEMMA LoopExists ==
  ASSUME NEW buf \in Seq(Seq(Byte)), NEW bytes \in Nat,
         bytes = Len(FlattenSeq(buf))
  PROVE  \E f \in [0..Len(buf) -> RingState] : Loop(f, buf, bytes)
<1>1. PICK N \in Nat : N = Len(buf)
  BY LenProperties
<1>2. PICK base \in RingState : base = <<buf, bytes>>
  BY DEF RingState
<1> DEFINE turn == [st \in RingState |-> IF OverCap(st) THEN TrimHead(st) ELSE st]
           F == [k \in Nat |-> turn]
<1>3. F \in [Nat -> [RingState -> RingState]]
  BY TrimHeadKeeps
<1>4. \A k \in Nat, st \in RingState :
        F[k][st] = IF OverCap(st) THEN TrimHead(st) ELSE st
  OBVIOUS
<1> HIDE DEF F
<1>5. PICK f \in [0..N -> RingState] : Recurses(f, N, F, base)
  BY <1>3, BoundedRecursion
<1>6. \A k \in 0..N : f[k] = IF k = 0 THEN <<buf, bytes>>
                             ELSE IF OverCap(f[k - 1]) THEN TrimHead(f[k - 1])
                             ELSE f[k - 1]
  <2> TAKE k \in 0..N
  <2>1. f[k] = IF k = 0 THEN base ELSE F[k][f[k - 1]]
    BY <1>5 DEF Recurses
  <2>2. k \in Nat /\ (k # 0 => k - 1 \in 0..N)
    OBVIOUS
  <2>3. k # 0 => f[k - 1] \in RingState
    BY <2>2
  <2> QED
    BY <2>1, <2>2, <2>3, <1>2, <1>4
<1>7. Loop(f, buf, bytes)
  BY <1>1, <1>6 DEF Loop
<1> QED
  BY <1>1, <1>7

(* There is only one.                                                        *)
LEMMA LoopUnique ==
  ASSUME NEW buf \in Seq(Seq(Byte)), NEW bytes, NEW f, NEW g,
         Loop(f, buf, bytes), Loop(g, buf, bytes)
  PROVE  f = g
<1> DEFINE T == {k \in Nat : k \in 0..Len(buf) => f[k] = g[k]}
<1>1. Len(buf) \in Nat
  BY LenProperties
<1>2. /\ \A k \in 0..Len(buf) : f[k] = IF k = 0 THEN <<buf, bytes>>
                                       ELSE IF OverCap(f[k - 1]) THEN TrimHead(f[k - 1])
                                       ELSE f[k - 1]
      /\ \A k \in 0..Len(buf) : g[k] = IF k = 0 THEN <<buf, bytes>>
                                       ELSE IF OverCap(g[k - 1]) THEN TrimHead(g[k - 1])
                                       ELSE g[k - 1]
  BY DEF Loop
<1>3. 0 \in T
  BY <1>1, <1>2
<1>4. ASSUME NEW k \in Nat, k \in T PROVE k + 1 \in T
  <2>1. SUFFICES ASSUME k + 1 \in 0..Len(buf) PROVE f[k + 1] = g[k + 1]
    OBVIOUS
  <2>2. f[k] = g[k] /\ (k + 1) - 1 = k /\ k + 1 # 0
    BY <1>1, <1>4, <2>1
  <2> QED
    BY <2>1, <2>2, <1>2
<1>5. \A k \in Nat : k \in T
  <2> HIDE DEF T
  <2> QED
    BY <1>3, <1>4, NatSetInduction
<1>6. \A k \in 0..Len(buf) : f[k] = g[k]
  BY <1>5
<1>7. /\ f = [k \in 0..Len(buf) |-> f[k]]
      /\ g = [k \in 0..Len(buf) |-> g[k]]
  BY DEF Loop
<1> QED
  BY <1>6, <1>7

(* Trim is its last value.                                                   *)
LEMMA TrimIsLoop ==
  ASSUME NEW buf \in Seq(Seq(Byte)), NEW bytes, NEW f, Loop(f, buf, bytes)
  PROVE  Trim(buf, bytes) = f[Len(buf)]
<1> DEFINE g == CHOOSE h : Loop(h, buf, bytes)
<1>1. Loop(g, buf, bytes)
  OBVIOUS
<1>2. Trim(buf, bytes) = g[Len(buf)]
  BY DEF Trim, Loop
<1> HIDE DEF g
<1> QED
  BY <1>1, <1>2, LoopUnique

(* The loop ends within one turn per chunk: what is left is within the cap,  *)
(* correctly counted, and is the window of what there was. By induction over *)
(* the turns: after k of them the loop has ended or dropped k chunks.        *)
LEMMA TrimKeepsLastCap ==
  ASSUME NEW buf \in Seq(Seq(Byte)), NEW bytes \in Nat,
         bytes = Len(FlattenSeq(buf))
  PROVE  /\ Trim(buf, bytes) \in RingState
         /\ Trim(buf, bytes)[2] <= Cap
         /\ FlattenSeq(Trim(buf, bytes)[1]) = Window!LastCap(FlattenSeq(buf))
<1>1. PICK f \in [0..Len(buf) -> RingState] : Loop(f, buf, bytes)
  BY LoopExists
<1>2. PICK N \in Nat : N = Len(buf)
  BY LenProperties
<1>3. \A k \in 0..N : f[k] = IF k = 0 THEN <<buf, bytes>>
                             ELSE IF OverCap(f[k - 1]) THEN TrimHead(f[k - 1])
                             ELSE f[k - 1]
  BY <1>1, <1>2 DEF Loop
<1> DEFINE Good(k) ==
             /\ Window!LastCap(FlattenSeq(f[k][1])) = Window!LastCap(FlattenSeq(buf))
             /\ ~ OverCap(f[k]) \/ Len(f[k][1]) = N - k
           T == {k \in Nat : k \in 0..N => Good(k)}
<1>4. 0 \in T
  <2>1. f[0] = <<buf, bytes>>
    BY <1>3
  <2> QED
    BY <2>1, <1>2
<1>5. ASSUME NEW k \in Nat, k \in T PROVE k + 1 \in T
  <2>1. SUFFICES ASSUME k + 1 \in 0..N PROVE Good(k + 1)
    OBVIOUS
  <2>2. PICK st \in RingState : st = f[k]
    <3>1. k \in 0..N
      BY <2>1
    <3>2. f[k] \in RingState
      BY <3>1, <1>2
    <3> QED
      BY <3>2
  <2>3. Good(k)
    BY <1>5, <2>1
  <2>4. f[k + 1] = IF OverCap(st) THEN TrimHead(st) ELSE st
    <3>1. (k + 1) - 1 = k /\ k + 1 # 0
      OBVIOUS
    <3> QED
      BY <3>1, <2>1, <2>2, <1>3
  <2>5. CASE ~ OverCap(st)
    BY <2>2, <2>3, <2>4, <2>5
  <2>6. CASE OverCap(st)
    <3>1. PICK nx \in RingState : nx = TrimHead(st)
      BY <2>6, TrimHeadKeeps
    <3>2. /\ Window!LastCap(FlattenSeq(nx[1])) = Window!LastCap(FlattenSeq(st[1]))
          /\ nx[2] <= Cap \/ Len(nx[1]) = Len(st[1]) - 1
      BY <2>6, <3>1, TrimHeadKeeps
    <3>3. Len(st[1]) = N - k
      BY <2>2, <2>3, <2>6
    <3>4. ~ OverCap(nx) \/ Len(nx[1]) = N - (k + 1)
      <4>1. CASE nx[2] <= Cap
        <5>1. nx[2] \in Nat /\ Cap \in Nat
          BY RingAssumption DEF RingState
        <5> QED
          BY <4>1, <5>1 DEF OverCap
      <4>2. CASE Len(nx[1]) = Len(st[1]) - 1
        BY <4>2, <3>3
      <4> QED
        BY <3>2, <4>1, <4>2
    <3>5. f[k + 1] = nx
      BY <2>4, <2>6, <3>1
    <3> QED
      BY <2>2, <2>3, <3>2, <3>4, <3>5
  <2> QED
    BY <2>5, <2>6
<1>6. \A k \in Nat : k \in T
  <2> HIDE DEF T
  <2> QED
    BY <1>4, <1>5, NatSetInduction
<1>7. Good(N)
  <2>1. N \in T /\ N \in 0..N
    BY <1>6
  <2> HIDE DEF Good
  <2> QED
    BY <2>1
<1>8. PICK st \in RingState : st = f[N] /\ st = Trim(buf, bytes)
  <2>1. f[N] \in RingState
    BY <1>1, <1>2
  <2> QED
    BY <2>1, <1>1, <1>2, TrimIsLoop
<1>9. PICK end \in Seq(Seq(Byte)), n \in Nat :
        st = <<end, n>> /\ n = Len(FlattenSeq(end))
  BY DEF RingState
<1>10. n <= Cap
  <2>1. CASE ~ OverCap(st)
    <3>1. CASE end = <<>>
      BY <3>1, <1>9, FlattenEmpty, EmptySeq, RingAssumption
    <3>2. CASE end # <<>>
      BY <3>2, <2>1, <1>9, RingAssumption DEF OverCap
    <3> QED
      BY <3>1, <3>2
  <2>2. CASE Len(st[1]) = N - N
    <3>1. end = <<>>
      BY <2>2, <1>9, EmptySeq
    <3> QED
      BY <3>1, <1>9, FlattenEmpty, EmptySeq, RingAssumption
  <2> QED
    BY <2>1, <2>2, <1>7, <1>8
<1>11. FlattenSeq(end) = Window!LastCap(FlattenSeq(buf))
  <2>1. Window!LastCap(FlattenSeq(end)) = FlattenSeq(end)
    BY <1>9, <1>10 DEF Window!LastCap
  <2> QED
    BY <2>1, <1>7, <1>8, <1>9
<1> QED
  BY <1>8, <1>9, <1>10, <1>11

-----------------------------------------------------------------------------

(* The inductive invariant: bufferBytes counts the bytes, and is within Cap. *)
RingOK == /\ buffer \in Seq(Seq(Byte))
          /\ bufferBytes = Len(Replay)
          /\ bufferBytes <= Cap

(* A chunk is a sequence of bytes.                                           *)
LEMMA ChunkIsSeq == ASSUME NEW c \in Chunk PROVE c \in Seq(Byte)
<1>1. PICK n \in 1..MaxChunk : c \in [1..n -> Byte]
  BY DEF Chunk
<1>2. n \in Nat
  BY <1>1, RingAssumption
<1> QED
  BY <1>1, <1>2, SeqDef

(* appendOutput moves the replay to the window of the old one and the chunk. *)
LEMMA AppendOutputWindow ==
  ASSUME RingOK, NEW c \in Chunk, AppendOutput(c)
  PROVE  RingOK' /\ Replay' = Window!LastCap(Replay \o c)
<1>1. PICK buf \in Seq(Seq(Byte)), bytes \in Nat :
        buf = Append(buffer, c) /\ bytes = bufferBytes + Len(c)
  <2>1. c \in Seq(Byte) /\ Len(c) \in Nat
    BY ChunkIsSeq, LenProperties
  <2>2. bufferBytes \in Nat
    BY FlattenType, LenProperties DEF RingOK, Replay
  <2>3. Append(buffer, c) \in Seq(Seq(Byte))
    BY <2>1, AppendProperties DEF RingOK
  <2>4. bufferBytes + Len(c) \in Nat
    BY <2>1, <2>2
  <2> QED
    BY <2>3, <2>4, Zenon
<1>2. FlattenSeq(buf) = Replay \o c
  BY <1>1, ChunkIsSeq, FlattenAppend DEF RingOK, Replay
<1>3. bytes = Len(FlattenSeq(buf))
  <2>1. Replay \in Seq(Byte) /\ c \in Seq(Byte)
    BY ChunkIsSeq, FlattenType DEF RingOK, Replay
  <2>2. Len(Replay \o c) = Len(Replay) + Len(c)
    BY <2>1, ConcatProperties
  <2> QED
    BY <2>2, <1>1, <1>2 DEF RingOK
<1>4. PICK t \in RingState :
        /\ t = Trim(buf, bytes)
        /\ t[2] <= Cap
        /\ FlattenSeq(t[1]) = Window!LastCap(FlattenSeq(buf))
  BY <1>3, TrimKeepsLastCap
<1>5. buffer' = t[1] /\ bufferBytes' = t[2]
  BY <1>1, <1>4 DEF AppendOutput
<1>6. t[1] \in Seq(Seq(Byte)) /\ t[2] = Len(FlattenSeq(t[1]))
  BY DEF RingState
<1>7. Replay' = FlattenSeq(t[1])
  BY <1>5 DEF Replay
<1> QED
  BY <1>2, <1>4, <1>5, <1>6, <1>7 DEF RingOK

(* The initial ring is correct and maps to the empty window.                 *)
LEMMA RingInit == Init => RingOK /\ Window!Init
  BY FlattenEmpty, EmptySeq, RingAssumption
     DEF Init, RingOK, Replay, Window!Init

(* Every step keeps the invariant and is a step of the window or none.       *)
LEMMA RingStep == RingOK /\ [Next]_vars => RingOK' /\ [Window!Next]_Replay
<1> SUFFICES ASSUME RingOK, [Next]_vars PROVE RingOK' /\ [Window!Next]_Replay
  OBVIOUS
<1>1. ASSUME NEW c \in Chunk, AppendOutput(c)
      PROVE  RingOK' /\ [Window!Next]_Replay
  <2>1. RingOK' /\ Replay' = Window!LastCap(Replay \o c)
    BY <1>1, AppendOutputWindow
  <2>2. c \in Window!Chunk
    BY DEF Chunk, Window!Chunk
  <2>3. Window!Append1(c)
    BY <2>1 DEF Window!Append1
  <2> QED
    BY <2>1, <2>2, <2>3 DEF Window!Next
<1>2. CASE UNCHANGED vars
  BY <1>2 DEF vars, RingOK, Replay
<1> QED
  BY <1>1, <1>2 DEF Next

(* The count the code keeps by hand never drifts from the bytes it replays,  *)
(* and the ring never holds more than Cap of them between two appends.       *)
THEOREM RingReplayIsCounted == Spec => []RingOK
  BY RingInit, RingStep, PTL DEF Spec

(* The chunk list implements the window: a subscriber is replayed just the    *)
(* newest Cap bytes, never a hole, whatever sizes they arrived in.           *)
THEOREM RingRefinesWindow == Spec => RingImplementsWindow
<1>1. Spec => []RingOK
  BY RingReplayIsCounted
<1> QED
  BY <1>1, RingInit, RingStep, PTL DEF Spec, RingImplementsWindow, Window!Spec
=============================================================================

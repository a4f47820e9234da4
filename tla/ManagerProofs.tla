--------------------------- MODULE ManagerProofs ----------------------------
(***************************************************************************)
(* Proofs about the server's terminal manager (PtydManager), for any keys, *)
(* connections, attempts and calls of ensure().  The inductive invariant   *)
(* has three parts:                                                        *)
(*   the waits     what the client has pending is what its actors await;   *)
(*   the wire      while nothing disturbs it, one connection is in use, one*)
(*                 actor at most re-arms it, and what travels on it says   *)
(*                 of the sessions what is so, or is corrected later on it;*)
(*   the mirrors   a resync knows every live session, and once connected   *)
(*                 the mirrors tell the truth.                             *)
(***************************************************************************)
EXTENDS PtydManager, TLAPS

\* A frame, on either way.
FrameType ==
  [t : {"hello", "hello-ack", "open", "open-ack", "open-err", "list", "list-reply",
        "subscribe", "exit"},
   ks : SUBSET Key]

\* Frames and waiting lists are sequences.
SeqInv ==
  /\ req \in [Conn -> Seq(FrameType)] /\ rsp \in [Conn -> Seq(FrameType)]
  /\ pendingLists \in Seq(Actor)

(* The promises the client has pending are those its actors await.           *)
AwaitInv ==
  /\ \A a \in Actor : step[a] = "opening" <=> a \in pendingOpens
  /\ \A a \in Actor : step[a] = "list" <=> \E i \in DOMAIN pendingLists : pendingLists[i] = a
  /\ \A i, j \in DOMAIN pendingLists : pendingLists[i] = pendingLists[j] => i = j
  /\ step["loop"] # "off" => attempts < MaxAttempts

(* While nothing disturbs it, one connection is in use and one actor at most *)
(* re-arms it.                                                               *)
Rearming(a) == step[a] \in Rearm

AloneInv ==
  /\ \A a, b \in Actor : Rearming(a) /\ Rearming(b) => a = b
  /\ \A c \in Conn : c # socket => link[c] \in {"none", "gone"}
  /\ link[socket] # "none"
  /\ step["boot"] # "off" => ~connected /\ \A a \in Actor : a # "boot" => step[a] = "off"
  /\ connected => link[socket] \in {"up", "lost"} /\ \A a \in Actor : ~Rearming(a)
  /\ ~connected /\ (\A a \in Actor : ~Rearming(a)) => link[socket] = "gone"
  /\ \A a \in Actor :
       /\ step[a] = "handshake" => at[a] = socket /\ link[socket] \in {"dialing", "hello", "refused"}
       /\ step[a] \in {"greeted", "list", "listed", "sync"} => link[socket] \in {"up", "lost"}
       /\ step[a] \in {"dial", "backoff"} => link[socket] = "gone"
       /\ step[a] \in {"armed", "opening", "opened"} => connected

(* What travels on the connection in use.                                     *)

\* Answers come on a negotiated connection only.
GreetInv ==
  /\ \A c \in Conn : link[c] \in {"none", "dialing"} => req[c] = <<>> /\ rsp[c] = <<>> /\ c \notin dNeg
  /\ \A c \in Conn : link[c] = "gone" => rsp[c] = <<>>
  /\ link[socket] = "up" => socket \in dNeg
  /\ link[socket] = "hello" /\ rsp[socket] # <<>> => socket \in dNeg

\* Kinds of frames: the request of an open, its success, and either answer.
Ask    == {"open"}
Ack    == {"open-ack"}
Answer == {"open-ack", "open-err"}

\* Some frame of q is of kinds T and about k, and at most one is.
Is(f, T, k)   == f.t \in T /\ k \in f.ks
Has(q, T, k)  == \E i \in DOMAIN q : Is(q[i], T, k)
Once(q, T, k) == \A i, j \in DOMAIN q : Is(q[i], T, k) /\ Is(q[j], T, k) => i = j

\* A session is asked for on the connection in use, and by who still awaits it,
\* once, unless it gave up before.
OpenInv ==
  \A k \in Key :
    /\ link[socket] \in Open /\ Has(req[socket], Ask, k) =>
         /\ connected
         /\ k \notin late => /\ step[k] = "opening" /\ Once(req[socket], Ask, k)
                             /\ ~Has(rsp[socket], Answer, k)
    /\ Has(rsp[socket], Answer, k) =>
         /\ connected
         /\ k \notin late => step[k] = "opening" /\ Once(rsp[socket], Answer, k)

\* The end of k is on its way in q.
Ending(q, k) == \E i \in DOMAIN q : q[i] = Frame("exit", {k})

\* A session that q says to be live is so, or q says later that it ended.
Ordered(q, live) ==
  \A i \in DOMAIN q : \A k \in q[i].ks :
    q[i].t \in {"open-ack", "list-reply"} =>
      k \in live \/ \E j \in DOMAIN q : i < j /\ q[j] = Frame("exit", {k})

\* A live session that q says to have ended was opened again later.
Revived(q, live) ==
  \A i \in DOMAIN q : \A k \in live :
    Is(q[i], {"exit"}, k) => \E j \in DOMAIN q : i < j /\ Is(q[j], Ack, k)

\* A list misses no live session.
Complete(q, live) ==
  \A i \in DOMAIN q : q[i].t = "list-reply" => live \subseteq q[i].ks

OrderInv ==
  /\ link[socket] \in {"hello", "up"} => Ordered(rsp[socket], dLive)
  /\ Revived(rsp[socket], dLive \ late)
  /\ ~connected => Complete(rsp[socket], dLive)

(* What the mirrors say.                                                      *)

\* Session k is live, or the client will hear of its end.
Told(k) == k \in dLive \/ Ending(rsp[socket], k)

\* A resync knows every live session, and adopts or has adopted it.
Resynced(a) ==
  /\ todo[a] \subseteq ids[a] /\ dLive \subseteq ids[a]
  /\ \A k \in dLive \ late : k \in todo[a] \/ mirror[k] = "running"
  /\ link[socket] = "up" =>
       \A k \in ids[a] \ overtaken : k \in todo[a] \/ mirror[k] = "running" => Told(k)

ResyncInv == \A a \in Actor : step[a] \in {"listed", "sync"} => Resynced(a)

\* Session k is shown as running, or is about to be.
Shown(k) == mirror[k] = "running" \/ step[k] = "opened"

\* Once connected, what is shown is so, and what lives is shown.
MirrorInv ==
  connected /\ link[socket] = "up" =>
    /\ \A k \in Key \ overtaken : Shown(k) => Told(k)
    /\ \A k \in dLive \ late : Shown(k) \/ Has(rsp[socket], Ack, k)

CalmInv == AloneInv /\ GreetInv /\ OpenInv /\ OrderInv /\ ResyncInv /\ MirrorInv

\* The inductive invariant.
IInv == TypeOK /\ SeqInv /\ AwaitInv /\ (Undisturbed => CalmInv)
-----------------------------------------------------------------------------
(* Sequences of frames.                                                      *)

\* What is appended comes last.
LEMMA Appended ==
  ASSUME NEW S, NEW q \in Seq(S), NEW x \in S
  PROVE  /\ Append(q, x) \in Seq(S) /\ Append(q, x) # <<>>
         /\ DOMAIN Append(q, x) = DOMAIN q \cup {Len(q) + 1}
         /\ Append(q, x)[Len(q) + 1] = x
         /\ \A i \in DOMAIN q : Append(q, x)[i] = q[i] /\ i < Len(q) + 1 /\ i \in Nat
  OBVIOUS

\* The first is taken, the others move up.
LEMMA Taken ==
  ASSUME NEW S, NEW q \in Seq(S), q # <<>>
  PROVE  /\ Tail(q) \in Seq(S) /\ Head(q) \in S /\ Head(q) = q[1] /\ 1 \in DOMAIN q
         /\ \A i \in DOMAIN Tail(q) : Tail(q)[i] = q[i + 1] /\ i + 1 \in DOMAIN q /\ i + 1 # 1 /\ i \in Nat
         /\ \A j \in DOMAIN q : j \in Nat /\ (j # 1 => 1 < j /\ j - 1 \in DOMAIN Tail(q) /\ Tail(q)[j - 1] = q[j])
  OBVIOUS

\* Which frames there are in an empty sequence, after one is sent or handled.
LEMMA HasNone ==
  ASSUME NEW T, NEW k
  PROVE  ~Has(<<>>, T, k) /\ Once(<<>>, T, k) /\ ~Ending(<<>>, k)
  BY DEF Has, Once, Ending

\* What is on its way once frame f is sent.
LEMMA HasAppend ==
  ASSUME NEW q \in Seq(FrameType), NEW f \in FrameType, NEW T, NEW k
  PROVE  /\ Has(Append(q, f), T, k) <=> Has(q, T, k) \/ Is(f, T, k)
         /\ Once(q, T, k) /\ ~(Has(q, T, k) /\ Is(f, T, k)) => Once(Append(q, f), T, k)
         /\ Ending(Append(q, f), k) <=> Ending(q, k) \/ f = Frame("exit", {k})
<1>. DEFINE r == Append(q, f)
<1>1. /\ DOMAIN r = DOMAIN q \cup {Len(q) + 1} /\ r[Len(q) + 1] = f
      /\ \A i \in DOMAIN q : r[i] = q[i]
  BY Appended
<1>. HIDE DEF r
<1>2. Has(r, T, k) <=> Has(q, T, k) \/ Is(f, T, k)
  BY <1>1 DEF Has
<1>3. Ending(r, k) <=> Ending(q, k) \/ f = Frame("exit", {k})
  BY <1>1 DEF Ending
<1>4. ASSUME Once(q, T, k), ~(Has(q, T, k) /\ Is(f, T, k)) PROVE Once(r, T, k)
  BY <1>1, <1>4 DEF Has, Once
<1>. QED BY <1>2, <1>3, <1>4 DEF r

\* And once the first frame is handled.
LEMMA HasTail ==
  ASSUME NEW q \in Seq(FrameType), q # <<>>, NEW T, NEW k
  PROVE  /\ Has(q, T, k) <=> Has(Tail(q), T, k) \/ Is(Head(q), T, k)
         /\ Once(q, T, k) => Once(Tail(q), T, k) /\ ~(Has(Tail(q), T, k) /\ Is(Head(q), T, k))
         /\ Ending(q, k) <=> Ending(Tail(q), k) \/ Head(q) = Frame("exit", {k})
<1>. DEFINE r == Tail(q)
            h == Head(q)
<1>1. /\ h = q[1] /\ 1 \in DOMAIN q
      /\ \A i \in DOMAIN r : r[i] = q[i + 1] /\ i + 1 \in DOMAIN q /\ i + 1 # 1 /\ i \in Nat
      /\ \A j \in DOMAIN q : j # 1 => j - 1 \in DOMAIN r /\ r[j - 1] = q[j]
  BY Taken
<1>. HIDE DEF r, h
<1>2. Has(q, T, k) <=> Has(r, T, k) \/ Is(h, T, k)
  BY <1>1 DEF Has
<1>3. Ending(q, k) <=> Ending(r, k) \/ h = Frame("exit", {k})
  BY <1>1 DEF Ending
<1>4. ASSUME Once(q, T, k) PROVE Once(r, T, k) /\ ~(Has(r, T, k) /\ Is(h, T, k))
  <2>1. ASSUME NEW i \in DOMAIN r, NEW j \in DOMAIN r, Is(r[i], T, k), Is(r[j], T, k) PROVE i = j
    <3>1. i + 1 = j + 1
      BY <1>1, <1>4, <2>1 DEF Once
    <3>. QED BY <1>1, <3>1
  <2>2. ASSUME NEW i \in DOMAIN r, Is(r[i], T, k), Is(h, T, k) PROVE FALSE
    BY <1>1, <1>4, <2>2 DEF Once
  <2>. QED BY <2>1, <2>2 DEF Once, Has
<1>. QED BY <1>2, <1>3, <1>4 DEF r, h

\* What q says stays in order when a frame is handled.
LEMMA OrderTail ==
  ASSUME NEW q \in Seq(FrameType), q # <<>>, NEW live
  PROVE  /\ Ordered(q, live) => Ordered(Tail(q), live)
         /\ Ordered(q, live) /\ Head(q).t \in {"open-ack", "list-reply"} =>
              \A k \in Head(q).ks : k \in live \/ Ending(Tail(q), k)
         /\ Revived(q, live) => Revived(Tail(q), live)
         /\ Revived(q, live) /\ Head(q).t = "exit" =>
              \A k \in Head(q).ks \cap live : Has(Tail(q), Ack, k)
         /\ Complete(q, live) => Complete(Tail(q), live)
         /\ Complete(q, live) /\ Head(q).t = "list-reply" => live \subseteq Head(q).ks
<1>. DEFINE r == Tail(q)
            h == Head(q)
<1>1. /\ h = q[1] /\ 1 \in DOMAIN q
      /\ \A i \in DOMAIN r : r[i] = q[i + 1] /\ i + 1 \in DOMAIN q /\ i + 1 # 1 /\ i \in Nat
      /\ \A j \in DOMAIN q : j \in Nat /\ (j # 1 => 1 < j /\ j - 1 \in DOMAIN r /\ r[j - 1] = q[j])
  BY Taken
<1>. HIDE DEF r, h
<1>2. ASSUME Ordered(q, live) PROVE Ordered(r, live)
  <2>1. ASSUME NEW i \in DOMAIN r, NEW k \in r[i].ks, r[i].t \in {"open-ack", "list-reply"}, k \notin live
        PROVE  \E j \in DOMAIN r : i < j /\ r[j] = Frame("exit", {k})
    <3>1. PICK j \in DOMAIN q : i + 1 < j /\ q[j] = Frame("exit", {k})
      BY <1>1, <1>2, <2>1 DEF Ordered
    <3>2. j - 1 \in DOMAIN r /\ r[j - 1] = Frame("exit", {k}) /\ i < j - 1
      BY <1>1, <3>1
    <3>. QED BY <3>2
  <2>. QED BY <2>1 DEF Ordered
<1>3. ASSUME Ordered(q, live), h.t \in {"open-ack", "list-reply"}, NEW k \in h.ks
      PROVE  k \in live \/ Ending(r, k)
  <2>1. CASE k \notin live
    <3>1. PICK j \in DOMAIN q : 1 < j /\ q[j] = Frame("exit", {k})
      BY <1>1, <1>3, <2>1 DEF Ordered
    <3>2. j - 1 \in DOMAIN r /\ r[j - 1] = q[j]
      BY <1>1, <3>1
    <3>. QED BY <3>1, <3>2 DEF Ending
  <2>. QED BY <2>1
<1>4. ASSUME Revived(q, live) PROVE Revived(r, live)
  <2>1. ASSUME NEW i \in DOMAIN r, NEW k \in live, Is(r[i], {"exit"}, k)
        PROVE  \E j \in DOMAIN r : i < j /\ Is(r[j], Ack, k)
    <3>1. PICK j \in DOMAIN q : i + 1 < j /\ Is(q[j], Ack, k)
      BY <1>1, <1>4, <2>1 DEF Revived
    <3>2. j - 1 \in DOMAIN r /\ Is(r[j - 1], Ack, k) /\ i < j - 1
      BY <1>1, <3>1
    <3>. QED BY <3>2
  <2>. QED BY <2>1 DEF Revived
<1>5. ASSUME Revived(q, live), h.t = "exit", NEW k \in h.ks \cap live PROVE Has(r, Ack, k)
  <2>1. Is(q[1], {"exit"}, k)
    BY <1>1, <1>5 DEF Is
  <2>2. PICK j \in DOMAIN q : 1 < j /\ Is(q[j], Ack, k)
    BY <1>1, <1>5, <2>1 DEF Revived
  <2>3. j - 1 \in DOMAIN r /\ r[j - 1] = q[j]
    BY <1>1, <2>2
  <2>. QED BY <2>2, <2>3 DEF Has
<1>6. ASSUME Complete(q, live) PROVE Complete(r, live) /\ (h.t = "list-reply" => live \subseteq h.ks)
  BY <1>1, <1>6 DEF Complete
<1>. QED BY <1>2, <1>3, <1>4, <1>5, <1>6 DEF r, h

\* And when one is sent, if it says what is so of the sessions, now more, or
\* says which one ended.
LEMMA OrderedAppend ==
  ASSUME NEW q \in Seq(FrameType), NEW f \in FrameType, NEW live, NEW now, Ordered(q, live),
         \A k \in live : k \in now \/ f = Frame("exit", {k}),
         f.t \in {"open-ack", "list-reply"} => f.ks \subseteq now
  PROVE  Ordered(Append(q, f), now)
<1>. DEFINE r == Append(q, f)
            n == Len(q) + 1
<1>1. /\ DOMAIN r = DOMAIN q \cup {n} /\ r[n] = f
      /\ \A i \in DOMAIN q : r[i] = q[i] /\ i < n /\ i \in Nat
  BY Appended
<1>. HIDE DEF r, n
<1>2. ASSUME NEW i \in DOMAIN r, NEW k \in r[i].ks, r[i].t \in {"open-ack", "list-reply"}, k \notin now
      PROVE  \E j \in DOMAIN r : i < j /\ r[j] = Frame("exit", {k})
  <2>1. i \in DOMAIN q /\ r[i] = q[i] /\ i < n
    BY <1>1, <1>2
  <2>2. CASE k \in live
    BY <1>1, <1>2, <2>1, <2>2
  <2>3. CASE k \notin live
    <3>1. PICK j \in DOMAIN q : i < j /\ q[j] = Frame("exit", {k})
      BY <1>2, <2>1, <2>3 DEF Ordered
    <3>. QED BY <1>1, <3>1
  <2>. QED BY <2>2, <2>3
<1>3. Ordered(r, now)
  BY <1>2 DEF Ordered
<1>. QED BY <1>3 DEF r

\* The same of the ends of sessions that are live again.
LEMMA RevivedAppend ==
  ASSUME NEW q \in Seq(FrameType), NEW f \in FrameType, NEW live, NEW now, Revived(q, live),
         \A k \in now : k \in live \/ Is(f, Ack, k),
         f.t = "exit" => f.ks \cap now = {}
  PROVE  Revived(Append(q, f), now)
<1>. DEFINE r == Append(q, f)
            n == Len(q) + 1
<1>1. /\ DOMAIN r = DOMAIN q \cup {n} /\ r[n] = f
      /\ \A i \in DOMAIN q : r[i] = q[i] /\ i < n /\ i \in Nat
  BY Appended
<1>. HIDE DEF r, n
<1>2. ASSUME NEW i \in DOMAIN r, NEW k \in now, Is(r[i], {"exit"}, k)
      PROVE  \E j \in DOMAIN r : i < j /\ Is(r[j], Ack, k)
  <2>1. i \in DOMAIN q /\ r[i] = q[i] /\ i < n
    BY <1>1, <1>2 DEF Is
  <2>2. CASE k \notin live
    BY <1>1, <1>2, <2>1, <2>2
  <2>3. CASE k \in live
    <3>1. PICK j \in DOMAIN q : i < j /\ Is(q[j], Ack, k)
      BY <1>2, <2>1, <2>3 DEF Revived
    <3>. QED BY <1>1, <3>1
  <2>. QED BY <2>2, <2>3
<1>3. Revived(r, now)
  BY <1>2 DEF Revived
<1>. QED BY <1>3 DEF r

\* And of the lists.
LEMMA CompleteAppend ==
  ASSUME NEW q \in Seq(FrameType), NEW f \in FrameType, NEW live, NEW now, Complete(q, live),
         now \subseteq live, f.t = "list-reply" => now \subseteq f.ks
  PROVE  Complete(Append(q, f), now)
<1>. DEFINE r == Append(q, f)
            n == Len(q) + 1
<1>1. /\ DOMAIN r = DOMAIN q \cup {n} /\ r[n] = f
      /\ \A i \in DOMAIN q : r[i] = q[i]
  BY Appended
<1>. HIDE DEF r, n
<1>2. Complete(r, now)
  BY <1>1 DEF Complete
<1>. QED BY <1>2 DEF r

\* Fewer sessions, and nothing said of any.
LEMMA OrderFewer ==
  ASSUME NEW q, NEW live, NEW now, now \subseteq live
  PROVE  /\ Revived(q, live) => Revived(q, now)
         /\ Complete(q, live) => Complete(q, now)
         /\ Ordered(<<>>, now) /\ Revived(<<>>, now) /\ Complete(<<>>, now)
  BY DEF Ordered, Revived, Complete
-----------------------------------------------------------------------------
(* Types.                                                                    *)

\* The types but those of frames, which SeqInv has.
PlainOK ==
  /\ dUp \in BOOLEAN /\ dLive \subseteq Key
  /\ dNeg \subseteq Conn /\ dSub \in [Conn -> SUBSET Key]
  /\ link \in [Conn -> Link] /\ socket \in Conn
  /\ pendingOpens \subseteq Key
  /\ mirror \in [Key -> {"none", "running", "exited"}]
  /\ connected \in BOOLEAN /\ step \in [Actor -> Step]
  /\ ids \in [Actor -> SUBSET Key] /\ todo \in [Actor -> SUBSET Key]
  /\ at \in [Actor -> 0..MaxConn] /\ attempts \in 0..MaxAttempts
  /\ ensures \in 0..MaxEnsures

\* TypeOK is the plain types, and what SeqInv says of the frames.
LEMMA PlainType == TypeOK => PlainOK
  BY DEF TypeOK, PlainOK

\* And the two give it back.
LEMMA FullType == PlainOK /\ SeqInv => TypeOK
<1>1. ASSUME PlainOK, SeqInv, NEW c \in Conn, NEW q \in {req[c], rsp[c]}, NEW i \in DOMAIN q
      PROVE  q[i].ks \subseteq Key
  <2>1. q \in Seq(FrameType)
    BY <1>1 DEF SeqInv
  <2>2. q[i] \in FrameType
    BY <1>1, <2>1
  <2>. QED BY <2>2 DEF FrameType
<1>2. ASSUME SeqInv PROVE \A i \in DOMAIN pendingLists : pendingLists[i] \in Actor
  BY <1>2 DEF SeqInv
<1>. QED BY <1>1, <1>2 DEF TypeOK, PlainOK

\* Keys are actors, the boot and the loop are others.
LEMMA Actors ==
  /\ Key \subseteq Actor /\ "loop" \in Actor /\ "boot" \in Actor
  /\ "loop" \notin Key /\ "boot" \notin Key /\ "loop" # "boot"
  /\ \A a \in Actor : a \in Key \/ a = "loop" \/ a = "boot"
  BY ManagerAssumption DEF Actor

\* The frames the parts send.
LEMMA FrameTypes ==
  /\ \A ks \in SUBSET Key : \A t \in {"hello", "hello-ack", "open", "open-ack", "open-err",
                                     "list", "list-reply", "subscribe", "exit"} :
       /\ Frame(t, ks) \in FrameType
       /\ Frame(t, ks).t = t /\ Frame(t, ks).ks = ks
  /\ \A k \in Key : {k} \in SUBSET Key
  /\ {} \in SUBSET Key
  BY DEF Frame, FrameType

\* A frame is written to the connection in use, if it is open.
LEMMA SentFrame ==
  ASSUME TypeOK, SeqInv, NEW f \in FrameType
  PROVE  /\ Sent(f) \in [Conn -> Seq(FrameType)]
         /\ \A c \in Conn : c # socket => Sent(f)[c] = req[c]
         /\ Sent(f)[socket] = IF link[socket] \in Open THEN Append(req[socket], f) ELSE req[socket]
<1>1. req \in [Conn -> Seq(FrameType)] /\ socket \in Conn
  BY DEF TypeOK, SeqInv
<1>2. Append(req[socket], f) \in Seq(FrameType)
  BY <1>1
<1>. QED BY <1>1, <1>2 DEF Sent

\* The client gets what is sent on it.
LEMMA DeliveredFrame ==
  ASSUME TypeOK, SeqInv, NEW c \in Conn, NEW f \in FrameType
  PROVE  /\ Delivered(c, f) \in [Conn -> Seq(FrameType)]
         /\ \A d \in Conn : d # c \/ c # socket => Delivered(c, f)[d] = rsp[d]
         /\ c = socket => Delivered(c, f)[c] = Append(rsp[c], f)
<1>1. rsp \in [Conn -> Seq(FrameType)] /\ socket \in Conn
  BY DEF TypeOK, SeqInv
<1>2. Append(rsp[c], f) \in Seq(FrameType)
  BY <1>1
<1>. QED BY <1>1, <1>2 DEF Delivered

\* The first frame of a connection.
LEMMA FirstFrame ==
  ASSUME SeqInv, NEW c \in Conn
  PROVE  /\ req[c] # <<>> => Head(req[c]) \in FrameType /\ Tail(req[c]) \in Seq(FrameType)
         /\ rsp[c] # <<>> => Head(rsp[c]) \in FrameType /\ Tail(rsp[c]) \in Seq(FrameType)
         /\ req[c] \in Seq(FrameType) /\ rsp[c] \in Seq(FrameType)
  BY DEF SeqInv

\* What is queued, on each way and for the lists, stays a sequence.
LEMMA StepSeq ==
  ASSUME TypeOK, SeqInv, [Next]_vars
  PROVE  SeqInv'
<1>0. PlainOK /\ <<>> \in Seq(FrameType) /\ <<>> \in Seq(Actor)
  BY PlainType
<1>1. ASSUME NEW c \in Conn, Serve(c) PROVE SeqInv'
  <2>1. Head(req[c]) \in FrameType /\ Tail(req[c]) \in Seq(FrameType) /\ Head(req[c]).ks \subseteq Key
    BY <1>1, FirstFrame DEF Serve, FrameType
  <2>2. \A t \in {"hello-ack", "open-ack", "open-err", "list-reply"} :
          /\ Frame(t, {}) \in FrameType /\ Frame(t, Head(req[c]).ks) \in FrameType
          /\ Frame(t, dLive) \in FrameType
    BY <1>0, <2>1, FrameTypes DEF PlainOK
  <2>3. req' = [req EXCEPT ![c] = <<>>] \/ req' = [req EXCEPT ![c] = Tail(@)]
    BY <1>1 DEF Serve
  <2>4. rsp' = rsp \/ \E f \in FrameType : rsp' = Delivered(c, f)
    <3>1. \/ rsp' = rsp \/ rsp' = Delivered(c, Frame("hello-ack", {}))
          \/ rsp' = Delivered(c, Frame("open-ack", Head(req[c]).ks))
          \/ rsp' = Delivered(c, Frame("open-err", Head(req[c]).ks))
          \/ rsp' = Delivered(c, Frame("list-reply", dLive))
      BY <1>1 DEF Serve
    <3>. QED BY <2>2, <3>1
  <2>5. req' \in [Conn -> Seq(FrameType)]
    BY <1>0, <2>1, <2>3 DEF SeqInv
  <2>6. rsp' \in [Conn -> Seq(FrameType)]
    BY <2>4, DeliveredFrame DEF SeqInv
  <2>7. pendingLists' = pendingLists
    BY <1>1 DEF Serve, clientVars
  <2>. QED BY <2>5, <2>6, <2>7 DEF SeqInv
<1>2. ASSUME NEW c \in Conn, WireDrops(c) \/ Connects(c) \/ Gone(c) PROVE SeqInv'
  <2>1. rsp' = rsp \/ rsp' = [rsp EXCEPT ![c] = <<>>]
    BY <1>2 DEF WireDrops, Connects, Gone
  <2>2. req' = req \/ req' = [req EXCEPT ![c] = <<>>] \/ req' = [req EXCEPT ![c] = Append(@, Frame("hello", {}))]
    BY <1>2 DEF WireDrops, Connects, Gone
  <2>3. pendingLists' = pendingLists \/ pendingLists' = <<>>
    BY <1>2 DEF WireDrops, Connects, Gone, clientVars
  <2>4. Append(req[c], Frame("hello", {})) \in Seq(FrameType)
    BY FirstFrame, FrameTypes
  <2>5. req' \in [Conn -> Seq(FrameType)]
    BY <1>0, <2>2, <2>4 DEF SeqInv
  <2>6. rsp' \in [Conn -> Seq(FrameType)]
    BY <1>0, <2>1 DEF SeqInv
  <2>. QED BY <1>0, <2>3, <2>5, <2>6 DEF SeqInv
<1>3. ASSUME NEW k \in Key, SessionEnds(k) PROVE SeqInv'
  <2>1. rsp' = rsp \/ rsp' = Delivered(socket, Frame("exit", {k}))
    BY <1>3 DEF SessionEnds
  <2>2. socket \in Conn /\ Frame("exit", {k}) \in FrameType
    BY <1>0, FrameTypes DEF PlainOK
  <2>3. UNCHANGED <<req, pendingLists>>
    BY <1>3 DEF SessionEnds, clientVars
  <2>. QED BY <2>1, <2>2, <2>3, DeliveredFrame DEF SeqInv
<1>4. ASSUME NEW k \in Key, Ensure(k) \/ Joined(k) \/ Rearmed(k) \/ Opened(k) \/ OpenTimesOut(k) PROVE SeqInv'
  <2>1. UNCHANGED <<rsp, pendingLists>>
    BY <1>4 DEF Ensure, Joined, Rearmed, Opened, OpenTimesOut, clientVars, wireVars
  <2>2. \/ req' = req \/ req' = Sent(Frame("open", {k})) \/ req' = Sent(Frame("subscribe", {k}))
    BY <1>4 DEF Ensure, Joined, Rearmed, Opened, OpenTimesOut, SendOpen, Resubscribed, wireVars
  <2>3. Frame("open", {k}) \in FrameType /\ Frame("subscribe", {k}) \in FrameType
    BY FrameTypes
  <2>4. /\ Sent(Frame("open", {k})) \in [Conn -> Seq(FrameType)]
        /\ Sent(Frame("subscribe", {k})) \in [Conn -> Seq(FrameType)]
    BY <2>3, SentFrame
  <2>5. req' \in [Conn -> Seq(FrameType)]
    BY <2>2, <2>4, Zenon DEF SeqInv
  <2>6. rsp' \in [Conn -> Seq(FrameType)] /\ pendingLists' \in Seq(Actor)
    BY <2>1, Zenon DEF SeqInv
  <2>. QED BY <2>5, <2>6, Zenon DEF SeqInv
<1>5. ASSUME NEW a \in Actor, Dial(a) \/ DialFails(a) PROVE SeqInv'
  <2>1. UNCHANGED <<req, pendingLists>> /\ (rsp' = rsp \/ rsp' = [rsp EXCEPT ![socket] = <<>>])
    BY <1>5 DEF Dial, DialFails, clientVars, wireVars
  <2>2. rsp' \in [Conn -> Seq(FrameType)]
    BY <1>0, <2>1 DEF SeqInv
  <2>. QED BY <2>1, <2>2, Zenon DEF SeqInv
<1>6. ASSUME DaemonDies PROVE SeqInv'
  <2>1. UNCHANGED <<rsp, pendingLists>> /\ req' = [c \in Conn |-> <<>>]
    BY <1>6 DEF DaemonDies, clientVars
  <2>. QED BY <1>0, <2>1 DEF SeqInv
<1>7. ASSUME Receive PROVE SeqInv'
  <2>1. rsp[socket] # <<>> /\ req' = req /\ rsp' = [rsp EXCEPT ![socket] = Tail(@)]
    BY <1>7 DEF Receive
  <2>2. pendingLists' = pendingLists \/ (pendingLists # <<>> /\ pendingLists' = Tail(pendingLists))
    BY <1>7 DEF Receive, clientVars
  <2>3. pendingLists # <<>> => Tail(pendingLists) \in Seq(Actor)
    BY DEF SeqInv
  <2>4. socket \in Conn
    BY <1>0 DEF PlainOK
  <2>. QED BY <2>1, <2>2, <2>3, <2>4, FirstFrame DEF SeqInv
<1>8. ASSUME NEW a \in Actor, Greeted(a) PROVE SeqInv'
  <2>1. rsp' = rsp /\ req' = Sent(Frame("list", {})) /\ pendingLists' = Append(pendingLists, a)
    BY <1>8 DEF Greeted
  <2>2. Frame("list", {}) \in FrameType
    BY FrameTypes
  <2>. QED BY <2>1, <2>2, SentFrame DEF SeqInv
<1>9. ASSUME NEW a \in Actor, Adopt(a) PROVE SeqInv'
  <2>1. PICK b \in SUBSET todo[a] : /\ UNCHANGED <<rsp, pendingLists>> /\ req' = Resubscribed(b)
    BY <1>9 DEF Adopt, clientVars
  <2>2. b \in SUBSET Key
    BY <1>0 DEF PlainOK
  <2>3. Frame("subscribe", b) \in FrameType
    BY <2>2, FrameTypes
  <2>. QED BY <2>1, <2>3, SentFrame DEF SeqInv, Resubscribed
<1>10. ASSUME Retry PROVE SeqInv'
  BY <1>10 DEF Retry, SeqInv, clientVars, wireVars
<1>11. CASE UNCHANGED vars
  BY <1>11 DEF SeqInv, vars, clientVars, wireVars
<1>. QED BY <1>1, <1>2, <1>3, <1>4, <1>5, <1>6, <1>7, <1>8, <1>9, <1>10, <1>11 DEF Next, Continues

\* A failed attempt leaves the loop asleep and nobody else waiting for it.
LEMMA FailedStep ==
  ASSUME NEW a \in Actor
  PROVE  Failed(a) \in {"backoff", "failed", "off"} /\ (Failed(a) = "backoff" <=> a = "loop")
         /\ (Failed(a) = "failed" <=> a = "boot")
  BY Actors DEF Failed

\* Every step keeps the plain types.
LEMMA StepPlain ==
  ASSUME TypeOK, SeqInv, AwaitInv, [Next]_vars
  PROVE  PlainOK'
<1>0. PlainOK /\ MaxAttempts \in Nat \ {0} /\ MaxConn \in Nat \ {0} /\ MaxEnsures \in Nat
  BY PlainType, ManagerAssumption
<1>. USE DEF PlainOK
<1>1. ASSUME NEW c \in Conn, Serve(c) PROVE PlainOK'
  <2>1. req[c] # <<>> /\ UNCHANGED <<dUp, socket, clientVars, mirror, connected, actorVars, histVars>>
    BY <1>1 DEF Serve
  <2>2. Head(req[c]).ks \subseteq Key
    BY <2>1, FirstFrame DEF FrameType
  <2>3. dLive' = dLive \/ dLive' = dLive \cup Head(req[c]).ks
    BY <1>1 DEF Serve
  <2>4. dNeg' = dNeg \/ dNeg' = dNeg \cup {c}
    BY <1>1 DEF Serve
  <2>5. dSub' = dSub \/ dSub' = [dSub EXCEPT ![c] = @ \cup (Head(req[c]).ks \cap dLive)]
    BY <1>1 DEF Serve
  <2>6. link' = link \/ link' = [link EXCEPT ![c] = Ended(c)]
    BY <1>1 DEF Serve
  <2>7. link' \in [Conn -> Link]
    BY <1>0, <2>6 DEF Ended, Link
  <2>8. dSub' \in [Conn -> SUBSET Key]
    BY <1>0, <2>2, <2>5
  <2>9. dLive' \subseteq Key /\ dNeg' \subseteq Conn
    BY <1>0, <2>2, <2>3, <2>4
  <2>. QED BY <1>0, <2>1, <2>7, <2>8, <2>9 DEF clientVars, actorVars
<1>2. ASSUME NEW c \in Conn, WireDrops(c) \/ Connects(c) PROVE PlainOK'
  <2>1. UNCHANGED <<dUp, dLive, socket, clientVars, mirror, connected, actorVars>>
    BY <1>2 DEF WireDrops, Connects, daemonVars
  <2>2. link' \in [Conn -> Link]
    BY <1>0, <1>2 DEF WireDrops, Connects, Ended, Link
  <2>3. dNeg' \subseteq Conn /\ dSub' \in [Conn -> SUBSET Key]
    BY <1>0, <1>2 DEF WireDrops, Connects, daemonVars
  <2>. QED BY <1>0, <2>1, <2>2, <2>3 DEF clientVars, actorVars
<1>3. ASSUME NEW c \in Conn, Gone(c) PROVE PlainOK'
  <2>1. UNCHANGED <<dUp, dLive, dNeg, dSub, socket, at, ids, todo, ensures>>
    BY <1>3 DEF Gone, daemonVars
  <2>2. link' \in [Conn -> Link]
    BY <1>0, <1>3 DEF Gone, Link
  <2>3. step' \in [Actor -> Step]
    <3>1. \A a \in Actor : Failed(a) \in Step /\ "dial" \in Step
      BY FailedStep DEF Step
    <3>. QED BY <1>0, <1>3, <3>1 DEF Gone
  <2>4. attempts' \in 0..MaxAttempts
    BY <1>0, <1>3 DEF Gone, AttemptsAfter
  <2>5. connected' \in BOOLEAN
    BY <1>3, Zenon DEF Gone, AfterDrop
  <2>6. mirror' \in [Key -> {"none", "running", "exited"}]
    BY <1>0, <1>3 DEF Gone, OnDrop
  <2>7. pendingOpens' \subseteq Key
    BY <1>0, <1>3 DEF Gone, clientVars
  <2>. QED BY <1>0, <2>1, <2>2, <2>3, <2>4, <2>5, <2>6, <2>7
<1>4. ASSUME NEW k \in Key, SessionEnds(k) PROVE PlainOK'
  <2>1. UNCHANGED <<dUp, dNeg, link, socket, clientVars, mirror, connected, actorVars>>
    BY <1>4 DEF SessionEnds
  <2>2. dLive' \subseteq Key /\ dSub' \in [Conn -> SUBSET Key]
    BY <1>0, <1>4 DEF SessionEnds
  <2>. QED BY <1>0, <2>1, <2>2 DEF clientVars, actorVars
<1>5. ASSUME NEW k \in Key, Ensure(k) \/ Joined(k) \/ Rearmed(k) \/ Opened(k) \/ OpenTimesOut(k) PROVE PlainOK'
  <2>1. UNCHANGED <<daemonVars, link, socket, connected, at, ids, todo, attempts>>
    BY <1>5 DEF Ensure, Joined, Rearmed, Opened, OpenTimesOut, wireVars
  <2>2. mirror' = mirror \/ mirror' = [mirror EXCEPT ![k] = "exited"] \/ mirror' = [mirror EXCEPT ![k] = "running"]
    BY <1>5 DEF Ensure, Joined, Rearmed, Opened, OpenTimesOut
  <2>3. ensures' = ensures \/ (ensures < MaxEnsures /\ ensures' = ensures + 1)
    BY <1>5 DEF Ensure, Joined, Rearmed, Opened, OpenTimesOut
  <2>4. \E x \in {"off", "opening", "join", "dial"} : step' = [step EXCEPT ![k] = x]
    BY <1>5 DEF Ensure, Joined, Rearmed, Opened, OpenTimesOut, SendOpen
  <2>5. pendingOpens' \in {pendingOpens, pendingOpens \cup {k}, pendingOpens \ {k}}
    BY <1>5 DEF Ensure, Joined, Rearmed, Opened, OpenTimesOut, SendOpen, clientVars
  <2>6. step' \in [Actor -> Step]
    BY <1>0, <2>4 DEF Step
  <2>7. ensures' \in 0..MaxEnsures /\ mirror' \in [Key -> {"none", "running", "exited"}]
        /\ pendingOpens' \subseteq Key
    BY <1>0, <2>2, <2>3, <2>5
  <2>. QED BY <1>0, <2>1, <2>6, <2>7 DEF daemonVars
<1>6. ASSUME NEW a \in Actor, Dial(a) PROVE PlainOK'
  <2>1. UNCHANGED <<dLive, dNeg, dSub, clientVars, mirror, connected, ids, todo, attempts, ensures>>
        /\ dUp' = TRUE /\ step' = [step EXCEPT ![a] = "handshake"]
    BY <1>6 DEF Dial
  <2>2. PICK c \in Conn : link' = [link EXCEPT ![c] = "dialing"] /\ socket' = c /\ at' = [at EXCEPT ![a] = c]
    BY <1>6 DEF Dial
  <2>3. link' \in [Conn -> Link] /\ at' \in [Actor -> 0..MaxConn] /\ step' \in [Actor -> Step]
    BY <1>0, <2>1, <2>2 DEF Link, Step, Conn
  <2>4. dUp' \in BOOLEAN
    BY <2>1, Zenon
  <2>. QED BY <1>0, <2>1, <2>2, <2>3, <2>4 DEF clientVars
<1>7. ASSUME NEW a \in Actor, DialFails(a) \/ Greeted(a) PROVE PlainOK'
  <2>1. UNCHANGED <<daemonVars, link, socket, pendingOpens, mirror, connected, at, ids, todo, attempts, ensures>>
    BY <1>7 DEF DialFails, Greeted, wireVars, clientVars
  <2>2. step' = [step EXCEPT ![a] = Failed(a)] \/ step' = [step EXCEPT ![a] = "list"]
    BY <1>7 DEF DialFails, Greeted
  <2>3. step' \in [Actor -> Step]
    BY <1>0, <2>2, FailedStep DEF Step
  <2>. QED BY <1>0, <2>1, <2>3 DEF daemonVars
<1>8. ASSUME DaemonDies PROVE PlainOK'
  <2>1. UNCHANGED <<socket, clientVars, mirror, connected, actorVars>>
        /\ dLive' = {} /\ dNeg' = {} /\ dSub' = [c \in Conn |-> {}]
    BY <1>8 DEF DaemonDies
  <2>2. link' \in [Conn -> Link]
    BY <1>0, <1>8 DEF DaemonDies, Ended, Link
  <2>3. dUp' \in BOOLEAN
    BY <1>8, Zenon DEF DaemonDies
  <2>. QED BY <1>0, <2>1, <2>2, <2>3 DEF clientVars, actorVars
<1>9. ASSUME Receive PROVE PlainOK'
  <2>. DEFINE f == Head(rsp[socket])
  <2>1. rsp[socket] # <<>> /\ UNCHANGED <<daemonVars, socket, connected, at, attempts, ensures>>
    BY <1>9 DEF Receive
  <2>2. f.ks \subseteq Key
    BY <1>0, <2>1, FirstFrame DEF FrameType
  <2>3. link' \in [Conn -> Link]
    <3>1. link' = link \/ link' = [link EXCEPT ![socket] = IF @ = "hello" THEN "up" ELSE "lost"]
      BY <1>9 DEF Receive
    <3>. QED BY <1>0, <3>1 DEF Link
  <2>4. step' \in [Actor -> Step]
    <3>1. \/ step' = step
          \/ step' = [a \in Actor |-> IF step[a] = "handshake" /\ at[a] = socket THEN "greeted" ELSE step[a]]
          \/ step' = [a \in Actor |-> IF a \in f.ks \cap pendingOpens THEN "opened" ELSE step[a]]
          \/ step' = [a \in Actor |-> IF a \in f.ks \cap pendingOpens THEN "off" ELSE step[a]]
          \/ step' = [step EXCEPT ![Head(pendingLists)] = "listed"]
      BY <1>9 DEF Receive
    <3>. QED BY <1>0, <3>1 DEF Step
  <2>5. ids' \in [Actor -> SUBSET Key] /\ todo' \in [Actor -> SUBSET Key]
    <3>1. \/ UNCHANGED <<ids, todo>>
          \/ \E a : ids' = [ids EXCEPT ![a] = f.ks] /\ todo' = [todo EXCEPT ![a] = f.ks]
      BY <1>9 DEF Receive, LiveIds
    <3>. QED BY <1>0, <2>2, <3>1
  <2>6. mirror' \in [Key -> {"none", "running", "exited"}]
    <3>1. mirror' = mirror \/ mirror' = [k \in Key |-> IF k \in f.ks /\ mirror[k] # "none" THEN "exited" ELSE mirror[k]]
      BY <1>9 DEF Receive
    <3>. QED BY <1>0, <3>1
  <2>7. pendingOpens' \subseteq Key
    <3>1. pendingOpens' = pendingOpens \/ pendingOpens' = pendingOpens \ f.ks
      BY <1>9 DEF Receive, clientVars
    <3>. QED BY <1>0, <3>1
  <2>. HIDE DEF f
  <2>. QED BY <1>0, <2>1, <2>3, <2>4, <2>5, <2>6, <2>7 DEF daemonVars
<1>10. ASSUME NEW a \in Actor, Adopt(a) PROVE PlainOK'
  <2>1. PICK b \in SUBSET todo[a] :
          /\ todo' = [todo EXCEPT ![a] = @ \ b]
          /\ \/ /\ step' = [step EXCEPT ![a] = "sync"] /\ UNCHANGED <<connected, ids>>
                /\ mirror' = [k \in Key |-> IF k \in b THEN "running" ELSE mirror[k]]
             \/ /\ step' = [step EXCEPT ![a] = IF a \in Key THEN "armed" ELSE "off"]
                /\ connected' = TRUE /\ ids' = [ids EXCEPT ![a] = {}]
                /\ mirror' = [k \in Key |-> IF k \in b THEN "running"
                                            ELSE IF k \in Vanished(a) THEN "exited" ELSE mirror[k]]
          /\ UNCHANGED <<daemonVars, link, socket, pendingOpens, at, attempts, ensures>>
    BY <1>10 DEF Adopt, clientVars
  <2>2. step' \in [Actor -> Step]
    BY <1>0, <2>1 DEF Step
  <2>3. ids' \in [Actor -> SUBSET Key] /\ todo' \in [Actor -> SUBSET Key]
    BY <1>0, <2>1
  <2>4. mirror' \in [Key -> {"none", "running", "exited"}]
    BY <1>0, <2>1
  <2>5. connected' \in BOOLEAN
    BY <1>0, <2>1, Zenon
  <2>. QED BY <1>0, <2>1, <2>2, <2>3, <2>4, <2>5 DEF daemonVars
<1>11. ASSUME Retry PROVE PlainOK'
  <2>1. UNCHANGED <<daemonVars, wireVars, clientVars, connected, at, ids, todo, ensures>>
        /\ attempts' = attempts + 1 /\ step["loop"] = "backoff"
    BY <1>11 DEF Retry
  <2>2. attempts' \in 0..MaxAttempts
    BY <1>0, <2>1 DEF AwaitInv
  <2>3. step' \in [Actor -> Step]
    BY <1>0, <1>11, Actors DEF Retry, Step
  <2>4. mirror' \in [Key -> {"none", "running", "exited"}]
    BY <1>0, <1>11 DEF Retry, LeftByGivingUp
  <2>. QED BY <1>0, <2>1, <2>2, <2>3, <2>4 DEF daemonVars, wireVars, clientVars
<1>12. CASE UNCHANGED vars
  BY <1>0, <1>12 DEF vars, daemonVars, wireVars, clientVars, actorVars
<1>. QED BY <1>1, <1>2, <1>3, <1>4, <1>5, <1>6, <1>7, <1>8, <1>9, <1>10, <1>11, <1>12 DEF Next, Continues

\* Every step keeps the types.
LEMMA StepType ==
  ASSUME TypeOK, SeqInv, AwaitInv, [Next]_vars
  PROVE  TypeOK' /\ SeqInv'
<1>1. PlainOK' /\ SeqInv'
  BY StepPlain, StepSeq
<1>2. (PlainOK /\ SeqInv)' => TypeOK'
  BY FullType, PTL
<1>. QED BY <1>1, <1>2
-----------------------------------------------------------------------------
(* What is pending.                                                          *)

\* The frame that is handled, and what handling it may do.
Got == Head(rsp[socket])

\* One frame of the connection in use is handled, of a kind the daemon sends.
LEMMA ReceivedKinds ==
  ASSUME TypeOK, SeqInv, Receive
  PROVE  /\ Got \in FrameType /\ rsp[socket] # <<>> /\ rsp[socket] \in Seq(FrameType)
         /\ socket' = socket /\ req' = req /\ rsp'[socket] = Tail(rsp[socket])
         /\ \A c \in Conn : c # socket => rsp'[c] = rsp[c] /\ link'[c] = link[c]
         /\ UNCHANGED <<dUp, dLive, dNeg, dSub, connected, at, attempts, ensures, late, collided, yieldDrop>>
         /\ Got.t \in {"hello-ack", "open-ack", "open-err", "exit", "list-reply"}
<1>1. rsp[socket] # <<>> /\ socket \in Conn /\ link \in [Conn -> Link] /\ rsp \in [Conn -> Seq(FrameType)]
  BY DEF Receive, SeqInv, TypeOK
<1>2. Got \in FrameType /\ rsp[socket] \in Seq(FrameType)
  BY <1>1, FirstFrame DEF Got
<1>3. socket' = socket /\ req' = req /\ rsp' = [rsp EXCEPT ![socket] = Tail(@)]
      /\ UNCHANGED <<dUp, dLive, dNeg, dSub, connected, at, attempts, ensures, late, collided, yieldDrop>>
      /\ Got.t \in {"hello-ack", "open-ack", "open-err", "exit", "list-reply"}
  BY DEF Receive, daemonVars, Got
<1>4. link' = link \/ link' = [link EXCEPT ![socket] = IF @ = "hello" THEN "up" ELSE "lost"]
  BY DEF Receive
<1>. QED BY <1>1, <1>2, <1>3, <1>4

\* Nothing that is pending changes, and nobody begins or ends to wait for it.
LEMMA AwaitSame ==
  ASSUME AwaitInv, UNCHANGED clientVars, step'["loop"] # "off" => attempts' < MaxAttempts,
         \A a \in Actor : step'[a] # step[a] => {step'[a], step[a]} \cap {"opening", "list"} = {}
  PROVE  AwaitInv'
<1>1. \A a \in Actor : /\ step'[a] = "opening" <=> step[a] = "opening"
                       /\ step'[a] = "list" <=> step[a] = "list"
  OBVIOUS
<1>. QED BY <1>1 DEF AwaitInv, clientVars

\* Every step keeps what is pending equal to what is awaited.
LEMMA StepAwait ==
  ASSUME TypeOK, SeqInv, AwaitInv, [Next]_vars
  PROVE  AwaitInv'
<1>0. /\ step \in [Actor -> Step] /\ pendingLists \in Seq(Actor) /\ attempts \in 0..MaxAttempts
      /\ MaxAttempts \in Nat \ {0} /\ pendingOpens \subseteq Key
  BY ManagerAssumption DEF TypeOK, SeqInv
<1>1. ASSUME UNCHANGED <<clientVars, step, attempts>> PROVE AwaitInv'
  BY <1>1, AwaitSame DEF AwaitInv
<1>2. ASSUME NEW c \in Conn, Serve(c) \/ WireDrops(c) \/ Connects(c) PROVE AwaitInv'
  BY <1>1, <1>2 DEF Serve, WireDrops, Connects, actorVars
<1>3. ASSUME NEW c \in Conn, Gone(c) PROVE AwaitInv'
  <2>1. \A a \in Actor : \/ a \in Rejected(c) /\ step'[a] = Failed(a)
                         \/ /\ a \notin Rejected(c)
                            /\ step'[a] = step[a] \/ (a = "loop" /\ step[a] = "off" /\ step'[a] = "dial")
    BY <1>0, <1>3 DEF Gone
  <2>2. \A a \in Actor : Failed(a) \notin {"opening", "list"}
    BY FailedStep
  <2>3. \A a \in Actor : a \in Rejected(c) => step[a] # "off"
    BY <1>0 DEF Rejected, AwaitInv
  <2>4. step'["loop"] # "off" => attempts' < MaxAttempts
    BY <1>0, <1>3, <2>1, <2>3, Actors DEF Gone, AttemptsAfter, AwaitInv
  <2>5. CASE c = socket
    <3>1. \A a \in Actor : step'[a] \notin {"opening", "list"}
      <4>1. \A a \in Actor : step[a] \in {"opening", "list"} => a \in Rejected(c)
        BY <1>0, <2>5 DEF Rejected, AwaitInv
      <4>. QED BY <2>1, <2>2, <4>1
    <3>2. pendingOpens' = {} /\ pendingLists' = <<>>
      BY <1>3, <2>5 DEF Gone
    <3>. QED BY <2>4, <3>1, <3>2 DEF AwaitInv
  <2>6. CASE c # socket
    <3>1. UNCHANGED clientVars
      BY <1>3, <2>6 DEF Gone
    <3>2. \A a \in Actor : a \in Rejected(c) => step[a] = "handshake"
      BY <2>6 DEF Rejected
    <3>. QED BY <2>1, <2>2, <2>4, <3>1, <3>2, AwaitSame
  <2>. QED BY <2>5, <2>6
<1>4. ASSUME NEW k \in Key, SessionEnds(k) PROVE AwaitInv'
  BY <1>1, <1>4 DEF SessionEnds, actorVars
<1>5. ASSUME NEW k \in Key, Ensure(k) \/ Joined(k) \/ Rearmed(k) \/ Opened(k) \/ OpenTimesOut(k) PROVE AwaitInv'
  <2>1. k \in Actor /\ k # "loop" /\ "loop" \in Actor
    BY Actors
  <2>2. attempts' = attempts /\ pendingLists' = pendingLists
    BY <1>5 DEF Ensure, Joined, Rearmed, Opened, OpenTimesOut, clientVars
  <2>3. step[k] # "list"
    BY <1>0, <1>5, <2>1 DEF Ensure, Joined, Rearmed, Opened, OpenTimesOut, AwaitInv
  <2>4. \/ step' = [step EXCEPT ![k] = "opening"] /\ pendingOpens' = pendingOpens \cup {k}
        \/ \E x \in {"off", "join", "dial"} :
             step' = [step EXCEPT ![k] = x] /\ pendingOpens' = pendingOpens \ {k}
    <3>1. CASE Ensure(k) \/ Joined(k) \/ Rearmed(k) \/ Opened(k)
      <4>1. k \notin pendingOpens
        BY <2>1, <3>1 DEF Ensure, Joined, Rearmed, Opened, AwaitInv
      <4>. QED BY <3>1, <4>1 DEF Ensure, Joined, Rearmed, Opened, SendOpen, clientVars
    <3>2. CASE OpenTimesOut(k)
      BY <3>2 DEF OpenTimesOut
    <3>. QED BY <1>5, <3>1, <3>2
  <2>5. /\ \A a \in Actor : a # k => step'[a] = step[a] /\ (a \in pendingOpens' <=> a \in pendingOpens)
        /\ step'[k] = "opening" <=> k \in pendingOpens'
        /\ step'[k] # "list"
    BY <1>0, <2>1, <2>4
  <2>. QED BY <2>1, <2>2, <2>3, <2>5 DEF AwaitInv
<1>6. ASSUME NEW a \in Actor, Dial(a) \/ DialFails(a) PROVE AwaitInv'
  <2>1. UNCHANGED clientVars /\ attempts' = attempts /\ step[a] = "dial"
    BY <1>6 DEF Dial, DialFails
  <2>2. \A b \in Actor : b # a => step'[b] = step[b]
    BY <1>0, <1>6 DEF Dial, DialFails
  <2>3. step'[a] = "handshake" \/ step'[a] = Failed(a)
    BY <1>0, <1>6 DEF Dial, DialFails
  <2>4. step'[a] \notin {"opening", "list"}
    BY <2>3, FailedStep
  <2>. QED BY <2>1, <2>2, <2>4, AwaitSame, Actors DEF AwaitInv
<1>7. ASSUME DaemonDies PROVE AwaitInv'
  BY <1>1, <1>7 DEF DaemonDies, actorVars
<1>8. ASSUME Receive PROVE AwaitInv'
  <2>0. attempts' = attempts /\ "loop" \in Actor
    BY <1>8, Actors DEF Receive
  <2>1. CASE Got.t = "hello-ack"
    BY <1>0, <1>8, <2>0, <2>1, AwaitSame DEF Receive, Got, AwaitInv
  <2>2. CASE Got.t \in {"open-ack", "open-err"}
    <3>1. pendingOpens' = pendingOpens \ Got.ks /\ pendingLists' = pendingLists
      BY <1>8, <2>2 DEF Receive, Got
    <3>2. PICK x \in {"opened", "off"} :
            step' = [a \in Actor |-> IF a \in Got.ks \cap pendingOpens THEN x ELSE step[a]]
      BY <1>8, <2>2 DEF Receive, Got
    <3>3. \A a \in Actor : IF a \in Got.ks \cap pendingOpens
                           THEN step'[a] = x /\ step[a] = "opening" ELSE step'[a] = step[a]
      BY <3>2 DEF AwaitInv
    <3>. QED BY <2>0, <3>1, <3>3 DEF AwaitInv
  <2>3. CASE Got.t = "exit" \/ (Got.t = "list-reply" /\ pendingLists = <<>>)
    BY <1>1, <1>8, <2>0, <2>3 DEF Receive, Got
  <2>4. CASE Got.t = "list-reply" /\ pendingLists # <<>>
    <3>. DEFINE a == Head(pendingLists)
                r == Tail(pendingLists)
    <3>1. step' = [step EXCEPT ![a] = "listed"] /\ pendingLists' = r /\ pendingOpens' = pendingOpens
      BY <1>8, <2>4 DEF Receive, Got
    <3>2. /\ a = pendingLists[1] /\ 1 \in DOMAIN pendingLists
          /\ \A i \in DOMAIN r : r[i] = pendingLists[i + 1] /\ i + 1 \in DOMAIN pendingLists /\ i + 1 # 1 /\ i \in Nat
          /\ \A j \in DOMAIN pendingLists : j # 1 => j - 1 \in DOMAIN r /\ r[j - 1] = pendingLists[j]
      BY <1>0, <2>4, Taken
    <3>3. a \in Actor /\ step[a] = "list"
      BY <1>0, <2>4, <3>2 DEF AwaitInv
    <3>. HIDE DEF a, r
    <3>4. \A b \in Actor : b # a => step'[b] = step[b]
      BY <1>0, <3>1
    <3>5. step'[a] = "listed"
      BY <1>0, <3>1, <3>3
    <3>6. \A b \in Actor : step'[b] = "opening" <=> b \in pendingOpens'
      BY <3>1, <3>3, <3>4, <3>5 DEF AwaitInv
    <3>7. \A b \in Actor : step'[b] = "list" <=> \E i \in DOMAIN r : r[i] = b
      BY <3>2, <3>3, <3>4, <3>5 DEF AwaitInv
    <3>8. \A i, j \in DOMAIN r : r[i] = r[j] => i = j
      <4>1. ASSUME NEW i \in DOMAIN r, NEW j \in DOMAIN r, r[i] = r[j] PROVE i = j
        <5>1. i + 1 = j + 1
          BY <3>2, <4>1 DEF AwaitInv
        <5>. QED BY <3>2, <5>1
      <4>. QED BY <4>1
    <3>9. step'["loop"] # "off" => attempts' < MaxAttempts
      BY <2>0, <3>3, <3>4 DEF AwaitInv
    <3>. QED BY <3>1, <3>6, <3>7, <3>8, <3>9 DEF AwaitInv
  <2>5. Got.t \in {"hello-ack", "open-ack", "open-err", "exit", "list-reply"}
    BY <1>8, ReceivedKinds
  <2>. QED BY <2>1, <2>2, <2>3, <2>4, <2>5
<1>9. ASSUME NEW a \in Actor, Greeted(a) PROVE AwaitInv'
  <2>. DEFINE r == Append(pendingLists, a)
              n == Len(pendingLists) + 1
  <2>1. step[a] = "greeted" /\ step' = [step EXCEPT ![a] = "list"] /\ pendingLists' = r
        /\ UNCHANGED <<pendingOpens, attempts>>
    BY <1>9 DEF Greeted
  <2>2. /\ DOMAIN r = DOMAIN pendingLists \cup {n} /\ r[n] = a
        /\ \A i \in DOMAIN pendingLists : r[i] = pendingLists[i] /\ i < n
    BY <1>0, Appended
  <2>. HIDE DEF r, n
  <2>3. step'[a] = "list" /\ \A b \in Actor : b # a => step'[b] = step[b]
    BY <1>0, <2>1
  <2>4. \A b \in Actor : step'[b] = "list" <=> \E i \in DOMAIN r : r[i] = b
    BY <2>1, <2>2, <2>3 DEF AwaitInv
  <2>5. \A i, j \in DOMAIN r : r[i] = r[j] => i = j
    BY <2>1, <2>2 DEF AwaitInv
  <2>6. \A b \in Actor : step'[b] = "opening" <=> b \in pendingOpens'
    BY <2>1, <2>3 DEF AwaitInv
  <2>7. step'["loop"] # "off" => attempts' < MaxAttempts
    BY <2>1, <2>3, Actors DEF AwaitInv
  <2>. QED BY <2>1, <2>4, <2>5, <2>6, <2>7 DEF AwaitInv
<1>10. ASSUME NEW a \in Actor, Adopt(a) PROVE AwaitInv'
  <2>1. UNCHANGED clientVars /\ attempts' = attempts /\ step[a] \in {"listed", "sync"}
    BY <1>10 DEF Adopt
  <2>2. \E x \in {"sync", "armed", "off"} : step' = [step EXCEPT ![a] = x]
    BY <1>10 DEF Adopt
  <2>3. \A b \in Actor : step'[b] # step[b] => b = a /\ step'[b] \in {"sync", "armed", "off"}
    BY <1>0, <2>2
  <2>4. step'["loop"] # "off" => step["loop"] # "off"
    BY <1>0, <2>1, <2>3, Actors
  <2>. QED BY <2>1, <2>3, <2>4, AwaitSame DEF AwaitInv
<1>11. ASSUME Retry PROVE AwaitInv'
  <2>1. UNCHANGED clientVars /\ step["loop"] = "backoff" /\ attempts' = attempts + 1
    BY <1>11 DEF Retry
  <2>2. \/ attempts' < MaxAttempts /\ step' = [step EXCEPT !["loop"] = "dial"]
        \/ step' = [step EXCEPT !["loop"] = "off"]
    BY <1>11 DEF Retry
  <2>3. \A b \in Actor : step'[b] # step[b] => b = "loop" /\ step'[b] \in {"dial", "off"}
    BY <1>0, <2>2
  <2>4. step'["loop"] # "off" => attempts' < MaxAttempts
    BY <1>0, <2>2, Actors
  <2>. QED BY <2>1, <2>3, <2>4, AwaitSame
<1>12. CASE UNCHANGED vars
  BY <1>1, <1>12 DEF vars, actorVars
<1>. QED BY <1>2, <1>3, <1>4, <1>5, <1>6, <1>7, <1>8, <1>9, <1>10, <1>11, <1>12 DEF Next, Continues
-----------------------------------------------------------------------------
(* One connection, one actor.                                                 *)

\* What disturbed it once is not forgotten, and this step did not.
LEMMA CalmBefore ==
  ASSUME [Next]_vars, Undisturbed'
  PROVE  Undisturbed
<1>1. ~collided' /\ ~yieldDrop'
  BY Zenon DEF Undisturbed
<1>2. collided => collided'
  <2>1. collided' = collided \/ collided' = Collides(step')
    BY Zenon DEF Next, Continues, Serve, WireDrops, Connects, Gone, SessionEnds, Ensure, OpenTimesOut,
        Dial, DialFails, DaemonDies, Receive, Greeted, Adopt, Joined, Rearmed, Opened, Retry, vars, histVars
  <2>. QED BY <2>1, Zenon DEF Collides
<1>3. yieldDrop => yieldDrop'
  BY Zenon DEF Next, Continues, Serve, WireDrops, Connects, Gone, SessionEnds, Ensure, OpenTimesOut,
        Dial, DialFails, DaemonDies, Receive, Greeted, Adopt, Joined, Rearmed, Opened, Retry, vars, histVars
<1>. QED BY <1>1, <1>2, <1>3, Zenon DEF Undisturbed

\* Steps that could make two actors re-arm, or drop a resync, did not.
LEMMA CalmStep ==
  ASSUME Undisturbed'
  PROVE  /\ \A c : Gone(c) \/ Ensure(c) \/ Joined(c) =>
              \A a, b \in Actor : step'[a] \in Rearm /\ step'[b] \in Rearm => a = b
         /\ \A c : Gone(c) /\ c = socket => \A a \in Actor : step[a] # "sync"
<1>1. ~collided' /\ ~yieldDrop'
  BY Zenon DEF Undisturbed
<1>2. ASSUME NEW c, Gone(c) \/ Ensure(c) \/ Joined(c)
      PROVE  \A a, b \in Actor : step'[a] \in Rearm /\ step'[b] \in Rearm => a = b
  <2>1. collided' = Collides(step')
    BY <1>2, Zenon DEF Gone, Ensure, Joined
  <2>. QED BY <1>1, <2>1, Zenon DEF Collides
<1>3. ASSUME NEW c, Gone(c), c = socket PROVE \A a \in Actor : step[a] # "sync"
  BY <1>1, <1>3, Zenon DEF Gone
<1>. QED BY <1>2, <1>3

\* The parts of the state that AloneInv is about, with the step at hand.
Links == link' \in [Conn -> Link] /\ link \in [Conn -> Link] /\ socket \in Conn
Steps == step' \in [Actor -> Step] /\ step \in [Actor -> Step]

\* A link makes progress or ends.
LEMMA LinkMoves ==
  ASSUME AloneInv, UNCHANGED <<socket, connected, step, at>>,
         \A c \in Conn : \/ link'[c] = link[c]
                         \/ link[c] = "up" /\ link'[c] = "lost"
                         \/ link[c] = "dialing" /\ link'[c] = "hello"
                         \/ link[c] \in {"hello", "dialing"} /\ link'[c] = "refused",
         socket \in Conn
  PROVE  AloneInv'
<1>1. /\ \A c \in Conn : c # socket => link'[c] \in {"none", "gone"}
      /\ link'[socket] # "none" /\ (link'[socket] = "gone" <=> link[socket] = "gone")
      /\ link[socket] \in {"up", "lost"} => link'[socket] \in {"up", "lost"}
      /\ link[socket] \in {"dialing", "hello", "refused"} => link'[socket] \in {"dialing", "hello", "refused"}
  BY DEF AloneInv
<1>. QED BY <1>1 DEF AloneInv, Rearming

\* An actor that does not re-arm the connection goes on, and still does not.
LEMMA OthersMove ==
  ASSUME AloneInv, UNCHANGED <<socket, connected, link, at>>, NEW k \in Actor, k # "boot",
         ~Rearming(k), step'[k] \notin Rearm,
         step'[k] \in {"armed", "opening", "opened"} => connected,
         step'[k] # "off" => step["boot"] = "off",
         \A a \in Actor : a # k => step'[a] = step[a]
  PROVE  AloneInv'
<1>1. \A a \in Actor : /\ Rearming(a)' <=> Rearming(a)
                       /\ step'[a] = "handshake" <=> step[a] = "handshake"
                       /\ step'[a] \in {"greeted", "list", "listed", "sync"} <=> step[a] \in {"greeted", "list", "listed", "sync"}
                       /\ step'[a] \in {"dial", "backoff"} <=> step[a] \in {"dial", "backoff"}
                       /\ step'[a] \in {"armed", "opening", "opened"} => connected
  BY DEF AloneInv, Rearming, Rearm
<1>2. step'["boot"] = step["boot"]
  BY Actors
<1>. QED BY <1>1, <1>2 DEF AloneInv

\* The actor that re-arms the connection goes on with it.
LEMMA RearmMoves ==
  ASSUME AloneInv, Links, UNCHANGED <<socket, connected>>, NEW a \in Actor, Rearming(a), step'[a] \in Rearm,
         \A b \in Actor : b # a => step'[b] = step[b],
         \A c \in Conn : c # socket => link'[c] = link[c],
         link'[socket] # "none",
         step'[a] = "handshake" => at'[a] = socket /\ link'[socket] \in {"dialing", "hello", "refused"},
         step'[a] \in {"greeted", "list", "listed", "sync"} => link'[socket] \in {"up", "lost"},
         step'[a] \in {"dial", "backoff"} => link'[socket] = "gone"
  PROVE  AloneInv'
<1>1. \A b \in Actor : b # a => ~Rearming(b) /\ step'[b] = step[b]
  BY DEF AloneInv
<1>2. ~connected /\ \A b \in Actor : step[b] \notin {"armed", "opening", "opened"}
  BY DEF AloneInv
<1>3. \A b \in Actor : Rearming(b)' <=> b = a
  BY <1>1 DEF Rearming
<1>4. step'["boot"] # "off" => \A b \in Actor : b # "boot" => step'[b] = "off"
  <2>1. step[a] # "off" /\ step'[a] # "off"
    BY DEF Rearming, Rearm
  <2>. QED BY <1>1, <2>1, Actors DEF AloneInv
<1>5. step'[a] \notin {"armed", "opening", "opened"}
  BY DEF Rearm
<1>6. \A b \in Actor : b # a => step'[b] \notin {"handshake", "greeted", "list", "listed", "sync", "dial", "backoff"}
  BY <1>1 DEF Rearming, Rearm
<1>. QED BY <1>1, <1>2, <1>3, <1>4, <1>5, <1>6 DEF AloneInv, Links

\* The steps of two actors are one step, of the actor that moves.
LEMMA OneMoves ==
  ASSUME NEW a \in Actor, NEW x, Steps, step' = [step EXCEPT ![a] = x]
  PROVE  step'[a] = x /\ \A b \in Actor : b # a => step'[b] = step[b]
  BY DEF Steps

\* Every step that disturbs nothing leaves one connection and one re-arming actor.
LEMMA StepAlone ==
  ASSUME TypeOK, SeqInv, AwaitInv, AloneInv, GreetInv, TypeOK', Undisturbed', [Next]_vars
  PROVE  AloneInv'
<1>0. Links /\ Steps
  BY DEF TypeOK, Links, Steps
<1>1. ASSUME NEW c \in Conn, Serve(c) \/ WireDrops(c) PROVE AloneInv'
  <2>1. UNCHANGED <<socket, connected, step, at>> /\ link[c] \in {"hello", "up"}
    BY <1>1 DEF Serve, WireDrops, actorVars
  <2>2. link' = link \/ link' = [link EXCEPT ![c] = Ended(c)]
    BY <1>1 DEF Serve, WireDrops
  <2>. QED BY <1>0, <2>1, <2>2, LinkMoves DEF Links, Ended
<1>2. ASSUME NEW c \in Conn, Connects(c) PROVE AloneInv'
  <2>1. UNCHANGED <<socket, connected, step, at>> /\ link[c] = "dialing"
        /\ (link' = [link EXCEPT ![c] = "hello"] \/ link' = [link EXCEPT ![c] = "refused"])
    BY <1>2 DEF Connects, actorVars
  <2>. QED BY <1>0, <2>1, LinkMoves DEF Links
<1>3. ASSUME NEW c \in Conn, Gone(c) PROVE AloneInv'
  <2>1. c = socket /\ link[c] \in {"refused", "lost"} /\ link' = [link EXCEPT ![c] = "gone"]
        /\ UNCHANGED <<socket, at>> /\ Idle
    BY <1>3 DEF Gone, AloneInv
  <2>2. connected => Disconnected(c)
    BY <2>1, Actors DEF AloneInv, Disconnected
  <2>3. ~connected'
    <3>1. connected' <=> connected /\ ~Disconnected(c)
      BY <1>3, Zenon DEF Gone, AfterDrop
    <3>. QED BY <2>2, <3>1, Zenon
  <2>4. \A a, b \in Actor : step'[a] \in Rearm /\ step'[b] \in Rearm => a = b
    BY <1>3, CalmStep
  <2>5. \A a \in Actor : step[a] # "sync"
    BY <1>3, <2>1, CalmStep
  <2>6. \A a \in Actor : step[a] \notin {"greeted", "listed", "armed", "opened"}
    BY <2>1 DEF Idle, Due
  <2>7. \A a \in Actor : \/ a \in Rejected(c) /\ step'[a] = Failed(a)
                         \/ /\ a \notin Rejected(c)
                            /\ step'[a] = step[a] \/ (a = "loop" /\ step["boot"] = "off" /\ step'[a] = "dial")
    BY <1>0, <1>3 DEF Gone, Steps, Disconnected
  <2>8. \A a \in Actor : step[a] \in {"handshake", "list", "opening"} => a \in Rejected(c)
    BY <2>1 DEF Rejected, AloneInv, AwaitInv
  <2>9. \A a \in Actor : step'[a] \in {"off", "join", "dial", "backoff", "failed"}
    BY <1>0, <2>5, <2>6, <2>7, <2>8, FailedStep DEF Steps, Step
  <2>10. step'["boot"] # "off" => \A a \in Actor : a # "boot" => step'[a] = "off"
    <3>1. \A a \in Actor : a \in Rejected(c) => step[a] # "off"
      BY DEF Rejected, AwaitInv
    <3>2. step'["boot"] # "off" => step["boot"] # "off"
      BY <2>7, <3>1, Actors
    <3>. QED BY <2>7, <3>1, <3>2 DEF AloneInv
  <2>11. /\ \A d \in Conn : d # socket => link'[d] \in {"none", "gone"}
         /\ link'[socket] = "gone"
    BY <1>0, <2>1 DEF Links, AloneInv
  <2>. QED BY <2>1, <2>3, <2>4, <2>9, <2>10, <2>11 DEF AloneInv, Rearming
<1>4. ASSUME NEW k \in Key, SessionEnds(k) PROVE AloneInv'
  BY <1>4, LinkMoves, <1>0 DEF SessionEnds, actorVars, Links
<1>5. ASSUME NEW k \in Key, Ensure(k) \/ Joined(k) PROVE AloneInv'
  <2>1. UNCHANGED <<socket, connected, link, at>> /\ k \in Actor /\ k # "boot" /\ step[k] \in {"off", "join"}
    BY <1>5, Actors DEF Ensure, Joined
  <2>2. step["boot"] = "off"
    BY <1>5, <2>1 DEF Ensure, Joined, AloneInv
  <2>3. \A a, b \in Actor : step'[a] \in Rearm /\ step'[b] \in Rearm => a = b
    BY <1>5, CalmStep
  <2>4. PICK x \in {"off", "opening", "join", "dial"} : step' = [step EXCEPT ![k] = x] /\ (x = "opening" => connected)
        /\ (x = "dial" => ~connected)
    BY <1>5 DEF Ensure, Joined, SendOpen
  <2>5. step'[k] = x /\ \A b \in Actor : b # k => step'[b] = step[b]
    BY <1>0, <2>1, <2>4, OneMoves
  <2>6. ~Rearming(k)
    BY <2>1 DEF Rearming, Rearm
  <2>7. CASE x # "dial"
    <3>1. x \notin Rearm /\ (x \in {"armed", "opening", "opened"} => connected)
      BY <2>4, <2>7 DEF Rearm
    <3>. QED BY <2>1, <2>2, <2>5, <2>6, <3>1, OthersMove
  <2>8. CASE x = "dial"
    <3>1. ~connected /\ \A a \in Actor : ~Rearming(a)
      <4>1. \A a \in Actor : a # k => step'[a] \notin Rearm
        BY <2>1, <2>3, <2>5, <2>8 DEF Rearm
      <4>. QED BY <2>4, <2>5, <2>6, <2>8, <4>1 DEF Rearming
    <3>2. link[socket] = "gone"
      BY <3>1 DEF AloneInv
    <3>3. \A a \in Actor : a # k => step[a] \notin {"handshake", "greeted", "list", "listed", "sync", "dial", "backoff"}
                                    /\ step[a] \notin {"armed", "opening", "opened"}
      BY <3>1 DEF Rearming, Rearm, AloneInv
    <3>4. step'["boot"] = "off"
      BY <2>1, <2>2, <2>5, Actors
    <3>. QED BY <2>1, <2>3, <2>5, <2>8, <3>1, <3>2, <3>3, <3>4 DEF AloneInv, Rearming
  <2>. QED BY <2>7, <2>8
<1>6. ASSUME NEW k \in Key, Rearmed(k) \/ Opened(k) \/ OpenTimesOut(k) PROVE AloneInv'
  <2>1. UNCHANGED <<socket, connected, link, at>> /\ k \in Actor /\ k # "boot"
    BY <1>6, Actors DEF Rearmed, Opened, OpenTimesOut, wireVars
  <2>2. step[k] \in {"armed", "opened", "opening"}
    BY <1>6, <2>1 DEF Rearmed, Opened, OpenTimesOut, AwaitInv
  <2>3. connected
    BY <2>1, <2>2 DEF AloneInv
  <2>4. step["boot"] = "off"
    BY <2>3, Actors DEF AloneInv
  <2>5. PICK x \in {"off", "opening"} : step' = [step EXCEPT ![k] = x]
    BY <1>6 DEF Rearmed, Opened, OpenTimesOut, SendOpen
  <2>6. step'[k] = x /\ \A b \in Actor : b # k => step'[b] = step[b]
    BY <1>0, <2>1, <2>5, OneMoves
  <2>7. ~Rearming(k) /\ x \notin Rearm
    BY <2>2 DEF Rearming, Rearm
  <2>. QED BY <2>1, <2>3, <2>4, <2>6, <2>7, OthersMove
<1>7. ASSUME NEW a \in Actor, Dial(a) PROVE AloneInv'
  <2>1. PICK c \in Conn : link[c] = "none" /\ link' = [link EXCEPT ![c] = "dialing"]
                          /\ socket' = c /\ at' = [at EXCEPT ![a] = c]
    BY <1>7 DEF Dial
  <2>2. step[a] = "dial" /\ step' = [step EXCEPT ![a] = "handshake"] /\ connected' = connected
    BY <1>7 DEF Dial
  <2>3. Rearming(a) /\ link[socket] = "gone" /\ ~connected /\ \A b \in Actor : b # a => ~Rearming(b)
    BY <2>2 DEF AloneInv, Rearming, Rearm
  <2>4. step'[a] = "handshake" /\ \A b \in Actor : b # a => step'[b] = step[b]
    BY <1>0, <2>2, OneMoves
  <2>5. \A b \in Actor : b # a => step'[b] \notin {"handshake", "greeted", "list", "listed", "sync", "dial", "backoff"}
                                  /\ step'[b] \notin {"armed", "opening", "opened"} /\ step'[b] \notin Rearm
    BY <2>3, <2>4 DEF AloneInv, Rearming, Rearm
  <2>6. at'[a] = c
    BY <2>1 DEF TypeOK
  <2>7. link'[c] = "dialing" /\ \A d \in Conn : d # c => link'[d] \in {"none", "gone"}
    BY <1>0, <2>1, <2>3 DEF Links, AloneInv
  <2>8. step'["boot"] # "off" => \A b \in Actor : b # "boot" => step'[b] = "off"
    BY <2>2, <2>4, Actors DEF AloneInv
  <2>9. Rearming(a)'
    BY <2>4 DEF Rearming, Rearm
  <2>. QED BY <2>1, <2>2, <2>3, <2>4, <2>5, <2>6, <2>7, <2>8, <2>9 DEF AloneInv, Rearming
<1>8. ASSUME NEW a \in Actor, DialFails(a) PROVE AloneInv'
  <2>1. UNCHANGED <<socket, connected, link, at>> /\ step[a] = "dial" /\ step' = [step EXCEPT ![a] = Failed(a)]
    BY <1>8 DEF DialFails, wireVars
  <2>2. step'[a] = Failed(a) /\ \A b \in Actor : b # a => step'[b] = step[b]
    BY <1>0, <2>1, OneMoves
  <2>3. link[socket] = "gone" /\ ~connected /\ Rearming(a) /\ \A b \in Actor : b # a => ~Rearming(b)
    BY <2>1 DEF AloneInv, Rearming, Rearm
  <2>4. \A b \in Actor : b # a => step'[b] \notin {"handshake", "greeted", "list", "listed", "sync", "dial", "backoff"}
                                  /\ step'[b] \notin {"armed", "opening", "opened"} /\ step'[b] \notin Rearm
    BY <2>2, <2>3 DEF AloneInv, Rearming, Rearm
  <2>5. step'[a] \in {"backoff", "failed", "off"}
    BY <2>2, FailedStep
  <2>6. step'["boot"] # "off" => \A b \in Actor : b # "boot" => step'[b] = "off"
    BY <2>1, <2>2, <2>5, Actors, FailedStep DEF AloneInv
  <2>. QED BY <1>0, <2>1, <2>3, <2>4, <2>5, <2>6 DEF AloneInv, Rearming, Links
<1>9. ASSUME DaemonDies PROVE AloneInv'
  <2>1. UNCHANGED <<socket, connected, step, at>>
        /\ link' = [c \in Conn |-> IF link[c] \in {"hello", "up"} THEN Ended(c) ELSE link[c]]
    BY <1>9 DEF DaemonDies, actorVars
  <2>. QED BY <1>0, <2>1, LinkMoves DEF Links, Ended
<1>10. ASSUME Receive PROVE AloneInv'
  <2>0. /\ socket' = socket /\ UNCHANGED <<connected, at>> /\ \A c \in Conn : c # socket => link'[c] = link[c]
        /\ link[socket] # "gone" /\ Got.t \in {"hello-ack", "open-ack", "open-err", "exit", "list-reply"}
    BY <1>0, <1>10, ReceivedKinds DEF GreetInv, Links
  <2>1. CASE Got.t = "hello-ack"
    <3>1. /\ link'[socket] = IF link[socket] = "hello" THEN "up" ELSE "lost"
          /\ \A a \in Actor : step'[a] = IF step[a] = "handshake" /\ at[a] = socket THEN "greeted" ELSE step[a]
      BY <1>0, <1>10, <2>1 DEF Receive, Got, Links
    <3>2. \A a \in Actor : /\ step[a] = "handshake" => step'[a] = "greeted"
                           /\ step[a] # "handshake" => step'[a] = step[a]
      BY <3>1 DEF AloneInv
    <3>3. \A a \in Actor : /\ Rearming(a)' <=> Rearming(a)
                           /\ step'[a] \notin {"handshake", "dial", "backoff"}
                           /\ step'[a] \in {"armed", "opening", "opened"} => connected
                           /\ step'[a] = "off" <=> step[a] = "off"
      BY <2>0, <3>2 DEF AloneInv, Rearming, Rearm
    <3>4. "boot" \in Actor
      BY Actors
    <3>5. link'[socket] \in {"up", "lost"}
      BY <3>1
    <3>. QED BY <1>0, <2>0, <3>3, <3>4, <3>5 DEF AloneInv, Links
  <2>2. CASE Got.t \in {"open-ack", "open-err"}
    <3>1. PICK x \in {"opened", "off"} :
            step' = [a \in Actor |-> IF a \in Got.ks \cap pendingOpens THEN x ELSE step[a]]
      BY <1>10, <2>2 DEF Receive, Got
    <3>2. link' = link
      BY <1>10, <2>2 DEF Receive, Got
    <3>3. \A a \in Actor : \/ step'[a] = step[a]
                           \/ step[a] = "opening" /\ connected /\ step'[a] = x
      BY <3>1 DEF AwaitInv, AloneInv
    <3>4. \A a \in Actor : /\ Rearming(a)' <=> Rearming(a)
                           /\ step'[a] \in {"armed", "opening", "opened"} => connected
                           /\ step'[a] # step[a] => connected
                           /\ step'[a] \in Rearm => step'[a] = step[a]
      BY <3>3 DEF AloneInv, Rearming, Rearm
    <3>5. connected => step["boot"] = "off" /\ step'["boot"] = "off"
      BY <1>10, <3>1, Actors DEF AloneInv, TypeOK
    <3>6. \A a \in Actor : /\ step'[a] = "handshake" => step[a] = "handshake"
                           /\ step'[a] \in {"greeted", "list", "listed", "sync"} => step[a] \in {"greeted", "list", "listed", "sync"}
                           /\ step'[a] \in {"dial", "backoff"} => step[a] \in {"dial", "backoff"}
      BY <3>3
    <3>. QED BY <2>0, <3>2, <3>4, <3>5, <3>6, Actors DEF AloneInv
  <2>3. CASE Got.t = "exit" \/ (Got.t = "list-reply" /\ pendingLists = <<>>)
    <3>1. UNCHANGED <<link, step>>
      BY <1>10, <2>3 DEF Receive, Got
    <3>. QED BY <1>0, <2>0, <3>1, LinkMoves DEF Links
  <2>4. CASE Got.t = "list-reply" /\ pendingLists # <<>>
    <3>. DEFINE a == Head(pendingLists)
    <3>1. step' = [step EXCEPT ![a] = "listed"] /\ link' = link
      BY <1>10, <2>4 DEF Receive, Got
    <3>2. pendingLists \in Seq(Actor) /\ a = pendingLists[1] /\ 1 \in DOMAIN pendingLists /\ a \in Actor
      BY <2>4, Taken DEF SeqInv
    <3>3. step[a] = "list"
      BY <3>2 DEF AwaitInv
    <3>. HIDE DEF a
    <3>4. step'[a] = "listed" /\ \A b \in Actor : b # a => step'[b] = step[b]
      BY <1>0, <3>1, <3>2, OneMoves
    <3>5. Rearming(a) /\ link[socket] \in {"up", "lost"} /\ step'[a] \in Rearm
      BY <3>2, <3>3, <3>4 DEF AloneInv, Rearming, Rearm
    <3>. QED BY <1>0, <2>0, <3>1, <3>2, <3>4, <3>5, RearmMoves
  <2>. QED BY <2>0, <2>1, <2>2, <2>3, <2>4
<1>11. ASSUME NEW a \in Actor, Greeted(a) PROVE AloneInv'
  <2>1. UNCHANGED <<socket, connected, link, at>> /\ step[a] = "greeted" /\ step' = [step EXCEPT ![a] = "list"]
    BY <1>11 DEF Greeted
  <2>2. step'[a] = "list" /\ \A b \in Actor : b # a => step'[b] = step[b]
    BY <1>0, <2>1, OneMoves
  <2>3. Rearming(a) /\ link[socket] \in {"up", "lost"} /\ step'[a] \in Rearm
    BY <2>1, <2>2 DEF AloneInv, Rearming, Rearm
  <2>. QED BY <1>0, <2>1, <2>2, <2>3, RearmMoves
<1>12. ASSUME NEW a \in Actor, Adopt(a) PROVE AloneInv'
  <2>1. UNCHANGED <<socket, link, at>> /\ step[a] \in {"listed", "sync"}
    BY <1>12 DEF Adopt
  <2>2. Rearming(a) /\ link[socket] \in {"up", "lost"} /\ \A b \in Actor : b # a => ~Rearming(b)
    BY <2>1 DEF AloneInv, Rearming, Rearm
  <2>3. CASE step' = [step EXCEPT ![a] = "sync"] /\ connected' = connected
    <3>1. step'[a] = "sync" /\ \A b \in Actor : b # a => step'[b] = step[b]
      BY <1>0, <2>3, OneMoves
    <3>2. step'[a] \in Rearm
      BY <3>1 DEF Rearm
    <3>. QED BY <1>0, <2>1, <2>2, <2>3, <3>1, <3>2, RearmMoves
  <2>4. CASE step' = [step EXCEPT ![a] = IF a \in Key THEN "armed" ELSE "off"] /\ connected' = TRUE
    <3>1. step'[a] \in {"armed", "off"} /\ (a \notin Key => step'[a] = "off")
          /\ \A b \in Actor : b # a => step'[b] = step[b]
      BY <1>0, <2>4, OneMoves
    <3>2. connected'
      BY <2>4, Zenon
    <3>3. \A b \in Actor : step'[b] \notin Rearm
      BY <2>2, <3>1 DEF Rearming, Rearm
    <3>4. step'["boot"] = "off"
      BY <2>1, <3>1, Actors DEF AloneInv
    <3>5. \A b \in Actor : step'[b] \notin {"handshake", "greeted", "list", "listed", "sync", "dial", "backoff"}
      BY <3>3 DEF Rearm
    <3>. QED BY <1>0, <2>1, <2>2, <3>2, <3>3, <3>4, <3>5 DEF AloneInv, Rearming, Links
  <2>. QED BY <1>12, <2>3, <2>4 DEF Adopt
<1>13. ASSUME Retry PROVE AloneInv'
  <2>1. UNCHANGED <<socket, connected, link, at>> /\ step["loop"] = "backoff" /\ "loop" \in Actor /\ "loop" # "boot"
    BY <1>13, Actors DEF Retry, wireVars
  <2>2. PICK x \in {"dial", "off"} : step' = [step EXCEPT !["loop"] = x]
    BY <1>13 DEF Retry
  <2>3. step'["loop"] = x /\ \A b \in Actor : b # "loop" => step'[b] = step[b]
    BY <1>0, <2>1, <2>2, OneMoves
  <2>4. Rearming("loop") /\ link[socket] = "gone" /\ \A b \in Actor : b # "loop" => ~Rearming(b)
    BY <2>1 DEF AloneInv, Rearming, Rearm
  <2>5. ~connected /\ \A b \in Actor : step[b] \notin {"armed", "opening", "opened"}
    BY <2>1, <2>4 DEF AloneInv
  <2>6. \A b \in Actor : b # "loop" =>
          step'[b] \notin {"handshake", "greeted", "list", "listed", "sync", "dial", "backoff"} /\ step'[b] \notin Rearm
    BY <2>3, <2>4 DEF Rearming, Rearm
  <2>7. step["boot"] = "off" /\ step'["boot"] = "off"
    BY <2>1, <2>3, Actors DEF AloneInv
  <2>. QED BY <1>0, <2>1, <2>3, <2>4, <2>5, <2>6, <2>7 DEF AloneInv, Rearming, Links
<1>14. CASE UNCHANGED vars
  BY <1>0, <1>14, LinkMoves DEF vars, wireVars, actorVars, Links
<1>. QED BY <1>1, <1>2, <1>3, <1>4, <1>5, <1>6, <1>7, <1>8, <1>9, <1>10, <1>11, <1>12, <1>13, <1>14 DEF Next, Continues
-----------------------------------------------------------------------------
(* Greetings.                                                                *)

\* The connection something is served on, or written to, is the one in use.
LEMMA InUse ==
  ASSUME TypeOK, AwaitInv, AloneInv
  PROVE  /\ socket \in Conn
         /\ \A c \in Conn : link[c] \notin {"none", "gone"} => c = socket
         /\ connected => link[socket] \in {"up", "lost"}
         /\ \A a \in Actor : step[a] \in {"greeted", "listed", "sync", "armed", "opening", "opened"}
              => link[socket] \in {"up", "lost"}
         /\ \A k \in pendingOpens : connected
  BY Actors DEF AloneInv, AwaitInv, TypeOK

\* What the handlers of the client write, and when.
LEMMA Written ==
  ASSUME TypeOK, SeqInv, AwaitInv, AloneInv,
         NEW req2, NEW f \in FrameType, req2 = req \/ (req2 = Sent(f) /\ link[socket] \in {"up", "lost"})
  PROVE  /\ \A c \in Conn : c # socket \/ link[socket] # "up" => req2[c] = req[c]
         /\ req2[socket] = req[socket] \/ (link[socket] = "up" /\ req2[socket] = Append(req[socket], f))
<1>1. \A c \in Conn : c # socket => Sent(f)[c] = req[c]
  BY SentFrame
<1>2. Sent(f)[socket] = IF link[socket] \in Open THEN Append(req[socket], f) ELSE req[socket]
  BY SentFrame
<1>3. link[socket] \in {"up", "lost"} => (link[socket] \in Open <=> link[socket] = "up")
  BY DEF Open
<1>. QED BY <1>1, <1>2, <1>3

\* Steps of ensure() and of a resync write requests to a connection that is up.
LEMMA ActorsWrite ==
  ASSUME TypeOK, SeqInv, AwaitInv, AloneInv,
         \/ \E k \in Key : Ensure(k) \/ Joined(k) \/ Rearmed(k) \/ Opened(k) \/ OpenTimesOut(k)
         \/ \E a \in Actor : Greeted(a) \/ Adopt(a)
  PROVE  /\ UNCHANGED <<daemonVars, link, rsp, socket>>
         /\ \E f \in FrameType : req' = req \/ (req' = Sent(f) /\ link[socket] \in {"up", "lost"})
<1>0. /\ \A a \in Actor : step[a] \in {"greeted", "listed", "sync", "armed", "opening", "opened"}
           => link[socket] \in {"up", "lost"}
      /\ connected => link[socket] \in {"up", "lost"}
  BY InUse
<1>1. ASSUME NEW k \in Key, Ensure(k) \/ Joined(k) \/ Rearmed(k) \/ Opened(k) \/ OpenTimesOut(k)
      PROVE  /\ UNCHANGED <<daemonVars, link, rsp, socket>>
             /\ \E f \in FrameType : req' = req \/ (req' = Sent(f) /\ link[socket] \in {"up", "lost"})
  <2>1. UNCHANGED <<daemonVars, link, rsp, socket>>
    BY <1>1 DEF Ensure, Joined, Rearmed, Opened, OpenTimesOut, wireVars
  <2>2. \/ req' = req
        \/ req' = Sent(Frame("open", {k})) /\ (connected \/ step[k] = "armed")
        \/ req' = Sent(Frame("subscribe", {k})) /\ step[k] = "opened"
    BY <1>1 DEF Ensure, Joined, Rearmed, Opened, OpenTimesOut, SendOpen, Resubscribed, wireVars
  <2>3. Frame("open", {k}) \in FrameType /\ Frame("subscribe", {k}) \in FrameType /\ k \in Actor
    BY FrameTypes, Actors
  <2>. QED BY <1>0, <2>1, <2>2, <2>3
<1>2. ASSUME NEW a \in Actor, Greeted(a) \/ Adopt(a)
      PROVE  /\ UNCHANGED <<daemonVars, link, rsp, socket>>
             /\ \E f \in FrameType : req' = req \/ (req' = Sent(f) /\ link[socket] \in {"up", "lost"})
  <2>1. UNCHANGED <<daemonVars, link, rsp, socket>> /\ step[a] \in {"greeted", "listed", "sync"}
    BY <1>2 DEF Greeted, Adopt
  <2>2. CASE Greeted(a)
    <3>1. req' = Sent(Frame("list", {})) /\ Frame("list", {}) \in FrameType
      BY <2>2, FrameTypes DEF Greeted
    <3>. QED BY <1>0, <2>1, <3>1
  <2>3. CASE Adopt(a)
    <3>1. PICK b \in SUBSET todo[a] : req' = Resubscribed(b)
      BY <2>3 DEF Adopt
    <3>2. b \in SUBSET Key
      BY DEF TypeOK
    <3>3. Frame("subscribe", b) \in FrameType
      BY <3>2, FrameTypes
    <3>. QED BY <1>0, <2>1, <3>1, <3>3 DEF Resubscribed
  <2>. QED BY <1>2, <2>2, <2>3
<1>. QED BY <1>1, <1>2

\* Every step keeps answers to negotiated connections.
LEMMA StepGreet ==
  ASSUME TypeOK, SeqInv, AwaitInv, AloneInv, GreetInv, [Next]_vars
  PROVE  GreetInv'
<1>0. /\ link \in [Conn -> Link] /\ socket \in Conn /\ dNeg \subseteq Conn
      /\ req \in [Conn -> Seq(FrameType)] /\ rsp \in [Conn -> Seq(FrameType)]
  BY DEF TypeOK, SeqInv
<1>1. ASSUME NEW c \in Conn, Serve(c) PROVE GreetInv'
  <2>1. c = socket /\ link[c] \in {"hello", "up"} /\ socket' = socket
    BY <1>0, <1>1, InUse DEF Serve
  <2>2. \A d \in Conn : d # c => link'[d] = link[d] /\ req'[d] = req[d] /\ rsp'[d] = rsp[d]
                                 /\ (d \in dNeg' <=> d \in dNeg)
    BY <1>0, <1>1, <2>1 DEF Serve, Delivered
  <2>3. CASE c \notin dNeg /\ Head(req[c]).t # "hello"
    <3>1. link'[c] \in {"refused", "lost"}
      BY <1>0, <1>1, <2>3 DEF Serve, Ended
    <3>. QED BY <2>1, <2>2, <3>1 DEF GreetInv
  <2>4. CASE ~(c \notin dNeg /\ Head(req[c]).t # "hello")
    <3>1. link' = link /\ c \in dNeg'
      BY <1>1, <2>4 DEF Serve
    <3>. QED BY <2>1, <2>2, <3>1 DEF GreetInv
  <2>. QED BY <2>3, <2>4
<1>2. ASSUME NEW c \in Conn, WireDrops(c) PROVE GreetInv'
  <2>1. c = socket /\ socket' = socket
    BY <1>0, <1>2, InUse DEF WireDrops
  <2>2. \A d \in Conn : d # c => link'[d] = link[d] /\ req'[d] = req[d] /\ rsp'[d] = rsp[d]
                                 /\ (d \in dNeg' <=> d \in dNeg)
    BY <1>0, <1>2 DEF WireDrops
  <2>3. link'[c] \in {"refused", "lost"}
    BY <1>0, <1>2 DEF WireDrops, Ended
  <2>. QED BY <2>1, <2>2, <2>3 DEF GreetInv
<1>3. ASSUME NEW c \in Conn, Connects(c) PROVE GreetInv'
  <2>1. c = socket /\ socket' = socket /\ rsp' = rsp /\ dNeg' = dNeg /\ link[c] = "dialing"
    BY <1>0, <1>3, InUse DEF Connects, daemonVars
  <2>2. \A d \in Conn : d # c => link'[d] = link[d] /\ req'[d] = req[d]
    BY <1>0, <1>3 DEF Connects
  <2>3. link'[c] \in {"hello", "refused"}
    BY <1>0, <1>3 DEF Connects
  <2>. QED BY <2>1, <2>2, <2>3 DEF GreetInv
<1>4. ASSUME NEW c \in Conn, Gone(c) PROVE GreetInv'
  <2>1. c = socket /\ socket' = socket /\ req' = req /\ dNeg' = dNeg
    BY <1>0, <1>4, InUse DEF Gone, daemonVars
  <2>2. \A d \in Conn : d # c => link'[d] = link[d] /\ rsp'[d] = rsp[d]
    BY <1>0, <1>4 DEF Gone
  <2>3. link'[c] = "gone" /\ rsp'[c] = <<>>
    BY <1>0, <1>4 DEF Gone
  <2>. QED BY <2>1, <2>2, <2>3 DEF GreetInv
<1>5. ASSUME NEW k \in Key, SessionEnds(k) PROVE GreetInv'
  <2>1. UNCHANGED <<dNeg, link, req, socket>>
    BY <1>5 DEF SessionEnds
  <2>2. rsp' = rsp \/ (socket \in dNeg /\ link[socket] \in {"hello", "up"}
                       /\ \A d \in Conn : d # socket => rsp'[d] = rsp[d])
    BY <1>0, <1>5 DEF SessionEnds, Delivered
  <2>. QED BY <2>1, <2>2 DEF GreetInv
<1>6. ASSUME \/ \E k \in Key : Ensure(k) \/ Joined(k) \/ Rearmed(k) \/ Opened(k) \/ OpenTimesOut(k)
             \/ \E a \in Actor : Greeted(a) \/ Adopt(a)
      PROVE  GreetInv'
  <2>1. UNCHANGED <<daemonVars, link, rsp, socket>>
    BY <1>6, ActorsWrite
  <2>2. PICK f \in FrameType : req' = req \/ (req' = Sent(f) /\ link[socket] \in {"up", "lost"})
    BY <1>6, ActorsWrite
  <2>3. \A c \in Conn : c # socket \/ link[socket] # "up" => req'[c] = req[c]
    BY <2>2, Written
  <2>. QED BY <1>0, <2>1, <2>3 DEF GreetInv, daemonVars
<1>7. ASSUME NEW a \in Actor, Dial(a) PROVE GreetInv'
  <2>1. PICK c \in Conn : link[c] = "none" /\ link' = [link EXCEPT ![c] = "dialing"] /\ socket' = c
    BY <1>7 DEF Dial
  <2>2. UNCHANGED <<req, dNeg>> /\ rsp' = [rsp EXCEPT ![socket] = <<>>]
    BY <1>7 DEF Dial
  <2>3. link'[c] = "dialing" /\ \A d \in Conn : d # c => link'[d] = link[d]
    BY <1>0, <2>1
  <2>4. \A d \in Conn : rsp'[d] = <<>> \/ rsp'[d] = rsp[d]
    BY <1>0, <2>2
  <2>. QED BY <2>1, <2>2, <2>3, <2>4 DEF GreetInv
<1>8. ASSUME NEW a \in Actor, DialFails(a) PROVE GreetInv'
  BY <1>8 DEF DialFails, daemonVars, wireVars, GreetInv
<1>9. ASSUME DaemonDies PROVE GreetInv'
  <2>1. UNCHANGED <<rsp, socket>> /\ dNeg' = {} /\ req' = [c \in Conn |-> <<>>]
        /\ link' = [c \in Conn |-> IF link[c] \in {"hello", "up"} THEN Ended(c) ELSE link[c]]
    BY <1>9 DEF DaemonDies
  <2>2. \A c \in Conn : req'[c] = <<>> /\ (link'[c] = link[c] \/ link'[c] \in {"lost", "refused"})
                        /\ link'[c] \notin {"hello", "up"}
    BY <1>0, <2>1 DEF Ended
  <2>. QED BY <1>0, <2>1, <2>2 DEF GreetInv
<1>10. ASSUME Receive PROVE GreetInv'
  <2>1. /\ rsp[socket] # <<>> /\ socket' = socket /\ req' = req /\ dNeg' = dNeg
        /\ \A c \in Conn : c # socket => rsp'[c] = rsp[c] /\ link'[c] = link[c]
    BY <1>10, ReceivedKinds
  <2>2. link'[socket] \in {link[socket], "lost"} \/ (link[socket] = "hello" /\ link'[socket] = "up")
    BY <1>0, <1>10 DEF Receive
  <2>3. link[socket] \notin {"none", "dialing", "gone"}
    BY <1>0, <2>1 DEF GreetInv
  <2>. QED BY <2>1, <2>2, <2>3 DEF GreetInv
<1>11. ASSUME Retry PROVE GreetInv'
  BY <1>11 DEF Retry, daemonVars, wireVars, GreetInv
<1>12. CASE UNCHANGED vars
  BY <1>12 DEF vars, daemonVars, wireVars, GreetInv
<1>. QED BY <1>1, <1>2, <1>3, <1>4, <1>5, <1>6, <1>7, <1>8, <1>9, <1>10, <1>11, <1>12 DEF Next, Continues
-----------------------------------------------------------------------------
(* Opens on their way.                                                       *)

\* Nothing of kinds T is new in r.
Quieter(q, r, T) ==
  \A k \in Key : (Has(r, T, k) => Has(q, T, k)) /\ (Once(q, T, k) => Once(r, T, k))

\* Nothing is new when nothing is sent, or all is dropped.
LEMMA QuietSame ==
  ASSUME NEW q, NEW T
  PROVE  Quieter(q, q, T) /\ Quieter(q, <<>>, T)
  BY HasNone DEF Quieter

\* Nor when a frame of another kind is sent.
LEMMA QuietAppend ==
  ASSUME NEW q \in Seq(FrameType), NEW f \in FrameType, NEW T, f.t \notin T
  PROVE  Quieter(q, Append(q, f), T)
<1>1. \A k : ~Is(f, T, k)
  BY DEF Is
<1>. QED BY <1>1, HasAppend DEF Quieter

\* Nor when one is handled.
LEMMA QuietTail ==
  ASSUME NEW q \in Seq(FrameType), q # <<>>, NEW T
  PROVE  Quieter(q, Tail(q), T)
  BY HasTail DEF Quieter

\* A step that sends no open, answers none, and gives none up.
LEMMA OpenQuiet ==
  ASSUME OpenInv, socket' = socket, link'[socket] \in Open => link[socket] \in Open,
         link'[socket] \in Open => Quieter(req[socket], req'[socket], Ask),
         Quieter(rsp[socket], rsp'[socket], Answer),
         connected => connected',
         \A k \in Key : k \notin late' => k \notin late /\ (step[k] = "opening" => step'[k] = "opening")
  PROVE  OpenInv'
<1>1. ASSUME NEW k \in Key
      PROVE  /\ link'[socket'] \in Open /\ Has(req'[socket'], Ask, k) =>
                  /\ connected'
                  /\ k \notin late' => /\ step'[k] = "opening" /\ Once(req'[socket'], Ask, k)
                                       /\ ~Has(rsp'[socket'], Answer, k)
             /\ Has(rsp'[socket'], Answer, k) =>
                  /\ connected'
                  /\ k \notin late' => step'[k] = "opening" /\ Once(rsp'[socket'], Answer, k)
  BY DEF OpenInv, Quieter
<1>. QED BY <1>1 DEF OpenInv

\* An open is sent, of a key that awaits none.
LEMMA OpenSent ==
  ASSUME TypeOK, SeqInv, OpenInv, socket' = socket, link' = link, rsp' = rsp, connected, connected' = connected,
         NEW k \in Key, late' = late, step[k] # "opening", step'[k] = "opening",
         \A j \in Key : j # k => step'[j] = step[j],
         link[socket] \in Open => req'[socket] = Append(req[socket], Frame("open", {k}))
  PROVE  OpenInv'
<1>. DEFINE f == Frame("open", {k})
<1>1. f \in FrameType /\ f.t = "open" /\ f.ks = {k}
  BY FrameTypes
<1>2. req[socket] \in Seq(FrameType) /\ socket \in Conn
  BY FirstFrame DEF TypeOK
<1>. HIDE DEF f
<1>3. ASSUME NEW j \in Key, link[socket] \in Open
      PROVE  /\ Has(req'[socket], Ask, j) <=> Has(req[socket], Ask, j) \/ j = k
             /\ Once(req[socket], Ask, j) /\ ~(Has(req[socket], Ask, j) /\ j = k) => Once(req'[socket], Ask, j)
  <2>1. req'[socket] = Append(req[socket], f)
    BY <1>3 DEF f
  <2>2. Is(f, Ask, j) <=> j = k
    BY <1>1 DEF Is, Ask
  <2>3. /\ Has(Append(req[socket], f), Ask, j) <=> Has(req[socket], Ask, j) \/ Is(f, Ask, j)
        /\ Once(req[socket], Ask, j) /\ ~(Has(req[socket], Ask, j) /\ Is(f, Ask, j)) => Once(Append(req[socket], f), Ask, j)
    BY <1>1, <1>2, HasAppend
  <2>. QED BY <2>1, <2>2, <2>3
<1>4. k \notin late /\ link[socket] \in Open => ~Has(req[socket], Ask, k)
  BY DEF OpenInv
<1>5. k \notin late => ~Has(rsp[socket], Answer, k)
  BY DEF OpenInv
<1>6. k \notin late /\ link[socket] \in Open => Once(req'[socket], Ask, k)
  <2>1. ASSUME k \notin late, link[socket] \in Open PROVE Once(req'[socket], Ask, k)
    <3>1. Once(req[socket], Ask, k)
      BY <1>4, <2>1 DEF Has, Once
    <3>. QED BY <1>3, <1>4, <2>1, <3>1
  <2>. QED BY <2>1
<1>7. ASSUME NEW j \in Key
      PROVE  /\ link'[socket'] \in Open /\ Has(req'[socket'], Ask, j) =>
                  /\ connected'
                  /\ j \notin late' => /\ step'[j] = "opening" /\ Once(req'[socket'], Ask, j)
                                       /\ ~Has(rsp'[socket'], Answer, j)
             /\ Has(rsp'[socket'], Answer, j) =>
                  /\ connected'
                  /\ j \notin late' => step'[j] = "opening" /\ Once(rsp'[socket'], Answer, j)
  <2>1. CASE j = k
    BY <1>3, <1>4, <1>5, <1>6, <2>1 DEF OpenInv
  <2>2. CASE j # k
    BY <1>3, <2>2 DEF OpenInv
  <2>. QED BY <2>1, <2>2
<1>. QED BY <1>7 DEF OpenInv

\* The daemon answers an open.
LEMMA OpenAnswered ==
  ASSUME TypeOK, SeqInv, OpenInv, link[socket] \in Open, req[socket] # <<>>, Head(req[socket]).t = "open",
         NEW g \in FrameType, g.t \in Answer, g.ks = Head(req[socket]).ks,
         req'[socket] = Tail(req[socket]), rsp'[socket] = Append(rsp[socket], g),
         UNCHANGED <<socket, connected, step, late>>
  PROVE  OpenInv'
<1>. DEFINE f == Head(req[socket])
<1>1. req[socket] \in Seq(FrameType) /\ rsp[socket] \in Seq(FrameType)
  BY FirstFrame DEF TypeOK
<1>2. ASSUME NEW k \in Key
      PROVE  /\ Has(req'[socket], Ask, k) => connected
             /\ Has(rsp'[socket], Answer, k) => connected
             /\ k \notin late /\ Has(req'[socket], Ask, k) =>
                  step[k] = "opening" /\ Once(req'[socket], Ask, k) /\ ~Has(rsp'[socket], Answer, k)
             /\ k \notin late /\ Has(rsp'[socket], Answer, k) =>
                  step[k] = "opening" /\ Once(rsp'[socket], Answer, k)
  <2>1. (Is(f, Ask, k) <=> k \in f.ks) /\ (Is(g, Answer, k) <=> k \in f.ks)
    BY DEF Is, Ask
  <2>2. /\ Has(req[socket], Ask, k) <=> Has(req'[socket], Ask, k) \/ k \in f.ks
        /\ Once(req[socket], Ask, k) => Once(req'[socket], Ask, k) /\ ~(Has(req'[socket], Ask, k) /\ k \in f.ks)
    <3>1. /\ Has(req[socket], Ask, k) <=> Has(Tail(req[socket]), Ask, k) \/ Is(f, Ask, k)
          /\ Once(req[socket], Ask, k) => Once(Tail(req[socket]), Ask, k) /\ ~(Has(Tail(req[socket]), Ask, k) /\ Is(f, Ask, k))
      BY <1>1, HasTail
    <3>. HIDE DEF f
    <3>. QED BY <2>1, <3>1
  <2>3. /\ Has(rsp'[socket], Answer, k) <=> Has(rsp[socket], Answer, k) \/ k \in f.ks
        /\ Once(rsp[socket], Answer, k) /\ ~(Has(rsp[socket], Answer, k) /\ k \in f.ks) => Once(rsp'[socket], Answer, k)
    <3>1. /\ Has(Append(rsp[socket], g), Answer, k) <=> Has(rsp[socket], Answer, k) \/ Is(g, Answer, k)
          /\ Once(rsp[socket], Answer, k) /\ ~(Has(rsp[socket], Answer, k) /\ Is(g, Answer, k))
               => Once(Append(rsp[socket], g), Answer, k)
      BY <1>1, HasAppend
    <3>. HIDE DEF f
    <3>. QED BY <2>1, <3>1
  <2>4. ~Has(rsp[socket], Answer, k) => Once(rsp[socket], Answer, k)
    BY DEF Has, Once
  <2>5. /\ Has(req[socket], Ask, k) => connected
        /\ Has(rsp[socket], Answer, k) => connected
        /\ k \notin late /\ Has(req[socket], Ask, k) =>
             step[k] = "opening" /\ Once(req[socket], Ask, k) /\ ~Has(rsp[socket], Answer, k)
        /\ k \notin late /\ Has(rsp[socket], Answer, k) =>
             step[k] = "opening" /\ Once(rsp[socket], Answer, k)
    BY DEF OpenInv
  <2>. HIDE DEF f
  <2>. QED BY <2>2, <2>3, <2>4, <2>5
<1>. QED BY <1>2 DEF OpenInv

\* The client handles an answer.
LEMMA OpenSettled ==
  ASSUME TypeOK, SeqInv, AwaitInv, OpenInv, Receive, Got.t \in Answer
  PROVE  OpenInv'
<1>1. /\ Got \in FrameType /\ rsp[socket] # <<>> /\ rsp[socket] \in Seq(FrameType)
      /\ socket' = socket /\ req' = req /\ rsp'[socket] = Tail(rsp[socket])
      /\ UNCHANGED <<connected, late>>
  BY ReceivedKinds
<1>2. link' = link
  BY DEF Receive, Got, Answer
<1>3. \A k \in Key : k \notin Got.ks => step'[k] = step[k]
  <2>1. \E x \in {"opened", "off"} :
          step' = [a \in Actor |-> IF a \in Got.ks \cap pendingOpens THEN x ELSE step[a]]
    BY DEF Receive, Got, Answer
  <2>. QED BY <2>1, Actors
<1>4. ASSUME NEW k \in Key
      PROVE  /\ link'[socket'] \in Open /\ Has(req'[socket'], Ask, k) =>
                  /\ connected'
                  /\ k \notin late' => /\ step'[k] = "opening" /\ Once(req'[socket'], Ask, k)
                                       /\ ~Has(rsp'[socket'], Answer, k)
             /\ Has(rsp'[socket'], Answer, k) =>
                  /\ connected'
                  /\ k \notin late' => step'[k] = "opening" /\ Once(rsp'[socket'], Answer, k)
  <2>1. Is(Got, Answer, k) <=> k \in Got.ks
    BY DEF Is
  <2>2. /\ Has(rsp[socket], Answer, k) <=> Has(rsp'[socket], Answer, k) \/ k \in Got.ks
        /\ Once(rsp[socket], Answer, k) => /\ Once(rsp'[socket], Answer, k)
                                           /\ ~(Has(rsp'[socket], Answer, k) /\ k \in Got.ks)
    <3>1. /\ Has(rsp[socket], Answer, k) <=> Has(Tail(rsp[socket]), Answer, k) \/ Is(Got, Answer, k)
          /\ Once(rsp[socket], Answer, k) => /\ Once(Tail(rsp[socket]), Answer, k)
                                             /\ ~(Has(Tail(rsp[socket]), Answer, k) /\ Is(Got, Answer, k))
      BY <1>1, HasTail DEF Got
    <3>. QED BY <1>1, <2>1, <3>1
  <2>. QED BY <1>1, <1>2, <1>3, <2>2 DEF OpenInv
<1>. QED BY <1>4 DEF OpenInv
-----------------------------------------------------------------------------
(* What a step does to the connection in use.                                *)

\* The daemon answers the first request, or refuses it before a hello.
Asked == Head(req[socket])

Refuses == /\ link'[socket] \in {"refused", "lost"} /\ req'[socket] = <<>>
           /\ dLive' = dLive /\ rsp' = rsp

Answers(f, g) == req'[socket] = Tail(req[socket]) /\ link' = link /\ socket \in dNeg'
                 /\ rsp'[socket] = Append(rsp[socket], g) /\ g \in FrameType /\ g.t = f

\* What serving a request does, by its kind.
LEMMA Served ==
  ASSUME TypeOK, SeqInv, AwaitInv, AloneInv, NEW c \in Conn, Serve(c)
  PROVE  /\ c = socket /\ socket' = socket /\ link[socket] \in {"hello", "up"} /\ socket \in Conn
         /\ req[socket] \in Seq(FrameType) /\ req[socket] # <<>> /\ rsp[socket] \in Seq(FrameType)
         /\ Asked \in FrameType
         /\ UNCHANGED <<clientVars, mirror, connected, actorVars, histVars>>
         /\ \/ Refuses
            \/ Answers("hello-ack", Frame("hello-ack", {})) /\ dLive' = dLive
            \/ /\ Asked.t = "open" /\ Answers("open-ack", Frame("open-ack", Asked.ks))
               /\ dLive' = dLive \cup Asked.ks
            \/ Asked.t = "open" /\ Answers("open-err", Frame("open-err", Asked.ks)) /\ dLive' = dLive
            \/ Answers("list-reply", Frame("list-reply", dLive)) /\ dLive' = dLive
            \/ /\ req'[socket] = Tail(req[socket]) /\ link' = link /\ socket \in dNeg'
               /\ rsp' = rsp /\ dLive' = dLive
<1>0. /\ link \in [Conn -> Link] /\ req \in [Conn -> Seq(FrameType)] /\ rsp \in [Conn -> Seq(FrameType)]
      /\ dLive \in SUBSET Key /\ {} \in SUBSET Key
  BY DEF TypeOK, SeqInv
<1>1. c = socket /\ link[c] \in {"hello", "up"} /\ socket' = socket /\ socket \in Conn /\ req[c] # <<>>
  BY <1>0, InUse DEF Serve
<1>2. UNCHANGED <<clientVars, mirror, connected, actorVars, histVars>>
  BY DEF Serve
<1>3. Asked \in FrameType /\ Asked.ks \in SUBSET Key
  BY <1>1, FirstFrame DEF Asked, FrameType
<1>4. \A t \in {"hello-ack", "open-ack", "open-err", "list-reply"} : \A ks \in SUBSET Key :
        rsp' = Delivered(c, Frame(t, ks)) =>
          rsp'[socket] = Append(rsp[socket], Frame(t, ks)) /\ Frame(t, ks) \in FrameType /\ Frame(t, ks).t = t
  BY <1>1, FrameTypes, DeliveredFrame
<1>5. CASE c \notin dNeg /\ Asked.t # "hello"
  <2>1. link'[c] \in {"refused", "lost"} /\ req'[c] = <<>> /\ dLive' = dLive /\ rsp' = rsp
    BY <1>0, <1>1, <1>5 DEF Serve, Ended, Asked
  <2>. QED BY <1>0, <1>1, <1>2, <1>3, <2>1 DEF Refuses
<1>6. CASE ~(c \notin dNeg /\ Asked.t # "hello")
  <2>1. req'[c] = Tail(req[c]) /\ link' = link /\ c \in dNeg'
    BY <1>0, <1>1, <1>6 DEF Serve, Asked
  <2>2. \/ rsp' = Delivered(c, Frame("hello-ack", {})) /\ dLive' = dLive
        \/ /\ Asked.t = "open" /\ rsp' = Delivered(c, Frame("open-ack", Asked.ks))
           /\ dLive' = dLive \cup Asked.ks
        \/ Asked.t = "open" /\ rsp' = Delivered(c, Frame("open-err", Asked.ks)) /\ dLive' = dLive
        \/ rsp' = Delivered(c, Frame("list-reply", dLive)) /\ dLive' = dLive
        \/ rsp' = rsp /\ dLive' = dLive
    BY <1>1, <1>6 DEF Serve, Asked
  <2>3. \/ Answers("hello-ack", Frame("hello-ack", {})) /\ dLive' = dLive
        \/ /\ Asked.t = "open" /\ Answers("open-ack", Frame("open-ack", Asked.ks))
           /\ dLive' = dLive \cup Asked.ks
        \/ Asked.t = "open" /\ Answers("open-err", Frame("open-err", Asked.ks)) /\ dLive' = dLive
        \/ Answers("list-reply", Frame("list-reply", dLive)) /\ dLive' = dLive
        \/ rsp' = rsp /\ dLive' = dLive
    BY <1>0, <1>1, <1>3, <1>4, <2>1, <2>2 DEF Answers
  <2>. QED BY <1>0, <1>1, <1>2, <1>3, <2>1, <2>3
<1>. QED BY <1>5, <1>6

\* It tells of the end of a session, if it has greeted.
LEMMA ToldEnd ==
  ASSUME TypeOK, SeqInv, NEW k \in Key, SessionEnds(k)
  PROVE  /\ k \in dLive /\ dLive' = dLive \ {k}
         /\ UNCHANGED <<link, socket, req, mirror, connected, step, ids, todo, overtaken, late>>
         /\ rsp[socket] \in Seq(FrameType) /\ Frame("exit", {k}) \in FrameType
         /\ IF socket \in dNeg /\ link[socket] \in {"hello", "up"}
            THEN rsp'[socket] = Append(rsp[socket], Frame("exit", {k})) ELSE rsp'[socket] = rsp[socket]
<1>1. socket \in Conn /\ Frame("exit", {k}) \in FrameType
  BY FrameTypes DEF TypeOK
<1>2. rsp' = IF socket \in dNeg /\ link[socket] \in {"hello", "up"}
             THEN Delivered(socket, Frame("exit", {k})) ELSE rsp
  BY DEF SessionEnds
<1>3. Delivered(socket, Frame("exit", {k}))[socket] = Append(rsp[socket], Frame("exit", {k}))
  BY <1>1, DeliveredFrame
<1>. QED BY <1>1, <1>2, <1>3, FirstFrame DEF SessionEnds, actorVars, histVars

\* The connection is lost with what was asked on it.
LEMMA LinkEnds ==
  ASSUME TypeOK, SeqInv, AwaitInv, AloneInv, DaemonDies \/ \E c \in Conn : WireDrops(c)
  PROVE  /\ req'[socket] = <<>> /\ link'[socket] \notin {"hello", "up"}
         /\ UNCHANGED <<rsp, socket, mirror, connected, step, ids, todo, overtaken, late>>
         /\ dLive' = dLive \/ dLive' = {}
<1>0. link \in [Conn -> Link] /\ req \in [Conn -> Seq(FrameType)] /\ socket \in Conn
  BY DEF TypeOK, SeqInv
<1>1. CASE DaemonDies
  <2>1. link'[socket] = IF link[socket] \in {"hello", "up"} THEN Ended(socket) ELSE link[socket]
    BY <1>0, <1>1 DEF DaemonDies
  <2>. QED BY <1>0, <1>1, <2>1 DEF DaemonDies, actorVars, histVars, Ended
<1>2. ASSUME NEW c \in Conn, WireDrops(c)
      PROVE  /\ req'[socket] = <<>> /\ link'[socket] \notin {"hello", "up"}
             /\ UNCHANGED <<rsp, socket, mirror, connected, step, ids, todo, overtaken, late>>
             /\ dLive' = dLive
  <2>1. c = socket
    BY <1>0, <1>2, InUse DEF WireDrops
  <2>. QED BY <1>0, <1>2, <2>1 DEF WireDrops, actorVars, histVars, Ended
<1>. QED BY <1>1, <1>2

\* A request other than an open.
LEMMA OtherSent ==
  ASSUME TypeOK, SeqInv, NEW f \in FrameType, f.t # "open", req' = req \/ req' = Sent(f)
  PROVE  Quieter(req[socket], req'[socket], Ask)
<1>1. f.t \notin Ask /\ req[socket] \in Seq(FrameType)
  BY FirstFrame DEF Ask, TypeOK
<1>2. Quieter(req[socket], Append(req[socket], f), Ask) /\ Quieter(req[socket], req[socket], Ask)
  BY <1>1, QuietAppend, QuietSame
<1>3. req'[socket] = req[socket] \/ req'[socket] = Append(req[socket], f)
  BY SentFrame DEF TypeOK
<1>. QED BY <1>2, <1>3

\* The connection in use carries nothing.
LEMMA OpenNone ==
  ASSUME rsp'[socket'] = <<>>, link'[socket'] \in Open => req'[socket'] = <<>>
  PROVE  OpenInv'
<1>1. ASSUME NEW k \in Key
      PROVE  /\ ~Has(rsp'[socket'], Answer, k)
             /\ link'[socket'] \in Open => ~Has(req'[socket'], Ask, k)
  BY HasNone
<1>. QED BY <1>1 DEF OpenInv

\* Every step keeps an open asked for or answered once, for who awaits it.
LEMMA StepOpen ==
  ASSUME TypeOK, SeqInv, AwaitInv, AloneInv, GreetInv, OpenInv, [Next]_vars
  PROVE  OpenInv'
<1>0. /\ link \in [Conn -> Link] /\ socket \in Conn /\ step \in [Actor -> Step]
      /\ req \in [Conn -> Seq(FrameType)] /\ rsp \in [Conn -> Seq(FrameType)]
  BY DEF TypeOK, SeqInv
<1>1. ASSUME NEW c \in Conn, Serve(c) PROVE OpenInv'
  <2>1. /\ socket' = socket /\ link[socket] \in {"hello", "up"} /\ req[socket] # <<>>
        /\ req[socket] \in Seq(FrameType) /\ rsp[socket] \in Seq(FrameType)
        /\ UNCHANGED <<connected, step, late>>
    BY <1>1, Served DEF actorVars, histVars
  <2>2. \/ Refuses
        \/ \E g : Answers("hello-ack", g) \/ Answers("list-reply", g)
        \/ \E g : /\ Asked.t = "open" /\ g.ks = Asked.ks
                  /\ Answers("open-ack", g) \/ Answers("open-err", g)
        \/ req'[socket] = Tail(req[socket]) /\ link' = link /\ rsp' = rsp
    <3>1. Asked.ks \in SUBSET Key
      BY <1>1, Served DEF FrameType
    <3>2. \A t \in {"open-ack", "open-err"} : Frame(t, Asked.ks).ks = Asked.ks
      BY <3>1, FrameTypes
    <3>. QED BY <1>1, <3>2, Served
  <2>3. CASE Refuses
    <3>1. link'[socket] \notin Open /\ Quieter(rsp[socket], rsp'[socket], Answer)
      BY <2>3, QuietSame DEF Refuses, Open
    <3>. QED BY <2>1, <3>1, OpenQuiet
  <2>4. ASSUME NEW g, Answers("hello-ack", g) \/ Answers("list-reply", g) PROVE OpenInv'
    <3>1. Quieter(req[socket], Tail(req[socket]), Ask)
      BY <2>1, QuietTail
    <3>2. g \in FrameType /\ g.t \notin Answer /\ rsp'[socket] = Append(rsp[socket], g)
          /\ req'[socket] = Tail(req[socket]) /\ link' = link
      BY <2>4 DEF Answers, Answer
    <3>3. Quieter(rsp[socket], Append(rsp[socket], g), Answer)
      BY <2>1, <3>2, QuietAppend
    <3>. QED BY <2>1, <3>1, <3>2, <3>3, OpenQuiet
  <2>5. ASSUME NEW g, Asked.t = "open", g.ks = Asked.ks, Answers("open-ack", g) \/ Answers("open-err", g)
        PROVE  OpenInv'
    <3>1. g \in FrameType /\ g.t \in Answer /\ rsp'[socket] = Append(rsp[socket], g)
          /\ req'[socket] = Tail(req[socket]) /\ link[socket] \in Open
      BY <2>1, <2>5 DEF Answers, Answer, Open
    <3>. QED BY <2>1, <2>5, <3>1, OpenAnswered DEF Asked
  <2>6. CASE req'[socket] = Tail(req[socket]) /\ link' = link /\ rsp' = rsp
    <3>1. Quieter(req[socket], Tail(req[socket]), Ask) /\ Quieter(rsp[socket], rsp'[socket], Answer)
      BY <2>1, <2>6, QuietTail, QuietSame
    <3>. QED BY <2>1, <2>6, <3>1, OpenQuiet
  <2>. QED BY <2>2, <2>3, <2>4, <2>5, <2>6
<1>2. ASSUME DaemonDies \/ \E c \in Conn : WireDrops(c) PROVE OpenInv'
  <2>1. /\ req'[socket] = <<>> /\ link'[socket] \notin {"hello", "up"}
        /\ UNCHANGED <<rsp, socket, connected, step, late>>
    BY <1>2, LinkEnds
  <2>2. Quieter(req[socket], req'[socket], Ask) /\ Quieter(rsp[socket], rsp'[socket], Answer)
    BY <2>1, QuietSame
  <2>3. link'[socket] \in Open => link[socket] \in Open
    BY <1>0, <1>2 DEF DaemonDies, WireDrops, Open, Ended
  <2>. QED BY <2>1, <2>2, <2>3, OpenQuiet
<1>3. ASSUME NEW c \in Conn, Connects(c) PROVE OpenInv'
  <2>1. c = socket /\ link[c] = "dialing" /\ UNCHANGED <<rsp, socket, connected, step, late>>
    BY <1>0, <1>3, InUse DEF Connects, actorVars, histVars
  <2>2. req[socket] \in Seq(FrameType) /\ Frame("hello", {}) \in FrameType /\ Frame("hello", {}).t \notin Ask
    BY <1>0, FrameTypes DEF Ask
  <2>3. Quieter(req[socket], Append(req[socket], Frame("hello", {})), Ask) /\ Quieter(rsp[socket], rsp[socket], Answer)
        /\ Quieter(req[socket], req[socket], Ask)
    BY <2>2, QuietSame, QuietAppend
  <2>4. req'[socket] \in {req[socket], Append(req[socket], Frame("hello", {}))}
    BY <1>0, <1>3, <2>1 DEF Connects
  <2>5. link[socket] \in Open
    BY <2>1 DEF Open
  <2>. QED BY <2>1, <2>3, <2>4, <2>5, OpenQuiet
<1>4. ASSUME NEW c \in Conn, Gone(c) PROVE OpenInv'
  <2>1. c = socket /\ socket' = socket /\ rsp'[socket] = <<>> /\ link'[socket] = "gone"
    BY <1>0, <1>4, InUse DEF Gone
  <2>. QED BY <2>1, OpenNone DEF Open
<1>5. ASSUME NEW k \in Key, SessionEnds(k) PROVE OpenInv'
  <2>1. /\ UNCHANGED <<link, socket, req, connected, step, late>>
        /\ rsp[socket] \in Seq(FrameType) /\ Frame("exit", {k}) \in FrameType
        /\ rsp'[socket] \in {rsp[socket], Append(rsp[socket], Frame("exit", {k}))}
    BY <1>5, ToldEnd
  <2>2. Frame("exit", {k}).t \notin Answer
    BY DEF Frame, Answer
  <2>3. Quieter(rsp[socket], rsp'[socket], Answer) /\ Quieter(req[socket], req[socket], Ask)
    BY <2>1, <2>2, QuietSame, QuietAppend
  <2>. QED BY <2>1, <2>3, OpenQuiet
<1>6. ASSUME NEW k \in Key, Ensure(k) \/ Joined(k) \/ Rearmed(k) PROVE OpenInv'
  <2>1. k \in Actor /\ UNCHANGED <<socket, link, rsp, connected, late>> /\ step[k] \in {"off", "join", "armed"}
    BY <1>6, Actors DEF Ensure, Joined, Rearmed, histVars
  <2>2. step[k] = "armed" => connected
    BY <2>1 DEF AloneInv
  <2>3. \A j \in Key : j # k => step'[j] = step[j]
    <3>1. \E x : step' = [step EXCEPT ![k] = x]
      BY <1>6 DEF Ensure, Joined, Rearmed, SendOpen
    <3>. QED BY <1>0, <3>1, Actors
  <2>4. CASE connected
    <3>1. SendOpen(k)
      BY <1>6, <2>4 DEF Ensure, Joined, Rearmed
    <3>2. link[socket] \in {"up", "lost"}
      BY <2>4, InUse
    <3>3. step'[k] = "opening" /\ req' = Sent(Frame("open", {k}))
      BY <1>0, <2>1, <3>1, <3>2 DEF SendOpen
    <3>4. Frame("open", {k}) \in FrameType
      BY FrameTypes
    <3>5. link[socket] \in Open => req'[socket] = Append(req[socket], Frame("open", {k}))
      BY <1>0, <3>3, <3>4, SentFrame
    <3>6. step[k] # "opening" /\ connected' = connected
      BY <2>1
    <3>. QED BY <2>1, <2>3, <2>4, <3>3, <3>5, <3>6, OpenSent
  <2>5. CASE ~connected
    <3>1. req' = req /\ ~Rearmed(k)
      BY <1>6, <2>2, <2>5 DEF Ensure, Joined, Rearmed
    <3>2. Quieter(req[socket], req'[socket], Ask) /\ Quieter(rsp[socket], rsp'[socket], Answer)
      BY <2>1, <3>1, QuietSame
    <3>3. \A j \in Key : step[j] = "opening" => step'[j] = "opening"
      BY <2>1, <2>3
    <3>. QED BY <2>1, <3>2, <3>3, OpenQuiet
  <2>. QED BY <2>4, <2>5
<1>7. ASSUME NEW k \in Key, Opened(k) \/ OpenTimesOut(k) PROVE OpenInv'
  <2>1. k \in Actor /\ UNCHANGED <<socket, link, rsp, connected>>
    BY <1>7, Actors DEF Opened, OpenTimesOut, wireVars
  <2>2. \A j \in Key : j # k => step'[j] = step[j]
    BY <1>0, <1>7, <2>1, Actors DEF Opened, OpenTimesOut
  <2>3. /\ k \notin late' => step[k] # "opening"
        /\ \A j \in Key : j \in late => j \in late'
    BY <1>7 DEF Opened, OpenTimesOut, histVars
  <2>4. req' = req \/ req' = Sent(Frame("subscribe", {k}))
    BY <1>7 DEF Opened, OpenTimesOut, Resubscribed, wireVars
  <2>5. Frame("subscribe", {k}) \in FrameType /\ Frame("subscribe", {k}).t # "open"
    BY FrameTypes
  <2>6. Quieter(req[socket], req'[socket], Ask) /\ Quieter(rsp[socket], rsp'[socket], Answer)
    BY <2>1, <2>4, <2>5, OtherSent, QuietSame
  <2>7. \A j \in Key : j \notin late' => j \notin late /\ (step[j] = "opening" => step'[j] = "opening")
    BY <2>2, <2>3
  <2>. QED BY <2>1, <2>6, <2>7, OpenQuiet
<1>8. ASSUME NEW a \in Actor, Dial(a) PROVE OpenInv'
  <2>1. PICK c \in Conn : link[c] = "none" /\ socket' = c
    BY <1>8 DEF Dial
  <2>2. rsp' = [rsp EXCEPT ![socket] = <<>>] /\ req' = req
    BY <1>8 DEF Dial
  <2>3. rsp'[c] = <<>> /\ req'[c] = <<>>
    BY <1>0, <2>1, <2>2 DEF GreetInv
  <2>. QED BY <2>1, <2>3, OpenNone
<1>9. ASSUME NEW a \in Actor, DialFails(a) PROVE OpenInv'
  <2>1. UNCHANGED <<socket, link, req, rsp, connected, late>> /\ \A j \in Key : step[j] = "opening" => step'[j] = "opening"
    BY <1>0, <1>9, Actors DEF DialFails, wireVars, histVars
  <2>. QED BY <2>1, QuietSame, OpenQuiet
<1>10. ASSUME Receive PROVE OpenInv'
  <2>1. CASE Got.t \in Answer
    BY <1>10, <2>1, OpenSettled
  <2>2. CASE Got.t \notin Answer
    <3>1. /\ rsp[socket] # <<>> /\ rsp[socket] \in Seq(FrameType)
          /\ socket' = socket /\ req' = req /\ rsp'[socket] = Tail(rsp[socket]) /\ UNCHANGED <<connected, late>>
      BY <1>10, ReceivedKinds
    <3>2. Quieter(rsp[socket], rsp'[socket], Answer) /\ Quieter(req[socket], req'[socket], Ask)
      BY <3>1, QuietTail, QuietSame
    <3>3. link'[socket] \in Open => link[socket] \in Open
      BY <1>0, <1>10 DEF Receive, Open
    <3>4. \A j \in Key : step[j] = "opening" => step'[j] = "opening"
      <4>1. CASE Got.t = "hello-ack"
        BY <1>10, <4>1, Actors DEF Receive, Got
      <4>2. CASE Got.t = "list-reply" /\ pendingLists # <<>>
        <5>1. step' = [step EXCEPT ![Head(pendingLists)] = "listed"]
          BY <1>10, <4>2 DEF Receive, Got
        <5>2. Head(pendingLists) = pendingLists[1] /\ 1 \in DOMAIN pendingLists /\ Head(pendingLists) \in Actor
          BY <4>2, Taken DEF SeqInv
        <5>3. step[Head(pendingLists)] = "list"
          BY <5>2 DEF AwaitInv
        <5>. QED BY <1>0, <5>1, <5>2, <5>3, Actors
      <4>3. CASE Got.t = "exit" \/ (Got.t = "list-reply" /\ pendingLists = <<>>)
        BY <1>10, <4>3 DEF Receive, Got
      <4>. QED BY <1>10, <2>2, <4>1, <4>2, <4>3, ReceivedKinds DEF Answer
    <3>. QED BY <3>1, <3>2, <3>3, <3>4, OpenQuiet
  <2>. QED BY <2>1, <2>2
<1>11. ASSUME NEW a \in Actor, Greeted(a) \/ Adopt(a) PROVE OpenInv'
  <2>1. UNCHANGED <<socket, link, rsp, late>> /\ step[a] \in {"greeted", "listed", "sync"}
    BY <1>11 DEF Greeted, Adopt, histVars
  <2>2. connected => connected'
    BY <1>11 DEF Greeted, Adopt
  <2>3. \A j \in Key : step[j] = "opening" => step'[j] = "opening"
    <3>1. \E x : step' = [step EXCEPT ![a] = x]
      BY <1>11 DEF Greeted, Adopt
    <3>. QED BY <1>0, <2>1, <3>1, Actors
  <2>4. Quieter(req[socket], req'[socket], Ask)
    <3>1. CASE Greeted(a)
      <4>1. req' = Sent(Frame("list", {})) /\ Frame("list", {}) \in FrameType /\ Frame("list", {}).t # "open"
        BY <3>1, FrameTypes DEF Greeted
      <4>. QED BY <4>1, OtherSent
    <3>2. CASE Adopt(a)
      <4>1. PICK b \in SUBSET todo[a] : req' = Resubscribed(b)
        BY <3>2 DEF Adopt
      <4>2. b \in SUBSET Key
        BY DEF TypeOK
      <4>3. Frame("subscribe", b) \in FrameType /\ Frame("subscribe", b).t # "open"
        BY <4>2, FrameTypes
      <4>4. req' = req \/ req' = Sent(Frame("subscribe", b))
        BY <4>1 DEF Resubscribed
      <4>. QED BY <4>3, <4>4, OtherSent
    <3>. QED BY <1>11, <3>1, <3>2
  <2>5. Quieter(rsp[socket], rsp'[socket], Answer)
    BY <2>1, QuietSame
  <2>. QED BY <2>1, <2>2, <2>3, <2>4, <2>5, OpenQuiet
<1>12. ASSUME Retry PROVE OpenInv'
  <2>1. UNCHANGED <<socket, link, req, rsp, connected, late>> /\ \A j \in Key : step[j] = "opening" => step'[j] = "opening"
    BY <1>0, <1>12, Actors DEF Retry, wireVars, histVars
  <2>. QED BY <2>1, QuietSame, OpenQuiet
<1>13. CASE UNCHANGED vars
  BY <1>13, QuietSame, OpenQuiet DEF vars, wireVars, actorVars, histVars
<1>. QED BY <1>1, <1>2, <1>3, <1>4, <1>5, <1>6, <1>7, <1>8, <1>9, <1>10, <1>11, <1>12, <1>13 DEF Next, Continues
-----------------------------------------------------------------------------
(* The order of what is told.                                                *)

\* Nothing is told, perhaps sessions end.
LEMMA OrderQuiet ==
  ASSUME OrderInv, socket' = socket, rsp'[socket] = rsp[socket],
         dLive' \subseteq dLive, dLive' \ late' \subseteq dLive \ late,
         connected => connected',
         link'[socket] \in {"hello", "up"} => Ordered(rsp[socket], dLive')
  PROVE  OrderInv'
<1>1. Revived(rsp[socket], dLive' \ late')
  BY OrderFewer DEF OrderInv
<1>2. ~connected => Complete(rsp[socket], dLive')
  BY OrderFewer DEF OrderInv
<1>. QED BY <1>1, <1>2 DEF OrderInv

\* A frame is told that says what is so.
LEMMA OrderTold ==
  ASSUME OrderInv, socket' = socket, rsp[socket] \in Seq(FrameType),
         link[socket] \in {"hello", "up"}, UNCHANGED <<connected, late>>,
         NEW f \in FrameType, rsp'[socket] = Append(rsp[socket], f),
         \A k \in dLive \ dLive' : f = Frame("exit", {k}),
         \A k \in dLive' \ dLive : Is(f, Ack, k) /\ connected,
         f.t \in {"open-ack", "list-reply"} => f.ks \subseteq dLive',
         f.t = "exit" => f.ks \cap dLive' = {},
         f.t = "list-reply" => dLive' \subseteq f.ks
  PROVE  OrderInv'
<1>1. Ordered(Append(rsp[socket], f), dLive')
  <2>1. Ordered(rsp[socket], dLive) /\ \A k \in dLive : k \in dLive' \/ f = Frame("exit", {k})
    BY DEF OrderInv
  <2>. QED BY <2>1, OrderedAppend
<1>2. Revived(Append(rsp[socket], f), dLive' \ late)
  <2>1. Revived(rsp[socket], dLive \ late)
    BY DEF OrderInv
  <2>2. /\ \A k \in dLive' \ late : k \in dLive \ late \/ Is(f, Ack, k)
        /\ f.t = "exit" => f.ks \cap (dLive' \ late) = {}
    OBVIOUS
  <2>. QED BY <2>1, <2>2, RevivedAppend
<1>3. ~connected => Complete(Append(rsp[socket], f), dLive')
  <2>1. ASSUME ~connected PROVE Complete(Append(rsp[socket], f), dLive')
    <3>1. Complete(rsp[socket], dLive)
      BY <2>1 DEF OrderInv
    <3>2. dLive' \subseteq dLive
      BY <2>1
    <3>. QED BY <3>1, <3>2, CompleteAppend
  <2>. QED BY <2>1
<1>. QED BY <1>1, <1>2, <1>3 DEF OrderInv

\* Nothing is told on a new or ended connection.
LEMMA OrderNone ==
  ASSUME rsp'[socket'] = <<>>
  PROVE  OrderInv'
<1>1. Ordered(<<>>, dLive') /\ Revived(<<>>, dLive' \ late') /\ Complete(<<>>, dLive')
  BY DEF Ordered, Revived, Complete
<1>. QED BY <1>1 DEF OrderInv

\* Every step keeps what is told of a session true, or corrected later.
LEMMA StepOrder ==
  ASSUME TypeOK, SeqInv, AwaitInv, AloneInv, GreetInv, OpenInv, OrderInv, [Next]_vars
  PROVE  OrderInv'
<1>0. /\ link \in [Conn -> Link] /\ socket \in Conn /\ dLive \in SUBSET Key
      /\ req \in [Conn -> Seq(FrameType)] /\ rsp \in [Conn -> Seq(FrameType)]
  BY DEF TypeOK, SeqInv
<1>1. ASSUME NEW c \in Conn, Serve(c) PROVE OrderInv'
  <2>1. /\ socket' = socket /\ link[socket] \in {"hello", "up"}
        /\ req[socket] \in Seq(FrameType) /\ req[socket] # <<>> /\ rsp[socket] \in Seq(FrameType)
        /\ UNCHANGED <<connected, late>> /\ Asked.ks \in SUBSET Key
    BY <1>1, Served DEF histVars, FrameType
  <2>2. \/ Refuses
        \/ Answers("hello-ack", Frame("hello-ack", {})) /\ dLive' = dLive
        \/ /\ Asked.t = "open" /\ Answers("open-ack", Frame("open-ack", Asked.ks))
           /\ dLive' = dLive \cup Asked.ks
        \/ Answers("open-err", Frame("open-err", Asked.ks)) /\ dLive' = dLive
        \/ Answers("list-reply", Frame("list-reply", dLive)) /\ dLive' = dLive
        \/ rsp' = rsp /\ dLive' = dLive
    BY <1>1, Served
  <2>3. CASE Refuses
    <3>1. link'[socket] \notin {"hello", "up"} /\ dLive' = dLive /\ rsp' = rsp
      BY <2>3 DEF Refuses
    <3>. QED BY <2>1, <3>1, OrderQuiet
  <2>4. ASSUME NEW g, Answers("hello-ack", g) \/ Answers("open-err", g), dLive' = dLive PROVE OrderInv'
    <3>1. g \in FrameType /\ rsp'[socket] = Append(rsp[socket], g) /\ g.t \in {"hello-ack", "open-err"}
      BY <2>4 DEF Answers
    <3>. QED BY <2>1, <2>4, <3>1, OrderTold
  <2>5. CASE Asked.t = "open" /\ Answers("open-ack", Frame("open-ack", Asked.ks)) /\ dLive' = dLive \cup Asked.ks
    <3>. DEFINE g == Frame("open-ack", Asked.ks)
    <3>1. g \in FrameType /\ rsp'[socket] = Append(rsp[socket], g) /\ g.t = "open-ack" /\ g.ks = Asked.ks
      BY <2>1, <2>5, FrameTypes DEF Answers
    <3>. HIDE DEF g
    <3>2. \A k \in Asked.ks : Is(g, Ack, k)
      BY <3>1 DEF Is, Ack
    <3>3. ASSUME NEW k \in Asked.ks PROVE connected
      <4>1. Is(Head(req[socket]), Ask, k) /\ k \in Key
        BY <2>1, <2>5 DEF Is, Ask, Asked
      <4>2. Has(req[socket], Ask, k)
        BY <2>1, <4>1, HasTail
      <4>. QED BY <2>1, <4>1, <4>2 DEF OpenInv, Open
    <3>. QED BY <2>1, <2>5, <3>1, <3>2, <3>3, OrderTold
  <2>6. CASE Answers("list-reply", Frame("list-reply", dLive)) /\ dLive' = dLive
    <3>. DEFINE g == Frame("list-reply", dLive)
    <3>1. g \in FrameType /\ rsp'[socket] = Append(rsp[socket], g) /\ g.t = "list-reply" /\ g.ks = dLive
      BY <1>0, <2>6, FrameTypes DEF Answers
    <3>. HIDE DEF g
    <3>. QED BY <2>1, <2>6, <3>1, OrderTold
  <2>7. CASE rsp' = rsp /\ dLive' = dLive
    BY <2>1, <2>7, OrderQuiet DEF OrderInv
  <2>. QED BY <2>2, <2>3, <2>4, <2>5, <2>6, <2>7
<1>2. ASSUME DaemonDies \/ \E c \in Conn : WireDrops(c) PROVE OrderInv'
  <2>1. /\ link'[socket] \notin {"hello", "up"} /\ UNCHANGED <<rsp, socket, connected, late>>
        /\ dLive' = dLive \/ dLive' = {}
    BY <1>2, LinkEnds
  <2>. QED BY <2>1, OrderQuiet
<1>3. ASSUME NEW c \in Conn, Connects(c) PROVE OrderInv'
  <2>1. c = socket /\ link[c] = "dialing" /\ UNCHANGED <<dLive, rsp, socket, connected, late>>
    BY <1>0, <1>3, InUse DEF Connects, daemonVars, histVars
  <2>2. rsp'[socket'] = <<>>
    BY <1>0, <2>1 DEF GreetInv
  <2>. QED BY <2>2, OrderNone
<1>4. ASSUME NEW c \in Conn, Gone(c) PROVE OrderInv'
  <2>1. c = socket /\ socket' = socket /\ rsp'[socket] = <<>>
    BY <1>0, <1>4, InUse DEF Gone
  <2>. QED BY <2>1, OrderNone
<1>5. ASSUME NEW k \in Key, SessionEnds(k) PROVE OrderInv'
  <2>1. /\ UNCHANGED <<link, socket, connected, late>> /\ dLive' = dLive \ {k}
        /\ rsp[socket] \in Seq(FrameType) /\ Frame("exit", {k}) \in FrameType
        /\ IF socket \in dNeg /\ link[socket] \in {"hello", "up"}
           THEN rsp'[socket] = Append(rsp[socket], Frame("exit", {k})) ELSE rsp'[socket] = rsp[socket]
    BY <1>5, ToldEnd
  <2>2. Frame("exit", {k}).t = "exit" /\ Frame("exit", {k}).ks = {k}
    BY DEF Frame
  <2>3. CASE socket \in dNeg /\ link[socket] \in {"hello", "up"}
    BY <2>1, <2>2, <2>3, OrderTold
  <2>4. CASE ~(socket \in dNeg /\ link[socket] \in {"hello", "up"})
    <3>1. link[socket] \in {"hello", "up"} => rsp[socket] = <<>>
      BY <2>4 DEF GreetInv
    <3>2. Ordered(<<>>, dLive')
      BY DEF Ordered
    <3>. QED BY <2>1, <2>4, <3>1, <3>2, OrderQuiet
  <2>. QED BY <2>3, <2>4
<1>6. ASSUME \/ \E k \in Key : Ensure(k) \/ Joined(k) \/ Rearmed(k) \/ Opened(k) \/ OpenTimesOut(k)
             \/ \E a \in Actor : Greeted(a) \/ Adopt(a) \/ DialFails(a)
             \/ Retry \/ UNCHANGED vars
      PROVE  OrderInv'
  <2>1. UNCHANGED <<dLive, link, rsp, socket>>
    BY <1>6 DEF Ensure, Joined, Rearmed, Opened, OpenTimesOut, Greeted, Adopt, DialFails, Retry, vars,
                daemonVars, wireVars
  <2>3. connected => connected'
    BY <1>6, Zenon DEF Ensure, Joined, Rearmed, Opened, OpenTimesOut, Greeted, Adopt, DialFails, Retry, vars
  <2>2. \A k \in late : k \in late'
    BY <1>6 DEF Ensure, Joined, Rearmed, Opened, OpenTimesOut, Greeted, Adopt, DialFails, Retry, vars,
                histVars
  <2>. QED BY <2>1, <2>2, <2>3, OrderQuiet DEF OrderInv
<1>7. ASSUME NEW a \in Actor, Dial(a) PROVE OrderInv'
  <2>1. PICK c \in Conn : link[c] = "none" /\ socket' = c
    BY <1>7 DEF Dial
  <2>2. rsp' = [rsp EXCEPT ![socket] = <<>>]
    BY <1>7 DEF Dial
  <2>3. rsp'[socket'] = <<>>
    BY <1>0, <2>1, <2>2 DEF GreetInv
  <2>. QED BY <2>3, OrderNone
<1>8. ASSUME Receive PROVE OrderInv'
  <2>1. /\ rsp[socket] # <<>> /\ rsp[socket] \in Seq(FrameType) /\ socket' = socket
        /\ rsp'[socket] = Tail(rsp[socket]) /\ UNCHANGED <<dLive, connected, late>>
    BY <1>8, ReceivedKinds
  <2>2. link'[socket] \in {"hello", "up"} => link[socket] \in {"hello", "up"}
    BY <1>0, <1>8 DEF Receive
  <2>3. /\ link'[socket] \in {"hello", "up"} => Ordered(Tail(rsp[socket]), dLive)
        /\ Revived(Tail(rsp[socket]), dLive \ late)
        /\ ~connected => Complete(Tail(rsp[socket]), dLive)
    BY <2>1, <2>2, OrderTail DEF OrderInv
  <2>. QED BY <2>1, <2>3 DEF OrderInv
<1>. QED BY <1>1, <1>2, <1>3, <1>4, <1>5, <1>6, <1>7, <1>8 DEF Next, Continues
-----------------------------------------------------------------------------
(* What a resync knows.                                                      *)

\* What is told stays told while frames are added, or others handled.
LEMMA ToldAppend ==
  ASSUME socket' = socket, rsp[socket] \in Seq(FrameType), NEW f \in FrameType,
         rsp'[socket] = rsp[socket] \/ rsp'[socket] = Append(rsp[socket], f)
  PROVE  \A k : Ending(rsp[socket], k) => Ending(rsp[socket], k)'
<1>1. \A k : Ending(rsp[socket], k) => Ending(Append(rsp[socket], f), k)
  BY HasAppend
<1>2. rsp'[socket'] = rsp[socket] \/ rsp'[socket'] = Append(rsp[socket], f)
  OBVIOUS
<1>. QED BY <1>1, <1>2 DEF Ending

\* Handling a frame forgets the end of no session but its own.
LEMMA ToldTail ==
  ASSUME socket' = socket, rsp[socket] \in Seq(FrameType), rsp[socket] # <<>>,
         rsp'[socket] = Tail(rsp[socket])
  PROVE  \A k : Ending(rsp[socket], k) => Ending(rsp[socket], k)' \/ Got = Frame("exit", {k})
<1>1. \A k : Ending(rsp[socket], k) => Ending(Tail(rsp[socket]), k) \/ Got = Frame("exit", {k})
  BY HasTail DEF Got
<1>2. rsp'[socket'] = Tail(rsp[socket])
  OBVIOUS
<1>. QED BY <1>1, <1>2 DEF Ending

\* A step that neither opens a session nor changes what is running.
LEMMA ResyncQuiet ==
  ASSUME NEW a \in Actor, Resynced(a), todo'[a] = todo[a], ids'[a] = ids[a],
         dLive' \subseteq dLive, dLive' \ late' \subseteq dLive \ late,
         \A k \in Key : mirror'[k] = "running" <=> mirror[k] = "running",
         dLive \subseteq Key, ids[a] \subseteq Key, \A k \in overtaken : k \in overtaken',
         link'[socket'] = "up" => link[socket] = "up" /\ \A k \in Key : Told(k) => Told(k)'
  PROVE  Resynced(a)'
<1>1. todo'[a] \subseteq ids'[a] /\ dLive' \subseteq ids'[a]
  BY DEF Resynced
<1>2. \A k \in dLive' \ late' : k \in todo'[a] \/ mirror'[k] = "running"
  BY DEF Resynced
<1>3. ASSUME link'[socket'] = "up", NEW k \in ids'[a] \ overtaken', k \in todo'[a] \/ mirror'[k] = "running"
      PROVE  Told(k)'
  <2>1. k \in Key /\ k \in ids[a] \ overtaken /\ (k \in todo[a] \/ mirror[k] = "running")
    BY <1>3
  <2>2. Told(k)
    BY <1>3, <2>1 DEF Resynced
  <2>. QED BY <1>3, <2>1, <2>2
<1>. QED BY <1>1, <1>2, <1>3 DEF Resynced

\* Every step keeps what a resync knows.
LEMMA StepResync ==
  ASSUME TypeOK, SeqInv, AwaitInv, AloneInv, GreetInv, OpenInv, OrderInv, ResyncInv, [Next]_vars
  PROVE  ResyncInv'
<1>0. /\ link \in [Conn -> Link] /\ socket \in Conn /\ dLive \in SUBSET Key /\ step \in [Actor -> Step]
      /\ ids \in [Actor -> SUBSET Key] /\ todo \in [Actor -> SUBSET Key]
      /\ mirror \in [Key -> {"none", "running", "exited"}]
      /\ req \in [Conn -> Seq(FrameType)] /\ rsp \in [Conn -> Seq(FrameType)]
  BY DEF TypeOK, SeqInv
<1>1. SUFFICES ASSUME NEW a \in Actor, step'[a] \in {"listed", "sync"} PROVE Resynced(a)'
  BY DEF ResyncInv
<1>. DEFINE Before == step[a] \in {"listed", "sync"}
<1>2. ASSUME Before
      PROVE  /\ Resynced(a) /\ ~connected /\ link[socket] \in {"up", "lost"}
             /\ \A b \in Actor : b # a => step[b] \notin Rearm
             /\ \A b \in Actor : step[b] \notin {"armed", "opening", "opened"}
             /\ ids[a] \subseteq Key
  <2>1. Rearming(a) /\ Resynced(a) /\ link[socket] \in {"up", "lost"}
    BY <1>2 DEF Rearming, Rearm, ResyncInv, AloneInv
  <2>. QED BY <1>0, <2>1 DEF AloneInv, Rearming
<1>3. ASSUME NEW c \in Conn, Serve(c) PROVE Resynced(a)'
  <2>1. /\ socket' = socket /\ link[socket] \in {"hello", "up"}
        /\ req[socket] \in Seq(FrameType) /\ req[socket] # <<>> /\ rsp[socket] \in Seq(FrameType)
        /\ UNCHANGED <<mirror, step, ids, todo, overtaken, late>>
    BY <1>3, Served DEF histVars, actorVars
  <2>2. Before
    BY <1>1, <2>1
  <2>3. \/ Refuses
        \/ link' = link /\ \E g \in FrameType : rsp'[socket] = rsp[socket] \/ rsp'[socket] = Append(rsp[socket], g)
    <3>1. Asked \in FrameType
      BY <1>3, Served
    <3>. QED BY <1>3, <3>1, Served DEF Answers
  <2>4. dLive' = dLive
    <3>1. dLive' = dLive \/ (Asked.t = "open" /\ dLive' = dLive \cup Asked.ks /\ Asked \in FrameType)
      BY <1>3, Served DEF Refuses
    <3>2. ASSUME Asked.t = "open", Asked \in FrameType, NEW k \in Asked.ks PROVE FALSE
      <4>1. Is(Head(req[socket]), Ask, k) /\ k \in Key
        BY <3>2 DEF Is, Ask, Asked, FrameType
      <4>2. Has(req[socket], Ask, k)
        BY <2>1, <4>1, HasTail
      <4>. QED BY <1>2, <2>1, <2>2, <4>1, <4>2 DEF OpenInv, Open
    <3>. QED BY <3>1, <3>2
  <2>5. link'[socket] = "up" => link[socket] = "up" /\ \A k \in Key : Told(k) => Told(k)'
    <3>1. CASE Refuses
      BY <3>1 DEF Refuses
    <3>2. ASSUME NEW g \in FrameType, link' = link,
                 rsp'[socket] = rsp[socket] \/ rsp'[socket] = Append(rsp[socket], g)
          PROVE  \A k \in Key : Told(k) => Told(k)'
      <4>1. \A k : Ending(rsp[socket], k) => Ending(rsp[socket], k)'
        BY <2>1, <3>2, ToldAppend
      <4>. QED BY <2>4, <4>1 DEF Told
    <3>. QED BY <2>3, <3>1, <3>2
  <2>. QED BY <1>0, <1>2, <2>1, <2>2, <2>4, <2>5, ResyncQuiet
<1>4. ASSUME DaemonDies \/ \E c \in Conn : WireDrops(c) PROVE Resynced(a)'
  <2>1. /\ link'[socket] \notin {"hello", "up"} /\ UNCHANGED <<socket, mirror, step, ids, todo, overtaken, late>>
        /\ dLive' = dLive \/ dLive' = {}
    BY <1>4, LinkEnds
  <2>. QED BY <1>0, <1>1, <1>2, <2>1, ResyncQuiet
<1>5. ASSUME NEW c \in Conn, Connects(c) PROVE Resynced(a)'
  <2>1. c = socket /\ link[c] = "dialing" /\ UNCHANGED step
    BY <1>0, <1>5, InUse DEF Connects, actorVars
  <2>. QED BY <1>1, <1>2, <2>1
<1>6. ASSUME NEW c \in Conn, Gone(c) PROVE Resynced(a)'
  <2>1. c = socket /\ UNCHANGED <<dLive, socket, ids, todo, overtaken, late>> /\ link'[socket] = "gone"
    BY <1>0, <1>6, InUse DEF Gone, daemonVars
  <2>2. \A k \in Key : mirror'[k] = mirror[k]
    BY <1>6 DEF Gone, OnDrop
  <2>3. Before
    <3>1. \/ step'[a] = step[a] \/ step'[a] = "dial" \/ step'[a] = Failed(a)
      BY <1>6 DEF Gone
    <3>. QED BY <1>1, <3>1, FailedStep
  <2>. QED BY <1>0, <1>2, <2>1, <2>2, <2>3, ResyncQuiet
<1>7. ASSUME NEW k \in Key, SessionEnds(k) PROVE Resynced(a)'
  <2>1. /\ UNCHANGED <<link, socket, mirror, step, ids, todo, overtaken, late>> /\ dLive' = dLive \ {k}
        /\ rsp[socket] \in Seq(FrameType) /\ Frame("exit", {k}) \in FrameType
        /\ IF socket \in dNeg /\ link[socket] \in {"hello", "up"}
           THEN rsp'[socket] = Append(rsp[socket], Frame("exit", {k})) ELSE rsp'[socket] = rsp[socket]
    BY <1>7, ToldEnd
  <2>2. link[socket] = "up" => rsp'[socket'] = Append(rsp[socket], Frame("exit", {k}))
    BY <2>1 DEF GreetInv
  <2>3. \A j : Ending(rsp[socket], j) => Ending(rsp[socket], j)'
    BY <2>1, ToldAppend
  <2>4. link[socket] = "up" => Ending(rsp[socket], k)'
    <3>1. Ending(Append(rsp[socket], Frame("exit", {k})), k)
      BY <2>1, HasAppend
    <3>. QED BY <2>2, <3>1 DEF Ending
  <2>5. link'[socket'] = "up" => link[socket] = "up" /\ \A j \in Key : Told(j) => Told(j)'
    BY <2>1, <2>3, <2>4 DEF Told
  <2>. QED BY <1>0, <1>1, <1>2, <2>1, <2>5, ResyncQuiet
<1>8. ASSUME NEW k \in Key, Ensure(k) \/ Joined(k) PROVE Resynced(a)'
  <2>1. /\ UNCHANGED <<dLive, link, rsp, socket, ids, todo, overtaken, late>>
        /\ \A j \in Key : mirror'[j] = "running" <=> mirror[j] = "running"
    BY <1>0, <1>8 DEF Ensure, Joined, daemonVars
  <2>2. Before
    <3>1. \E x \in {"opening", "off", "join", "dial"} : step' = [step EXCEPT ![k] = x]
      BY <1>8 DEF Ensure, Joined, SendOpen
    <3>. QED BY <1>0, <1>1, <3>1
  <2>3. \A j \in Key : Told(j) => Told(j)'
    BY <2>1 DEF Told, Ending
  <2>. QED BY <1>0, <1>2, <2>1, <2>2, <2>3, ResyncQuiet
<1>9. ASSUME NEW k \in Key, Rearmed(k) \/ Opened(k) \/ OpenTimesOut(k) PROVE Resynced(a)'
  <2>1. k \in Actor /\ step[k] \in {"armed", "opened", "opening"}
    BY <1>9, Actors DEF Rearmed, Opened, OpenTimesOut, AwaitInv
  <2>2. Before
    <3>1. \E x \in {"opening", "off"} : step' = [step EXCEPT ![k] = x]
      BY <1>9 DEF Rearmed, Opened, OpenTimesOut, SendOpen
    <3>. QED BY <1>0, <1>1, <3>1
  <2>. QED BY <1>2, <2>1, <2>2
<1>10. ASSUME NEW b \in Actor, Dial(b) \/ DialFails(b) \/ Greeted(b) PROVE Resynced(a)'
  <2>1. step[b] \in {"dial", "greeted"}
    BY <1>10 DEF Dial, DialFails, Greeted
  <2>2. Before
    <3>1. \E x \in {"handshake", Failed(b), "list"} : step' = [step EXCEPT ![b] = x]
      BY <1>10 DEF Dial, DialFails, Greeted
    <3>. QED BY <1>0, <1>1, <3>1, FailedStep
  <2>. QED BY <1>2, <2>1, <2>2 DEF Rearm
<1>11. ASSUME Retry PROVE Resynced(a)'
  <2>1. step["loop"] = "backoff" /\ "loop" \in Actor
    BY <1>11, Actors DEF Retry
  <2>2. Before
    <3>1. \E x \in {"dial", "off"} : step' = [step EXCEPT !["loop"] = x]
      BY <1>11 DEF Retry
    <3>. QED BY <1>0, <1>1, <3>1
  <2>. QED BY <1>2, <2>1, <2>2 DEF Rearm
<1>12. ASSUME NEW b \in Actor, Adopt(b) PROVE Resynced(a)'
  <2>1. step[b] \in {"listed", "sync"} /\ UNCHANGED <<dLive, link, rsp, socket, overtaken, late>>
    BY <1>12 DEF Adopt, daemonVars, histVars
  <2>2. Before
    <3>1. \E x \in {"sync", "armed", "off"} : step' = [step EXCEPT ![b] = x]
      BY <1>12 DEF Adopt
    <3>. QED BY <1>0, <1>1, <2>1, <3>1
  <2>3. a = b
    BY <1>2, <2>1, <2>2 DEF Rearm
  <2>4. PICK s \in SUBSET todo[a] :
          /\ todo' = [todo EXCEPT ![a] = @ \ s] /\ ids' = ids
          /\ mirror' = [k \in Key |-> IF k \in s THEN "running" ELSE mirror[k]]
    <3>1. step'[a] # "armed" /\ step'[a] # "off"
      BY <1>1
    <3>2. ~(step' = [step EXCEPT ![a] = IF a \in Key THEN "armed" ELSE "off"])
      BY <1>0, <3>1
    <3>. QED BY <1>12, <2>3, <3>2 DEF Adopt
  <2>5. todo'[a] = todo[a] \ s /\ ids'[a] = ids[a]
    BY <1>0, <2>4
  <2>6. todo[a] \subseteq Key
    BY <1>0
  <2>7. todo'[a] \subseteq ids'[a] /\ dLive' \subseteq ids'[a]
    BY <1>2, <2>1, <2>2, <2>5 DEF Resynced
  <2>8. \A k \in dLive' \ late' : k \in todo'[a] \/ mirror'[k] = "running"
    BY <1>0, <1>2, <2>1, <2>2, <2>4, <2>5 DEF Resynced
  <2>9. ASSUME link'[socket'] = "up", NEW k \in ids'[a] \ overtaken', k \in todo'[a] \/ mirror'[k] = "running"
        PROVE  Told(k)'
    <3>1. k \in Key /\ k \in ids[a] \ overtaken /\ (k \in todo[a] \/ mirror[k] = "running")
      BY <1>2, <2>1, <2>2, <2>4, <2>5, <2>9
    <3>2. Told(k)
      BY <1>2, <2>1, <2>2, <2>9, <3>1 DEF Resynced
    <3>. QED BY <2>1, <3>2 DEF Told, Ending
  <2>. QED BY <2>7, <2>8, <2>9 DEF Resynced
<1>13. ASSUME Receive PROVE Resynced(a)'
  <2>1. /\ Got \in FrameType /\ rsp[socket] # <<>> /\ rsp[socket] \in Seq(FrameType) /\ socket' = socket
        /\ rsp'[socket] = Tail(rsp[socket]) /\ UNCHANGED <<dLive, connected, late>>
        /\ Got.t \in {"hello-ack", "open-ack", "open-err", "exit", "list-reply"}
    BY <1>13, ReceivedKinds
  <2>2. \A k : Ending(rsp[socket], k) => Ending(rsp[socket], k)' \/ Got = Frame("exit", {k})
    BY <2>1, ToldTail
  <2>3. CASE Got.t = "hello-ack"
    <3>1. UNCHANGED <<mirror, ids, todo, overtaken>> /\ Before
          /\ link'[socket] = IF link[socket] = "hello" THEN "up" ELSE "lost"
      BY <1>0, <1>1, <1>13, <2>3 DEF Receive, Got
    <3>. QED BY <1>0, <1>2, <2>1, <3>1, ResyncQuiet
  <2>4. CASE Got.t \in {"open-ack", "open-err"} \/ (Got.t = "list-reply" /\ pendingLists = <<>>)
    <3>1. UNCHANGED <<link, mirror, ids, todo, overtaken>> /\ Before
      BY <1>0, <1>1, <1>13, <2>4 DEF Receive, Got
    <3>2. \A k \in Key : Got # Frame("exit", {k})
      BY <2>4 DEF Frame
    <3>3. \A k \in Key : Told(k) => Told(k)'
      BY <2>1, <2>2, <3>2 DEF Told
    <3>. QED BY <1>0, <1>2, <2>1, <3>1, <3>3, ResyncQuiet
  <2>5. CASE Got.t = "exit"
    <3>1. /\ UNCHANGED <<link, step, ids, todo>> /\ Before
          /\ mirror' = [k \in Key |-> IF k \in Got.ks /\ mirror[k] # "none" THEN "exited" ELSE mirror[k]]
          /\ overtaken' = (overtaken \ Got.ks) \cup (Got.ks \cap Continuing)
      BY <1>1, <1>13, <2>5 DEF Receive, Got
    <3>2. ASSUME NEW k \in dLive \ late, k \in Got.ks PROVE FALSE
      <4>1. Revived(rsp[socket], dLive \ late)
        BY DEF OrderInv
      <4>2. Revived(rsp[socket], dLive \ late) /\ Got.t = "exit" =>
              \A j \in Got.ks \cap (dLive \ late) : Has(Tail(rsp[socket]), Ack, j)
        BY <2>1, OrderTail DEF Got
      <4>3. Has(Tail(rsp[socket]), Ack, k)
        BY <2>5, <3>2, <4>1, <4>2
      <4>4. Has(rsp[socket], Ack, k)
        BY <2>1, <4>3, HasTail
      <4>5. Has(rsp[socket], Answer, k)
        BY <4>4 DEF Has, Is, Ack, Answer
      <4>. QED BY <1>0, <1>2, <3>1, <3>2, <4>5 DEF OpenInv
    <3>3. todo[a] \subseteq Continuing
      BY <1>1, <3>1 DEF Continuing
    <3>4. todo'[a] \subseteq ids'[a] /\ dLive' \subseteq ids'[a]
      BY <1>2, <2>1, <3>1 DEF Resynced
    <3>5. \A k \in dLive' \ late' : k \in todo'[a] \/ mirror'[k] = "running"
      BY <1>0, <1>2, <2>1, <3>1, <3>2 DEF Resynced
    <3>6. ASSUME link'[socket'] = "up", NEW k \in ids'[a] \ overtaken', k \in todo'[a] \/ mirror'[k] = "running"
          PROVE  Told(k)'
      <4>1. k \in Key /\ k \notin Got.ks
        BY <1>0, <1>2, <3>1, <3>3, <3>6
      <4>2. k \in ids[a] \ overtaken /\ (k \in todo[a] \/ mirror[k] = "running")
        BY <3>1, <3>6, <4>1
      <4>3. Told(k)
        BY <1>2, <2>1, <3>1, <3>6, <4>2 DEF Resynced
      <4>4. Got # Frame("exit", {k})
        BY <4>1 DEF Frame
      <4>. QED BY <2>1, <2>2, <4>3, <4>4 DEF Told
    <3>. QED BY <3>4, <3>5, <3>6 DEF Resynced
  <2>6. CASE Got.t = "list-reply" /\ pendingLists # <<>>
    <3>. DEFINE h == Head(pendingLists)
    <3>1. /\ step' = [step EXCEPT ![h] = "listed"] /\ link' = link
          /\ ids' = [ids EXCEPT ![h] = Got.ks] /\ todo' = [todo EXCEPT ![h] = Got.ks]
      BY <1>13, <2>6 DEF Receive, Got, LiveIds
    <3>2. h = pendingLists[1] /\ 1 \in DOMAIN pendingLists /\ h \in Actor
      BY <2>6, Taken DEF SeqInv
    <3>3. step[h] = "list"
      BY <3>2 DEF AwaitInv
    <3>. HIDE DEF h
    <3>4. a = h
      BY <1>0, <1>1, <1>2, <3>1, <3>2, <3>3 DEF Rearm
    <3>5. ~connected
      BY <3>2, <3>3 DEF AloneInv, Rearming, Rearm
    <3>6. ids'[a] = Got.ks /\ todo'[a] = Got.ks
      BY <1>0, <3>1, <3>4
    <3>7. dLive \subseteq Got.ks
      <4>1. Complete(rsp[socket], dLive)
        BY <3>5 DEF OrderInv
      <4>2. Complete(rsp[socket], dLive) /\ Got.t = "list-reply" => dLive \subseteq Got.ks
        BY <2>1, OrderTail DEF Got
      <4>. QED BY <2>6, <4>1, <4>2
    <3>8. ASSUME link'[socket'] = "up", NEW k \in Got.ks PROVE Told(k)'
      <4>1. Ordered(rsp[socket], dLive)
        BY <2>1, <3>1, <3>8 DEF OrderInv
      <4>2. Ordered(rsp[socket], dLive) /\ Got.t \in {"open-ack", "list-reply"} =>
              \A j \in Got.ks : j \in dLive \/ Ending(Tail(rsp[socket]), j)
        BY <2>1, OrderTail DEF Got
      <4>3. k \in dLive \/ Ending(Tail(rsp[socket]), k)
        BY <2>6, <3>8, <4>1, <4>2
      <4>. QED BY <2>1, <4>3 DEF Told, Ending
    <3>. QED BY <2>1, <3>6, <3>7, <3>8 DEF Resynced
  <2>. QED BY <2>1, <2>3, <2>4, <2>5, <2>6
<1>14. ASSUME UNCHANGED vars PROVE Resynced(a)'
  <2>1. /\ UNCHANGED <<dLive, link, rsp, socket, ids, todo, overtaken, late, mirror, step>>
    BY <1>14 DEF vars, daemonVars, wireVars, actorVars, histVars
  <2>2. \A j \in Key : Told(j) => Told(j)'
    BY <2>1 DEF Told, Ending
  <2>. QED BY <1>0, <1>1, <1>2, <2>1, <2>2, ResyncQuiet
<1>. QED BY <1>3, <1>4, <1>5, <1>6, <1>7, <1>8, <1>9, <1>10, <1>11, <1>12, <1>13, <1>14 DEF Next, Continues
-----------------------------------------------------------------------------
(* What the mirrors say.                                                     *)

\* A step that shows nothing new, and forgets nothing.
LEMMA MirrorQuiet ==
  ASSUME MirrorInv, connected' => connected, link'[socket'] = "up" => link[socket] = "up",
         dLive' \ late' \subseteq dLive \ late, dLive \subseteq Key,
         \A k \in Key : k \notin overtaken' => k \notin overtaken,
         \A k \in Key : Shown(k)' <=> Shown(k),
         link'[socket'] = "up" =>
           \A k \in Key : /\ Told(k) => Told(k)'
                          /\ Has(rsp[socket], Ack, k) => Has(rsp'[socket'], Ack, k)
  PROVE  MirrorInv'
<1>. SUFFICES ASSUME connected', link'[socket'] = "up"
              PROVE  /\ \A k \in Key \ overtaken' : Shown(k)' => Told(k)'
                     /\ \A k \in dLive' \ late' : Shown(k)' \/ Has(rsp'[socket'], Ack, k)
  BY DEF MirrorInv
<1>1. /\ \A k \in Key \ overtaken : Shown(k) => Told(k)
      /\ \A k \in dLive \ late : Shown(k) \/ Has(rsp[socket], Ack, k)
  <2>1. connected /\ link[socket] = "up"
    OBVIOUS
  <2>. QED BY <2>1 DEF MirrorInv
<1>2. ASSUME NEW k \in Key \ overtaken', Shown(k)' PROVE Told(k)'
  BY <1>1, <1>2
<1>3. ASSUME NEW k \in dLive' \ late' PROVE Shown(k)' \/ Has(rsp'[socket'], Ack, k)
  BY <1>1
<1>. QED BY <1>2, <1>3

\* Nothing is shown yet, or no longer.
LEMMA MirrorNone ==
  ASSUME ~connected' \/ link'[socket'] # "up"
  PROVE  MirrorInv'
  BY DEF MirrorInv

\* Who re-arms the connection does so before it is connected.
LEMMA Unarmed ==
  ASSUME AloneInv, NEW a \in Actor, step[a] \in Rearm
  PROVE  ~connected
  BY DEF AloneInv, Rearming

\* The resync is over: what it does not list is shown as exited.
LEMMA MirrorAdopted ==
  ASSUME TypeOK, AloneInv, ResyncInv, NEW a \in Actor, step[a] \in {"listed", "sync"},
         UNCHANGED <<dLive, link, rsp, socket, overtaken, late>>,
         mirror' = [k \in Key |-> IF k \in todo[a] THEN "running"
                                  ELSE IF k \in Vanished(a) THEN "exited" ELSE mirror[k]],
         \A k \in Key : step'[k] # "opened"
  PROVE  MirrorInv'
<1>1. Resynced(a) /\ ids[a] \in SUBSET Key /\ todo[a] \in SUBSET Key /\ dLive \subseteq Key
  BY DEF ResyncInv, TypeOK
<1>2. \A k \in Key : mirror'[k] = "running" <=> k \in todo[a] \/ (mirror[k] = "running" /\ k \in ids[a])
  BY DEF Vanished
<1>3. ASSUME link'[socket'] = "up", NEW k \in Key \ overtaken', Shown(k)' PROVE Told(k)'
  <2>1. mirror'[k] = "running"
    BY <1>3 DEF Shown
  <2>2. k \in ids[a] \ overtaken /\ (k \in todo[a] \/ mirror[k] = "running")
    BY <1>1, <1>2, <1>3, <2>1 DEF Resynced
  <2>3. Told(k)
    BY <1>1, <1>3, <2>2 DEF Resynced
  <2>. QED BY <2>3 DEF Told, Ending
<1>4. ASSUME NEW k \in dLive' \ late' PROVE Shown(k)'
  <2>1. k \in ids[a] /\ (k \in todo[a] \/ mirror[k] = "running") /\ k \in Key
    BY <1>1, <1>4 DEF Resynced
  <2>2. mirror'[k] = "running"
    BY <1>2, <2>1
  <2>. QED BY <2>2 DEF Shown
<1>. QED BY <1>3, <1>4 DEF MirrorInv

\* Every step keeps the mirrors true.
LEMMA StepMirror ==
  ASSUME TypeOK, SeqInv, AwaitInv, AloneInv, GreetInv, OpenInv, OrderInv, ResyncInv, MirrorInv, [Next]_vars
  PROVE  MirrorInv'
<1>0. /\ link \in [Conn -> Link] /\ socket \in Conn /\ dLive \in SUBSET Key /\ step \in [Actor -> Step]
      /\ mirror \in [Key -> {"none", "running", "exited"}] /\ Key \subseteq Actor /\ dLive \subseteq Key
      /\ req \in [Conn -> Seq(FrameType)] /\ rsp \in [Conn -> Seq(FrameType)]
  BY Actors DEF TypeOK, SeqInv
<1>1. ASSUME NEW c \in Conn, Serve(c) PROVE MirrorInv'
  <2>1. /\ socket' = socket /\ link[socket] \in {"hello", "up"} /\ rsp[socket] \in Seq(FrameType)
        /\ UNCHANGED <<connected, mirror, step, overtaken, late>> /\ Asked.ks \in SUBSET Key
    BY <1>1, Served DEF histVars, actorVars, FrameType
  <2>2. \/ Refuses
        \/ \E g \in FrameType :
             /\ link' = link
             /\ rsp'[socket] = rsp[socket] \/ rsp'[socket] = Append(rsp[socket], g)
             /\ \/ dLive' = dLive
                \/ /\ dLive' = dLive \cup Asked.ks /\ g.t = "open-ack" /\ g.ks = Asked.ks
                   /\ rsp'[socket] = Append(rsp[socket], g)
    <3>1. Frame("open-ack", Asked.ks).ks = Asked.ks
      BY <2>1, FrameTypes
    <3>2. Asked \in FrameType
      BY <1>1, Served
    <3>. QED BY <1>1, <3>1, <3>2, Served DEF Answers
  <2>3. CASE Refuses
    <3>1. link'[socket'] # "up"
      BY <2>1, <2>3 DEF Refuses
    <3>. QED BY <3>1, MirrorNone
  <2>4. ASSUME NEW g \in FrameType, link' = link,
               rsp'[socket] = rsp[socket] \/ rsp'[socket] = Append(rsp[socket], g),
               \/ dLive' = dLive
               \/ /\ dLive' = dLive \cup Asked.ks /\ g.t = "open-ack" /\ g.ks = Asked.ks
                  /\ rsp'[socket] = Append(rsp[socket], g)
        PROVE  MirrorInv'
    <3>1. \A k : Ending(rsp[socket], k) => Ending(rsp[socket], k)'
      BY <2>1, <2>4, ToldAppend
    <3>2. \A k \in Key : Told(k) => Told(k)'
      BY <2>4, <3>1 DEF Told
    <3>3. \A k \in Key : Has(Append(rsp[socket], g), Ack, k) <=> Has(rsp[socket], Ack, k) \/ Is(g, Ack, k)
      BY <2>1, HasAppend
    <3>4. \A k \in Key : Has(rsp[socket], Ack, k) => Has(rsp'[socket'], Ack, k)
      BY <2>1, <2>4, <3>3
    <3>5. \A k \in Key : Shown(k)' <=> Shown(k)
      BY <2>1 DEF Shown
    <3>6. CASE dLive' = dLive
      <4>1. connected' => connected
        BY <2>1
      <4>2. dLive' \ late' \subseteq dLive \ late /\ (link'[socket'] = "up" => link[socket] = "up")
            /\ \A k \in Key : k \notin overtaken' => k \notin overtaken
        BY <2>1, <2>4, <3>6
      <4>. QED BY <1>0, <3>2, <3>4, <3>5, <4>1, <4>2, MirrorQuiet
    <3>7. CASE dLive' = dLive \cup Asked.ks /\ g.t = "open-ack" /\ g.ks = Asked.ks
               /\ rsp'[socket] = Append(rsp[socket], g)
      <4>1. ASSUME connected', link'[socket'] = "up"
            PROVE  /\ \A k \in Key \ overtaken : Shown(k) => Told(k)
                   /\ \A k \in dLive \ late : Shown(k) \/ Has(rsp[socket], Ack, k)
        <5>1. connected /\ link[socket] = "up"
          BY <2>1, <2>4, <4>1
        <5>. QED BY <5>1 DEF MirrorInv
      <4>2. ASSUME connected', link'[socket'] = "up", NEW k \in Key \ overtaken', Shown(k)' PROVE Told(k)'
        BY <2>1, <3>2, <3>5, <4>1, <4>2
      <4>3. ASSUME connected', link'[socket'] = "up", NEW k \in dLive' \ late'
            PROVE  Shown(k)' \/ Has(rsp'[socket'], Ack, k)
        <5>1. CASE k \in dLive
          BY <1>0, <2>1, <3>4, <3>5, <4>1, <4>3, <5>1
        <5>2. CASE k \notin dLive
          <6>1. k \in Key /\ Is(g, Ack, k)
            BY <1>0, <2>1, <3>7, <4>3, <5>2 DEF Is, Ack
          <6>. QED BY <2>1, <3>3, <3>7, <6>1
        <5>. QED BY <5>1, <5>2
      <4>. QED BY <4>2, <4>3 DEF MirrorInv
    <3>. QED BY <2>4, <3>6, <3>7
  <2>. QED BY <2>2, <2>3, <2>4
<1>2. ASSUME DaemonDies \/ \E c \in Conn : WireDrops(c) PROVE MirrorInv'
  <2>1. link'[socket'] # "up"
    BY <1>2, LinkEnds
  <2>. QED BY <2>1, MirrorNone
<1>3. ASSUME NEW c \in Conn, Connects(c) \/ Gone(c) PROVE MirrorInv'
  <2>1. c = socket /\ socket' = socket /\ link'[c] \in {"hello", "refused", "gone"}
    BY <1>0, <1>3, InUse DEF Connects, Gone
  <2>. QED BY <2>1, MirrorNone
<1>4. ASSUME NEW k \in Key, SessionEnds(k) PROVE MirrorInv'
  <2>1. /\ UNCHANGED <<link, socket, connected, mirror, step, overtaken, late>> /\ dLive' = dLive \ {k}
        /\ rsp[socket] \in Seq(FrameType) /\ Frame("exit", {k}) \in FrameType
        /\ IF socket \in dNeg /\ link[socket] \in {"hello", "up"}
           THEN rsp'[socket] = Append(rsp[socket], Frame("exit", {k})) ELSE rsp'[socket] = rsp[socket]
    BY <1>4, ToldEnd
  <2>2. link[socket] = "up" => rsp'[socket'] = Append(rsp[socket], Frame("exit", {k}))
    BY <2>1 DEF GreetInv
  <2>3. \A j : Ending(rsp[socket], j) => Ending(rsp[socket], j)'
    BY <2>1, ToldAppend
  <2>4. /\ Ending(Append(rsp[socket], Frame("exit", {k})), k)
        /\ \A j \in Key : Has(rsp[socket], Ack, j) => Has(Append(rsp[socket], Frame("exit", {k})), Ack, j)
    BY <2>1, HasAppend
  <2>5. link[socket] = "up" => Ending(rsp[socket], k)'
    BY <2>2, <2>4 DEF Ending
  <2>6. link'[socket'] = "up" =>
          \A j \in Key : /\ Told(j) => Told(j)'
                         /\ Has(rsp[socket], Ack, j) => Has(rsp'[socket'], Ack, j)
    BY <2>1, <2>2, <2>3, <2>4, <2>5 DEF Told
  <2>7. \A j \in Key : Shown(j)' <=> Shown(j)
    BY <2>1 DEF Shown
  <2>. QED BY <1>0, <2>1, <2>6, <2>7, MirrorQuiet
<1>5. ASSUME NEW k \in Key, Ensure(k) \/ Joined(k) \/ Rearmed(k) \/ Opened(k) \/ OpenTimesOut(k)
      PROVE  MirrorInv'
  <2>1. UNCHANGED <<dLive, link, rsp, socket, overtaken>>
    BY <1>5 DEF Ensure, Joined, Rearmed, Opened, OpenTimesOut, daemonVars, wireVars, histVars
  <2>2. (connected' => connected) /\ \A j \in late : j \in late'
    <3>1. connected' = connected
      BY <1>5, Zenon DEF Ensure, Joined, Rearmed, Opened, OpenTimesOut
    <3>2. late' = late \/ late' = late \cup {k}
      BY <1>5 DEF Ensure, Joined, Rearmed, Opened, OpenTimesOut, histVars
    <3>. QED BY <3>1, <3>2
  <2>3. \A j \in Key : Shown(j)' <=> Shown(j)
    <3>1. CASE Opened(k)
      <4>1. /\ step[k] = "opened" /\ mirror'[k] = "running"
            /\ \A j \in Key : j # k => mirror'[j] = mirror[j] /\ step'[j] = step[j]
        BY <1>0, <3>1 DEF Opened
      <4>. QED BY <4>1 DEF Shown
    <3>2. CASE ~Opened(k)
      <4>1. \A j \in Key : mirror'[j] = "running" <=> mirror[j] = "running"
        BY <1>0, <1>5, <3>2 DEF Ensure, Joined, Rearmed, OpenTimesOut
      <4>2. \E x \in {"off", "opening", "join", "dial"} : step' = [step EXCEPT ![k] = x]
        BY <1>5, <3>2 DEF Ensure, Joined, Rearmed, OpenTimesOut, SendOpen
      <4>3. step[k] # "opened"
        BY <1>0, <1>5, <3>2 DEF Ensure, Joined, Rearmed, OpenTimesOut, AwaitInv
      <4>4. \A j \in Key : step'[j] = "opened" <=> step[j] = "opened"
        BY <1>0, <4>2, <4>3
      <4>. QED BY <4>1, <4>4 DEF Shown
    <3>. QED BY <3>1, <3>2
  <2>4. \A j \in Key : /\ Told(j) => Told(j)'
                       /\ Has(rsp[socket], Ack, j) => Has(rsp'[socket'], Ack, j)
    BY <2>1 DEF Told, Ending
  <2>. QED BY <1>0, <2>1, <2>2, <2>3, <2>4, MirrorQuiet
<1>6. ASSUME NEW a \in Actor, Dial(a) \/ DialFails(a) \/ Greeted(a) PROVE MirrorInv'
  <2>1. step[a] \in Rearm
    BY <1>6 DEF Dial, DialFails, Greeted, Rearm
  <2>2. connected' = connected
    BY <1>6, Zenon DEF Dial, DialFails, Greeted
  <2>. QED BY <2>1, <2>2, Unarmed, MirrorNone
<1>7. ASSUME Retry PROVE MirrorInv'
  <2>1. step["loop"] \in Rearm /\ "loop" \in Actor
    BY <1>7, Actors DEF Retry, Rearm
  <2>2. connected' = connected
    BY <1>7, Zenon DEF Retry
  <2>. QED BY <2>1, <2>2, Unarmed, MirrorNone
<1>8. ASSUME NEW a \in Actor, Adopt(a) PROVE MirrorInv'
  <2>1. step[a] \in {"listed", "sync"} /\ UNCHANGED <<dLive, link, rsp, socket, overtaken, late>>
    BY <1>8 DEF Adopt, daemonVars, histVars
  <2>2. step[a] \in Rearm
    BY <2>1 DEF Rearm
  <2>3. ~connected
    BY <2>2, Unarmed
  <2>4. \/ connected' = connected
        \/ /\ step' = [step EXCEPT ![a] = IF a \in Key THEN "armed" ELSE "off"]
           /\ mirror' = [k \in Key |-> IF k \in todo[a] THEN "running"
                                       ELSE IF k \in Vanished(a) THEN "exited" ELSE mirror[k]]
    BY <1>8 DEF Adopt
  <2>5. CASE connected' = connected
    BY <2>3, <2>5, MirrorNone
  <2>6. CASE /\ step' = [step EXCEPT ![a] = IF a \in Key THEN "armed" ELSE "off"]
             /\ mirror' = [k \in Key |-> IF k \in todo[a] THEN "running"
                                         ELSE IF k \in Vanished(a) THEN "exited" ELSE mirror[k]]
    <3>1. \A k \in Key : step[k] # "opened"
      BY <1>0, <2>3 DEF AloneInv
    <3>2. \A k \in Key : step'[k] # "opened"
      BY <1>0, <2>6, <3>1
    <3>. QED BY <2>1, <2>6, <3>2, MirrorAdopted
  <2>. QED BY <2>4, <2>5, <2>6
<1>9. ASSUME Receive PROVE MirrorInv'
  <2>1. /\ Got \in FrameType /\ rsp[socket] # <<>> /\ rsp[socket] \in Seq(FrameType) /\ socket' = socket
        /\ rsp'[socket] = Tail(rsp[socket]) /\ UNCHANGED <<dLive, connected, late>>
        /\ Got.t \in {"hello-ack", "open-ack", "open-err", "exit", "list-reply"}
    BY <1>9, ReceivedKinds
  <2>2. \A k : Ending(rsp[socket], k) => Ending(rsp[socket], k)' \/ Got = Frame("exit", {k})
    BY <2>1, ToldTail
  <2>3. \A k \in Key : Has(rsp[socket], Ack, k) => Has(rsp'[socket'], Ack, k) \/ Is(Got, Ack, k)
    <3>1. \A k : Has(rsp[socket], Ack, k) <=> Has(Tail(rsp[socket]), Ack, k) \/ Is(Got, Ack, k)
      BY <2>1, HasTail DEF Got
    <3>. QED BY <2>1, <3>1
  <2>4. CASE ~connected
    BY <2>1, <2>4, MirrorNone
  <2>5. ASSUME connected, Got.t = "hello-ack" PROVE MirrorInv'
    <3>1. link[socket] # "hello"
      BY <2>5, InUse
    <3>2. link'[socket] = "lost"
      BY <1>0, <1>9, <2>5, <3>1 DEF Receive, Got
    <3>. QED BY <2>1, <3>2, MirrorNone
  <2>6. ASSUME connected, Got.t = "open-ack" PROVE MirrorInv'
    <3>1. /\ UNCHANGED <<link, mirror, overtaken>>
          /\ step' = [a \in Actor |-> IF a \in Got.ks \cap pendingOpens THEN "opened" ELSE step[a]]
      BY <1>9, <2>6 DEF Receive, Got
    <3>2. \A k \in Key : Shown(k) => Shown(k)'
      BY <1>0, <3>1 DEF Shown
    <3>3. \A k \in Key : Shown(k)' => Shown(k) \/ k \in Got.ks
      BY <1>0, <3>1 DEF Shown
    <3>4. ASSUME link[socket] = "up"
          PROVE  /\ \A k \in Key \ overtaken : Shown(k) => Told(k)
                 /\ \A k \in dLive \ late : Shown(k) \/ Has(rsp[socket], Ack, k)
                 /\ \A k \in Got.ks : Told(k)'
      <4>1. Ordered(rsp[socket], dLive)
        BY <3>4 DEF OrderInv
      <4>2. Ordered(rsp[socket], dLive) /\ Got.t \in {"open-ack", "list-reply"} =>
              \A k \in Got.ks : k \in dLive \/ Ending(Tail(rsp[socket]), k)
        BY <2>1, OrderTail DEF Got
      <4>3. \A k \in Got.ks : k \in dLive \/ Ending(Tail(rsp[socket]), k)
        BY <2>6, <4>1, <4>2
      <4>4. \A k \in Got.ks : Told(k)'
        BY <2>1, <4>3 DEF Told, Ending
      <4>. QED BY <2>6, <3>4, <4>4 DEF MirrorInv
    <3>5. ASSUME link'[socket'] = "up", NEW k \in Key \ overtaken', Shown(k)' PROVE Told(k)'
      <4>1. CASE k \in Got.ks
        BY <2>1, <3>1, <3>4, <3>5, <4>1
      <4>2. CASE k \notin Got.ks
        <5>1. Told(k) /\ Got # Frame("exit", {k})
          BY <2>1, <2>6, <3>1, <3>3, <3>4, <3>5, <4>2 DEF Frame
        <5>. QED BY <2>1, <2>2, <5>1 DEF Told
      <4>. QED BY <4>1, <4>2
    <3>6. ASSUME link'[socket'] = "up", NEW k \in dLive' \ late' PROVE Shown(k)' \/ Has(rsp'[socket'], Ack, k)
      <4>1. k \in Key /\ k \in dLive \ late /\ (Shown(k) \/ Has(rsp[socket], Ack, k))
        BY <1>0, <2>1, <3>1, <3>4, <3>6
      <4>2. ASSUME Is(Got, Ack, k) PROVE Shown(k)'
        <5>1. Has(rsp[socket], Answer, k)
          <6>1. Is(Got, Answer, k)
            BY <4>2 DEF Is, Ack, Answer
          <6>2. Has(rsp[socket], Answer, k) <=> Has(Tail(rsp[socket]), Answer, k) \/ Is(Got, Answer, k)
            BY <2>1, HasTail DEF Got
          <6>. QED BY <6>1, <6>2
        <5>2. step[k] = "opening"
          BY <4>1, <5>1 DEF OpenInv
        <5>3. k \in pendingOpens /\ k \in Got.ks
          BY <1>0, <4>1, <4>2, <5>2 DEF AwaitInv, Is
        <5>4. step'[k] = "opened"
          BY <1>0, <3>1, <4>1, <5>3
        <5>. QED BY <5>4 DEF Shown
      <4>. QED BY <2>3, <3>2, <4>1, <4>2
    <3>. QED BY <3>5, <3>6 DEF MirrorInv
  <2>7. ASSUME connected, Got.t = "open-err" \/ (Got.t = "list-reply" /\ pendingLists = <<>>) PROVE MirrorInv'
    <3>1. /\ UNCHANGED <<link, mirror, overtaken>>
          /\ \/ step' = [a \in Actor |-> IF a \in Got.ks \cap pendingOpens THEN "off" ELSE step[a]]
             \/ step' = step
      BY <1>9, <2>7 DEF Receive, Got
    <3>2. \A k \in pendingOpens : step[k] = "opening"
      BY <1>0 DEF AwaitInv, TypeOK
    <3>3. \A k \in Key : step'[k] = "opened" <=> step[k] = "opened"
      BY <1>0, <3>1, <3>2
    <3>4. \A k \in Key : Shown(k)' <=> Shown(k)
      BY <3>1, <3>3 DEF Shown
    <3>5. \A k \in Key : Got # Frame("exit", {k}) /\ ~Is(Got, Ack, k)
      BY <2>7 DEF Frame, Is, Ack
    <3>6. \A k \in Key : /\ Told(k) => Told(k)'
                         /\ Has(rsp[socket], Ack, k) => Has(rsp'[socket'], Ack, k)
      BY <2>1, <2>2, <2>3, <3>5 DEF Told
    <3>. QED BY <1>0, <2>1, <3>1, <3>4, <3>6, MirrorQuiet
  <2>8. ASSUME connected, Got.t = "exit" PROVE MirrorInv'
    <3>1. /\ UNCHANGED <<link, step>>
          /\ mirror' = [k \in Key |-> IF k \in Got.ks /\ mirror[k] # "none" THEN "exited" ELSE mirror[k]]
          /\ overtaken' = (overtaken \ Got.ks) \cup (Got.ks \cap Continuing)
      BY <1>9, <2>8 DEF Receive, Got
    <3>2. \A k \in Key : ~Is(Got, Ack, k)
      BY <2>8 DEF Is, Ack
    <3>3. ASSUME link[socket] = "up"
          PROVE  /\ \A k \in Key \ overtaken : Shown(k) => Told(k)
                 /\ \A k \in dLive \ late : Shown(k) \/ Has(rsp[socket], Ack, k)
      BY <2>8, <3>3 DEF MirrorInv
    <3>4. ASSUME link'[socket'] = "up", NEW k \in Key \ overtaken', Shown(k)' PROVE Told(k)'
      <4>1. k \notin Got.ks
        <5>1. CASE mirror'[k] = "running"
          BY <1>0, <3>1, <5>1
        <5>2. CASE step'[k] = "opened"
          BY <3>1, <3>4, <5>2 DEF Continuing
        <5>. QED BY <3>4, <5>1, <5>2 DEF Shown
      <4>2. k \notin overtaken /\ Shown(k)
        BY <1>0, <3>1, <3>4, <4>1 DEF Shown
      <4>3. Told(k) /\ Got # Frame("exit", {k})
        BY <2>1, <3>1, <3>3, <3>4, <4>1, <4>2 DEF Frame
      <4>. QED BY <2>1, <2>2, <4>3 DEF Told
    <3>5. ASSUME link'[socket'] = "up", NEW k \in dLive' \ late' PROVE Shown(k)' \/ Has(rsp'[socket'], Ack, k)
      <4>1. k \in Key /\ k \in dLive \ late /\ (Shown(k) \/ Has(rsp[socket], Ack, k))
        BY <1>0, <2>1, <3>1, <3>3, <3>5
      <4>2. CASE k \in Got.ks
        <5>1. Revived(rsp[socket], dLive \ late)
          BY DEF OrderInv
        <5>2. Revived(rsp[socket], dLive \ late) /\ Got.t = "exit" =>
                \A j \in Got.ks \cap (dLive \ late) : Has(Tail(rsp[socket]), Ack, j)
          BY <2>1, OrderTail DEF Got
        <5>3. Has(Tail(rsp[socket]), Ack, k)
          BY <2>8, <4>1, <4>2, <5>1, <5>2
        <5>. QED BY <2>1, <5>3
      <4>3. CASE k \notin Got.ks
        <5>1. Shown(k) => Shown(k)'
          BY <1>0, <3>1, <4>1, <4>3 DEF Shown
        <5>. QED BY <2>3, <3>2, <4>1, <5>1
      <4>. QED BY <4>2, <4>3
    <3>. QED BY <3>4, <3>5 DEF MirrorInv
  <2>9. ASSUME connected, Got.t = "list-reply", pendingLists # <<>> PROVE MirrorInv'
    <3>1. pendingLists[1] \in Actor /\ 1 \in DOMAIN pendingLists
      BY <2>9, Taken DEF SeqInv
    <3>2. step[pendingLists[1]] \in Rearm
      BY <3>1 DEF AwaitInv, Rearm
    <3>. QED BY <2>9, <3>1, <3>2, Unarmed
  <2>. QED BY <2>1, <2>4, <2>5, <2>6, <2>7, <2>8, <2>9
<1>10. ASSUME UNCHANGED vars PROVE MirrorInv'
  <2>1. UNCHANGED <<dLive, link, rsp, socket, connected, overtaken, late, mirror, step>>
    BY <1>10 DEF vars, daemonVars, wireVars, actorVars, histVars
  <2>2. \A k \in Key : /\ Told(k) => Told(k)'
                       /\ Has(rsp[socket], Ack, k) => Has(rsp'[socket'], Ack, k)
                       /\ Shown(k)' <=> Shown(k)
    BY <2>1 DEF Told, Ending, Shown
  <2>. QED BY <1>0, <2>1, <2>2, MirrorQuiet
<1>. QED BY <1>1, <1>2, <1>3, <1>4, <1>5, <1>6, <1>7, <1>8, <1>9, <1>10 DEF Next, Continues
-----------------------------------------------------------------------------
(* The invariant, and what follows from it.                                  *)

\* The server starts in it.
LEMMA InitIInv == Init => IInv
<1>. SUFFICES ASSUME Init PROVE IInv
  OBVIOUS
<1>1. 1 \in Conn /\ {MaxAttempts, MaxConn} \subseteq Nat \ {0} /\ MaxEnsures \in Nat
  BY ManagerAssumption DEF Conn
<1>2. Frame("list", {}) \in FrameType /\ Frame("list", {}).t = "list"
  BY FrameTypes
<1>3. /\ socket = 1 /\ dLive \subseteq Key /\ dNeg = {1} /\ connected = FALSE
      /\ \A c \in Conn : link[c] = IF c = 1 THEN "up" ELSE "none"
      /\ \A c \in Conn : rsp[c] = <<>> /\ req[c] = IF c = 1 THEN <<Frame("list", {})>> ELSE <<>>
      /\ \A a \in Actor : step[a] = IF a = "boot" THEN "list" ELSE "off"
  BY DEF Init
<1>4. SeqInv
  <2>1. <<Frame("list", {})>> \in Seq(FrameType) /\ <<>> \in Seq(FrameType) /\ <<"boot">> \in Seq(Actor)
    BY <1>2, Actors
  <2>. QED BY <2>1 DEF Init, SeqInv
<1>5. PlainOK
  <2>1. {"up", "none"} \subseteq Link /\ {"list", "off"} \subseteq Step
    BY DEF Link, Step
  <2>2. connected \in BOOLEAN /\ dUp \in BOOLEAN
    BY DEF Init
  <2>. QED BY <1>1, <2>1, <2>2 DEF Init, PlainOK
<1>6. AwaitInv
  <2>1. pendingLists = <<"boot">> /\ pendingOpens = {} /\ "loop" # "boot"
    BY Actors DEF Init
  <2>2. DOMAIN pendingLists = {1} /\ pendingLists[1] = "boot"
    BY <2>1
  <2>. QED BY <1>3, <2>1, <2>2, Actors DEF AwaitInv
<1>7. AloneInv
  <2>1. \A a \in Actor : Rearming(a) <=> a = "boot"
    BY <1>3 DEF Rearming, Rearm
  <2>. QED BY <1>1, <1>3, <2>1, Actors DEF AloneInv
<1>8. GreetInv
  BY <1>1, <1>3 DEF GreetInv
<1>9. OpenInv
  <2>1. \A k : ~Has(<<>>, Answer, k)
    BY HasNone
  <2>2. \A k : ~Has(<<Frame("list", {})>>, Ask, k)
    BY <1>2 DEF Has, Is, Ask
  <2>. QED BY <1>1, <1>3, <2>1, <2>2 DEF OpenInv
<1>10. OrderInv
  BY <1>1, <1>3 DEF OrderInv, Ordered, Revived, Complete
<1>11. ResyncInv /\ MirrorInv
  BY <1>3 DEF ResyncInv, MirrorInv
<1>. QED BY <1>4, <1>5, <1>6, <1>7, <1>8, <1>9, <1>10, <1>11, FullType DEF IInv, CalmInv

\* And every step keeps it.
LEMMA StepIInv == IInv /\ [Next]_vars => IInv'
<1>. SUFFICES ASSUME IInv, [Next]_vars PROVE IInv'
  OBVIOUS
<1>1. TypeOK /\ SeqInv /\ AwaitInv
  BY DEF IInv
<1>2. TypeOK' /\ SeqInv'
  BY <1>1, StepType
<1>3. AwaitInv'
  BY <1>1, StepAwait
<1>4. ASSUME Undisturbed' PROVE CalmInv'
  <2>1. Undisturbed
    BY <1>4, CalmBefore
  <2>2. AloneInv /\ GreetInv /\ OpenInv /\ OrderInv /\ ResyncInv /\ MirrorInv
    BY <2>1 DEF IInv, CalmInv
  <2>3. AloneInv'
    BY <1>1, <1>2, <1>4, <2>2, StepAlone
  <2>4. GreetInv' /\ OpenInv'
    BY <1>1, <2>2, StepGreet, StepOpen
  <2>5. OrderInv' /\ ResyncInv' /\ MirrorInv'
    BY <1>1, <2>2, StepOrder, StepResync, StepMirror
  <2>. QED BY <2>3, <2>4, <2>5 DEF CalmInv
<1>. QED BY <1>2, <1>3, <1>4 DEF IInv

\* The inductive invariant holds of every execution.
THEOREM ManagerAlways == Spec => []IInv
BY InitIInv, StepIInv, PTL DEF Spec

\* Whatever connects, drops, is retried or given up, every variable keeps its
\* type.
THEOREM ManagerTypeCorrect == Spec => []TypeOK
<1>1. IInv => TypeOK
  BY DEF IInv
<1>. QED BY <1>1, ManagerAlways, PTL

\* Once the client is attached and nothing disturbed it, a session shown as
\* running is live or its exit is on the way, unless its exit was handled before
\* the continuation of what it overtook.
THEOREM ManagerRunningIsLive == Spec => []RunningIsLive
<1>1. IInv => RunningIsLive
  <2>. SUFFICES ASSUME IInv, Attached, Undisturbed, NEW k \in Key \ overtaken, mirror[k] = "running"
                PROVE  k \in dLive \/ ExitDue(k)
    BY DEF RunningIsLive
  <2>1. MirrorInv /\ connected /\ link[socket] = "up"
    BY DEF IInv, CalmInv, Attached
  <2>2. Told(k)
    BY <2>1 DEF MirrorInv, Shown
  <2>. QED BY <2>2 DEF Told, Ending, ExitDue
<1>. QED BY <1>1, ManagerAlways, PTL

\* Once the client is attached and nothing disturbed it, every live session is
\* shown as running or is being opened, unless its open timed out.
THEOREM ManagerNoOrphan == Spec => []NoOrphan
<1>1. IInv => NoOrphan
  <2>. SUFFICES ASSUME IInv, Attached, Undisturbed, NEW k \in dLive \ late
                PROVE  mirror[k] = "running" \/ step[k] \in {"opening", "opened"}
    BY DEF NoOrphan
  <2>1. MirrorInv /\ OpenInv /\ connected /\ link[socket] = "up" /\ k \in Key
    BY DEF IInv, CalmInv, Attached, TypeOK
  <2>2. Shown(k) \/ Has(rsp[socket], Ack, k)
    BY <2>1 DEF MirrorInv
  <2>3. Has(rsp[socket], Ack, k) => step[k] = "opening"
    <3>1. Has(rsp[socket], Ack, k) => Has(rsp[socket], Answer, k)
      BY DEF Has, Is, Ack, Answer
    <3>. QED BY <2>1, <3>1 DEF OpenInv
  <2>. QED BY <2>2, <2>3 DEF Shown
<1>. QED BY <1>1, ManagerAlways, PTL

\* No drop, resync or late frame declares a live session exited: only the
\* reconnect loop does, when it gives up.
THEOREM ManagerNoFalseExit == Spec => NoFalseExit
<1>. DEFINE A == \A k \in Key : mirror[k] = "running" /\ mirror'[k] = "exited" /\ Undisturbed =>
                   k \notin dLive \/ step[k] = "opening" \/ k \in late
                     \/ (step["loop"] = "backoff" /\ step'["loop"] = "off")
<1>1. IInv /\ [Next]_vars => A
  <2>. SUFFICES ASSUME IInv, [Next]_vars, Undisturbed,
                       NEW k \in Key, mirror[k] = "running", mirror'[k] = "exited",
                       k \in dLive, k \notin late
                PROVE  step[k] = "opening" \/ (step["loop"] = "backoff" /\ step'["loop"] = "off")
    OBVIOUS
  <2>0. /\ TypeOK /\ SeqInv /\ AloneInv /\ OpenInv /\ OrderInv /\ ResyncInv
        /\ mirror \in [Key -> {"none", "running", "exited"}] /\ step \in [Actor -> Step]
        /\ "loop" \in Actor
    BY Actors DEF IInv, CalmInv, TypeOK
  <2>1. ASSUME NEW c \in Conn, Serve(c) \/ WireDrops(c) \/ Connects(c) \/ Gone(c) PROVE FALSE
    BY <2>1 DEF Serve, WireDrops, Connects, Gone, OnDrop
  <2>2. ASSUME NEW j \in Key, \/ SessionEnds(j) \/ Ensure(j) \/ OpenTimesOut(j) \/ Joined(j)
                              \/ Rearmed(j) \/ Opened(j)
        PROVE  FALSE
    BY <2>0, <2>2 DEF SessionEnds, Ensure, OpenTimesOut, Joined, Rearmed, Opened
  <2>3. ASSUME \/ \E a \in Actor : Dial(a) \/ DialFails(a) \/ Greeted(a)
               \/ DaemonDies \/ UNCHANGED vars
        PROVE  FALSE
    BY <2>3 DEF Dial, DialFails, Greeted, DaemonDies, vars
  <2>4. ASSUME NEW a \in Actor, Adopt(a) PROVE FALSE
    <3>1. PICK b \in SUBSET todo[a] :
            \/ mirror' = [j \in Key |-> IF j \in b THEN "running" ELSE mirror[j]]
            \/ mirror' = [j \in Key |-> IF j \in b THEN "running"
                                        ELSE IF j \in Vanished(a) THEN "exited" ELSE mirror[j]]
      BY <2>4 DEF Adopt
    <3>2. k \in Vanished(a)
      BY <3>1
    <3>3. dLive \subseteq ids[a]
      BY <2>0, <2>4 DEF Adopt, ResyncInv, Resynced
    <3>. QED BY <3>2, <3>3 DEF Vanished
  <2>5. ASSUME Receive PROVE step[k] = "opening"
    <3>1. Got \in FrameType /\ rsp[socket] # <<>> /\ rsp[socket] \in Seq(FrameType)
      BY <2>0, <2>5, ReceivedKinds
    <3>2. Got.t = "exit" /\ k \in Got.ks
      BY <2>5 DEF Receive, Got
    <3>3. Revived(rsp[socket], dLive \ late)
      BY <2>0 DEF OrderInv
    <3>4. Revived(rsp[socket], dLive \ late) /\ Got.t = "exit" =>
            \A j \in Got.ks \cap (dLive \ late) : Has(Tail(rsp[socket]), Ack, j)
      BY <3>1, OrderTail DEF Got
    <3>5. Has(Tail(rsp[socket]), Ack, k)
      BY <3>2, <3>3, <3>4
    <3>6. Has(rsp[socket], Ack, k)
      BY <3>1, <3>5, HasTail
    <3>7. Has(rsp[socket], Answer, k)
      BY <3>6 DEF Has, Is, Ack, Answer
    <3>. QED BY <2>0, <3>7 DEF OpenInv
  <2>6. ASSUME Retry PROVE step["loop"] = "backoff" /\ step'["loop"] = "off"
    BY <2>0, <2>6 DEF Retry
  <2>. QED BY <2>1, <2>2, <2>3, <2>4, <2>5, <2>6 DEF Next, Continues
<1>2. [][A]_vars => NoFalseExit
  BY PTL DEF NoFalseExit
<1>. HIDE DEF A
<1>. QED BY <1>1, <1>2, ManagerAlways, PTL DEF Spec
=============================================================================

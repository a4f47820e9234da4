----------------------------- MODULE PtydProofs -----------------------------
(***************************************************************************)
(* Flow control of the PTY daemon, for any number of sessions and          *)
(* connections and any marks: the inductive invariant behind               *)
(* PausedIffHeld and WaitersAreOwedDrain.                                  *)
(***************************************************************************)
EXTENDS Ptyd, FiniteSetTheorems, TLAPS

(* A connection that has not said hello can neither subscribe, nor hold a   *)
(* pty, nor queue a replay; a session in the store was opened.              *)
OnlyNegotiated ==
  \A c \in Conn : c \notin negotiated =>
    subscriptions[c] = {} /\ pausedSessions[c] = {} /\ pendingReplays[c] = <<>>

LiveWasOpened == \A i \in live : inc[i] > 0

(* A socket whose backlog reached the high-water mark is owed a drain until  *)
(* it empties; above the pause mark, a fortiori.                            *)
BacklogIsOwed ==
  \A c \in Conn : writableLength[c] >= Hwm => c \in needDrain

IInv ==
  /\ TypeOK
  /\ OnlyNegotiated
  /\ LiveWasOpened
  /\ BacklogIsOwed
  /\ PausedIffHeld
  /\ WaitersAreOwedDrain

-----------------------------------------------------------------------------
\* The ring of a session is a set of units it printed.
LEMMA RingType ==
  ASSUME NEW n \in 0..MaxOut
  PROVE  /\ RingStart(n) \in 1..(MaxOut + 1)
         /\ Ring(n) \in SUBSET Unit
         /\ Cardinality(Ring(n)) \in Nat
<1>1. RingStart(n) \in Nat \ {0} /\ RingStart(n) <= MaxOut + 1
  BY PtydAssumption DEF RingStart
<1>2. Ring(n) \in SUBSET Unit
  BY <1>1, PtydAssumption DEF Ring, Unit
<1>3. IsFiniteSet(Ring(n))
  BY <1>1, FS_Interval DEF Ring
<1>. QED BY <1>1, <1>2, <1>3, FS_CardinalityType

\* What a flush sends is a number of units.
LEMMA FlushedType ==
  ASSUME NEW c \in Conn, NEW n \in Nat
  PROVE  Flushed(c, n) \in Nat
<1>. DEFINE S == {p \in (1..n) \X Unit :
                    LET r == pendingReplays[c][p[1]]
                    IN  r.id \in subscriptions[c] /\ p[2] \in r.units}
<1>1. IsFiniteSet(1..n) /\ IsFiniteSet(Unit)
  BY FS_Interval, PtydAssumption DEF Unit
<1>2. IsFiniteSet((1..n) \X Unit)
  BY <1>1, FS_Product
<1>3. S \in SUBSET ((1..n) \X Unit)
  OBVIOUS
<1>4. IsFiniteSet(S)
  BY <1>2, <1>3, FS_Subset
<1>5. Cardinality(S) \in Nat
  BY <1>4, FS_CardinalityType
<1>. QED BY <1>5 DEF Flushed

-----------------------------------------------------------------------------
LEMMA InitIInv == Init => IInv
BY PtydAssumption DEF Init, IInv, TypeOK, OnlyNegotiated, LiveWasOpened,
   PausedIffHeld, BacklogIsOwed,
   WaitersAreOwedDrain, Unit, Replay

LEMMA StepIInv == IInv /\ [Next]_vars => IInv'
<1>. SUFFICES ASSUME IInv, [Next]_vars PROVE IInv'
  OBVIOUS
<1>. USE PtydAssumption DEF IInv
<1>1. ASSUME NEW c \in Conn, Accept(c) PROVE IInv'
  BY <1>1 DEF Accept, sessionVars, historyVars, TypeOK, OnlyNegotiated,
     LiveWasOpened, PausedIffHeld, BacklogIsOwed, WaitersAreOwedDrain
<1>2. ASSUME NEW c \in Conn, Hello(c) PROVE IInv'
  BY <1>2 DEF Hello, sessionVars, historyVars, TypeOK, OnlyNegotiated,
     LiveWasOpened, PausedIffHeld, BacklogIsOwed, WaitersAreOwedDrain
<1>3. ASSUME NEW c \in Conn, Drop(c) PROVE IInv'
  <2>. USE <1>3 DEF Drop
  <2>1. TypeOK'
    BY DEF TypeOK
  <2>2. OnlyNegotiated' /\ LiveWasOpened' /\ BacklogIsOwed' /\ WaitersAreOwedDrain'
    BY DEF OnlyNegotiated, LiveWasOpened, BacklogIsOwed, WaitersAreOwedDrain, TypeOK
  <2>3. PausedIffHeld'
    BY DEF PausedIffHeld, Released, TypeOK
  <2>. QED BY <2>1, <2>2, <2>3
<1>4. ASSUME NEW c \in Conn, NEW i \in Id, Open(c, i) PROVE IInv'
  <2>. USE <1>4 DEF Open, connVars, historyVars
  <2>1. TypeOK'
    BY DEF TypeOK
  <2>2. LiveWasOpened'
    BY DEF LiveWasOpened, TypeOK
  <2>3. OnlyNegotiated' /\ PausedIffHeld' /\ BacklogIsOwed' /\ WaitersAreOwedDrain'
    BY DEF OnlyNegotiated, PausedIffHeld, BacklogIsOwed, WaitersAreOwedDrain
  <2>. QED BY <2>1, <2>2, <2>3
<1>5. ASSUME NEW c \in Conn, NEW i \in Id, SubscribeReplay(c, i) PROVE IInv'
  <2>. USE <1>5 DEF SubscribeReplay, sessionVars
  <2>0. /\ out[i] \in 0..MaxOut /\ inc[i] \in 1..MaxInc
        /\ c \in conns /\ c \in negotiated
    BY DEF TypeOK, LiveWasOpened
  <2>. DEFINE ring == Ring(out[i])
              entry == [id |-> i, inc |-> inc[i], units |-> ring]
  <2>1. /\ RingStart(out[i]) \in 0..(MaxOut + 1)
        /\ ring \in SUBSET Unit /\ Cardinality(ring) \in Nat
    BY <2>0, RingType
  <2>2. entry \in Replay
    BY <2>0, <2>1 DEF Replay
  <2>3. /\ subscriptions' \in [Conn -> SUBSET Id]
        /\ promised' \in [Conn -> [Id -> 0..(MaxOut + 1)]]
    BY <2>1 DEF TypeOK
  <2>4. CASE out[i] > 0 /\ CanSendReplay(c)
    <3>1. /\ writableLength' = [writableLength EXCEPT ![c] = @ + Cardinality(ring)]
          /\ needDrain' = Owed(c, Cardinality(ring))
          /\ written' = [written EXCEPT ![c][i] = @ \cup ring]
          /\ UNCHANGED pendingReplays
      BY <2>4 DEF SendReplay
    <3>a. written' \in [Conn -> [Id -> SUBSET Unit]]
      BY <2>1, <3>1 DEF TypeOK
    <3>b. writableLength' \in [Conn -> Nat] /\ needDrain' \in SUBSET conns
      BY <2>0, <2>1, <3>1 DEF TypeOK, Owed
    <3>2. TypeOK'
      BY <2>3, <3>1, <3>a, <3>b DEF TypeOK
    <3>3. OnlyNegotiated' /\ LiveWasOpened' /\ PausedIffHeld'
      BY <2>0, <3>1 DEF OnlyNegotiated, LiveWasOpened, PausedIffHeld, TypeOK
    <3>4. BacklogIsOwed' /\ WaitersAreOwedDrain'
      BY <2>0, <2>1, <3>1 DEF BacklogIsOwed, WaitersAreOwedDrain, Owed, TypeOK
    <3>. QED BY <3>2, <3>3, <3>4
  <2>5. CASE out[i] > 0 /\ ~CanSendReplay(c)
    <3>1. /\ pendingReplays' = [pendingReplays EXCEPT ![c] = Append(@, entry)]
          /\ UNCHANGED <<writableLength, needDrain, written>>
      BY <2>5 DEF SendReplay
    <3>a. Append(pendingReplays[c], entry) \in Seq(Replay)
      BY <2>2 DEF TypeOK
    <3>b. pendingReplays' \in [Conn -> Seq(Replay)]
      BY <3>1, <3>a DEF TypeOK
    <3>2. TypeOK'
      BY <2>3, <3>1, <3>b DEF TypeOK
    <3>3. OnlyNegotiated' /\ LiveWasOpened' /\ PausedIffHeld'
      BY <2>0, <3>1 DEF OnlyNegotiated, LiveWasOpened, PausedIffHeld, TypeOK
    <3>c. c \in needDrain /\ writableLength[c] > 0
      BY <2>0, <2>5 DEF BacklogIsOwed, WaitersAreOwedDrain, CanSendReplay, TypeOK
    <3>4. BacklogIsOwed' /\ WaitersAreOwedDrain'
      BY <2>0, <3>1, <3>c DEF BacklogIsOwed, WaitersAreOwedDrain, TypeOK
    <3>. QED BY <3>2, <3>3, <3>4
  <2>6. CASE ~(out[i] > 0)
    BY <2>0, <2>3, <2>6 DEF TypeOK, OnlyNegotiated, LiveWasOpened, PausedIffHeld,
       BacklogIsOwed, WaitersAreOwedDrain
  <2>. QED BY <2>4, <2>5, <2>6
<1>6. ASSUME NEW c \in Conn, NEW i \in Id, SubscribeLive(c, i) PROVE IInv'
  <2>. USE <1>6 DEF SubscribeLive, sessionVars
  <2>1. TypeOK'
    BY DEF TypeOK
  <2>2. OnlyNegotiated' /\ LiveWasOpened' /\ PausedIffHeld' /\ BacklogIsOwed' /\ WaitersAreOwedDrain'
    BY DEF OnlyNegotiated, LiveWasOpened, PausedIffHeld, BacklogIsOwed, WaitersAreOwedDrain,
       TypeOK
  <2>. QED BY <2>1, <2>2
<1>7. ASSUME NEW c \in Conn, NEW i \in Id, Unsubscribe(c, i) PROVE IInv'
  <2>. USE <1>7 DEF Unsubscribe, sessionVars
  <2>1. TypeOK'
    BY DEF TypeOK
  <2>2. OnlyNegotiated' /\ LiveWasOpened' /\ PausedIffHeld' /\ BacklogIsOwed' /\ WaitersAreOwedDrain'
    BY DEF OnlyNegotiated, LiveWasOpened, PausedIffHeld, BacklogIsOwed, WaitersAreOwedDrain,
       TypeOK
  <2>. QED BY <2>1, <2>2
<1>8. ASSUME NEW i \in Id, Output(i) PROVE IInv'
  <2>. USE <1>8 DEF Output
  <2>a. written' \in [Conn -> [Id -> SUBSET Unit]]
    <3>1. out[i] + 1 \in Unit
      BY DEF TypeOK, Unit
    <3>. QED BY <3>1 DEF TypeOK
  <2>b. writableLength' \in [Conn -> Nat] /\ needDrain' \in SUBSET conns
    BY DEF TypeOK, Subscribers
  <2>c. pausedSessions' \in [Conn -> SUBSET Id] /\ out' \in [Id -> 0..MaxOut]
    BY DEF TypeOK
  <2>1. TypeOK'
    BY <2>a, <2>b, <2>c DEF TypeOK
  <2>2. Subscribers(i) \subseteq negotiated /\ Congested(i) \subseteq Subscribers(i)
    BY DEF OnlyNegotiated, Subscribers, Congested, TypeOK
  <2>3. OnlyNegotiated' /\ LiveWasOpened'
    BY <2>2 DEF OnlyNegotiated, LiveWasOpened, TypeOK
  <2>4. PausedIffHeld'
    BY <2>2 DEF PausedIffHeld, Subscribers, TypeOK
  <2>5. BacklogIsOwed' /\ WaitersAreOwedDrain'
    BY <2>2 DEF BacklogIsOwed, WaitersAreOwedDrain, Congested, Subscribers, TypeOK
  <2>. QED BY <2>1, <2>3, <2>4, <2>5
<1>9. ASSUME NEW i \in Id, Exit(i) PROVE IInv'
  <2>. USE <1>9 DEF Exit
  <2>1. TypeOK'
    BY DEF TypeOK
  <2>2. OnlyNegotiated' /\ LiveWasOpened' /\ BacklogIsOwed' /\ WaitersAreOwedDrain'
    BY DEF OnlyNegotiated, LiveWasOpened, BacklogIsOwed, WaitersAreOwedDrain, TypeOK
  <2>3. PausedIffHeld'
    BY DEF PausedIffHeld, OnlyNegotiated, TypeOK
  <2>. QED BY <2>1, <2>2, <2>3
<1>10. ASSUME NEW c \in Conn, Transmit(c) PROVE IInv'
  <2>. USE <1>10 DEF Transmit, sessionVars, historyVars
  <2>1. TypeOK' /\ writableLength'[c] > 0
    BY DEF TypeOK
  <2>2. OnlyNegotiated' /\ LiveWasOpened' /\ PausedIffHeld' /\ BacklogIsOwed' /\ WaitersAreOwedDrain'
    BY <2>1 DEF OnlyNegotiated, LiveWasOpened, PausedIffHeld, BacklogIsOwed, WaitersAreOwedDrain,
       TypeOK
  <2>. QED BY <2>1, <2>2
<1>11. ASSUME NEW c \in Conn, Emptied(c) PROVE IInv'
  <2>. USE <1>11 DEF Emptied, sessionVars, historyVars
  <2>1. TypeOK'
    BY DEF TypeOK
  <2>2. OnlyNegotiated' /\ LiveWasOpened' /\ PausedIffHeld' /\ BacklogIsOwed' /\ WaitersAreOwedDrain'
    BY DEF OnlyNegotiated, LiveWasOpened, PausedIffHeld, BacklogIsOwed, WaitersAreOwedDrain,
       TypeOK
  <2>. QED BY <2>1, <2>2
<1>12. ASSUME NEW c \in Conn, Drain(c) PROVE IInv'
  <2>. USE <1>12
  <2>1. PICK n \in 0..Len(pendingReplays[c]) :
          /\ FlushEnds(c, n)
          /\ pendingReplays' = [pendingReplays EXCEPT ![c] = SubSeq(@, n + 1, Len(@))]
          /\ writableLength' = [writableLength EXCEPT ![c] = Flushed(c, n)]
          /\ needDrain' = IF Flushed(c, n) >= Hwm THEN needDrain ELSE needDrain \ {c}
          /\ written' = [written EXCEPT ![c] =
                           [i \in Id |-> @[i] \cup FlushedUnits(c, n, i)]]
    BY DEF Drain
  <2>2. /\ pendingReplays[c] \in Seq(Replay) /\ Len(pendingReplays[c]) \in Nat
        /\ n \in Nat /\ Flushed(c, n) \in Nat
    BY FlushedType DEF TypeOK
  <2>3. \A i \in Id : FlushedUnits(c, n, i) \in SUBSET Unit
    <3>1. \A r \in Replay : r.units \in SUBSET Unit
      BY DEF Replay
    <3>2. \A k \in 1..n : pendingReplays[c][k] \in Replay
      BY <2>2
    <3>3. \A k \in 1..n : pendingReplays[c][k].units \in SUBSET Unit
      BY <3>1, <3>2
    <3>. QED BY <3>3 DEF FlushedUnits
  <2>4. SubSeq(pendingReplays[c], n + 1, Len(pendingReplays[c])) \in Seq(Replay)
    BY <2>2
  <2>5. written' \in [Conn -> [Id -> SUBSET Unit]]
    BY <2>1, <2>3 DEF TypeOK
  <2>6. TypeOK'
    BY <2>1, <2>2, <2>4, <2>5 DEF Drain, TypeOK
  <2>7. OnlyNegotiated'
    BY <2>1, <2>2 DEF OnlyNegotiated, Drain, TypeOK
  <2>8. LiveWasOpened' /\ PausedIffHeld'
    BY DEF LiveWasOpened, PausedIffHeld, Released, Drain, TypeOK
  <2>9. pendingReplays'[c] # <<>> => Flushed(c, n) > Mark
    BY <2>1, <2>2 DEF FlushEnds, TypeOK
  <2>10. BacklogIsOwed' /\ WaitersAreOwedDrain'
    BY <2>1, <2>2, <2>9 DEF BacklogIsOwed, WaitersAreOwedDrain, Drain, TypeOK
  <2>. QED BY <2>6, <2>7, <2>8, <2>10
<1>13. CASE UNCHANGED vars
  BY <1>13 DEF vars, sessionVars, connVars, historyVars, TypeOK, OnlyNegotiated,
     LiveWasOpened, PausedIffHeld, BacklogIsOwed, WaitersAreOwedDrain
<1>. QED
  BY <1>1, <1>2, <1>3, <1>4, <1>5, <1>6, <1>7, <1>8, <1>9, <1>10, <1>11, <1>12,
     <1>13 DEF Next

LEMMA Invariance == Spec => []IInv
BY InitIInv, StepIInv, PTL DEF Spec

(* The state of the daemon stays well typed.                                *)
THEOREM TypeCorrect == Spec => []TypeOK
BY Invariance, PTL DEF IInv

(* A terminal is paused exactly while a live connection holds it.           *)
THEOREM FlowControl == Spec => []PausedIffHeld
BY Invariance, PTL DEF IInv

(* Whoever waits for 'drain' is owed one: no lost wake-up.                  *)
THEOREM NoLostDrain == Spec => []WaitersAreOwedDrain
BY Invariance, PTL DEF IInv
-----------------------------------------------------------------------------
(* No hole in what a subscriber is sent.                                    *)

(* Only a session in the store has subscribers, and each was promised a     *)
(* first unit that exists.                                                  *)
SubscribedIsLive ==
  \A c \in Conn : \A i \in subscriptions[c] : i \in live /\ promised[c][i] > 0

HoleInv == SubscribedIsLive /\ NoHole

\* An operator for the invariant at one connection and session.
Covered(c, i) ==
  promised[c][i]..out[i] \subseteq written[c][i] \cup QueuedUnits(c, i)

LEMMA InitHoleInv == Init => HoleInv
BY DEF Init, HoleInv, SubscribedIsLive, NoHole

\* What is subscribed stays covered when nothing about it changes.
LEMMA StillCovered ==
  ASSUME TypeOK, NEW c \in Conn, NEW i \in Id, Covered(c, i),
         inc'[i] = inc[i], out'[i] = out[i], promised'[c][i] = promised[c][i],
         written'[c][i] = written[c][i], pendingReplays'[c] = pendingReplays[c]
  PROVE  Covered(c, i)'
BY DEF Covered, QueuedUnits

\* A replay appended to the queue adds its units and loses none.
LEMMA QueueGrows ==
  ASSUME TypeOK, NEW c \in Conn, NEW i \in Id, NEW r \in Replay, inc' = inc,
         pendingReplays' = [pendingReplays EXCEPT ![c] = Append(@, r)]
  PROVE  /\ QueuedUnits(c, i) \subseteq QueuedUnits(c, i)'
         /\ r.id = i /\ r.inc = inc[i] => r.units \subseteq QueuedUnits(c, i)'
<1>. DEFINE q == pendingReplays[c]
<1>1. q \in Seq(Replay) /\ pendingReplays'[c] = Append(q, r)
  BY DEF TypeOK
<1>2. /\ DOMAIN q \subseteq DOMAIN Append(q, r)
      /\ \A k \in DOMAIN q : Append(q, r)[k] = q[k]
      /\ Len(q) + 1 \in DOMAIN Append(q, r)
      /\ Append(q, r)[Len(q) + 1] = r
  BY <1>1
<1>. QED BY <1>1, <1>2 DEF QueuedUnits

\* A flush writes, or leaves queued, every unit a subscribed session had queued.
LEMMA FlushKeeps ==
  ASSUME TypeOK, NEW c \in Conn, NEW i \in subscriptions[c], inc' = inc,
         NEW n \in 0..Len(pendingReplays[c]),
         pendingReplays' = [pendingReplays EXCEPT ![c] = SubSeq(@, n + 1, Len(@))]
  PROVE  QueuedUnits(c, i) \subseteq FlushedUnits(c, n, i) \cup QueuedUnits(c, i)'
<1>. DEFINE q == pendingReplays[c]
            t == SubSeq(q, n + 1, Len(q))
<1>1. q \in Seq(Replay) /\ pendingReplays'[c] = t
  BY DEF TypeOK
<1>2. \A k \in DOMAIN q : k > n => k - n \in DOMAIN t /\ t[k - n] = q[k]
  BY <1>1
<1>3. ASSUME NEW k \in DOMAIN q, q[k].id = i, q[k].inc = inc[i]
      PROVE  q[k].units \subseteq FlushedUnits(c, n, i) \cup QueuedUnits(c, i)'
  <2>1. CASE k > n
    BY <1>1, <1>2, <1>3, <2>1 DEF QueuedUnits
  <2>2. CASE ~(k > n)
    <3>1. k \in 1..n
      BY <1>1, <2>2
    <3>. QED BY <1>3, <3>1 DEF FlushedUnits
  <2>. QED BY <2>1, <2>2
<1>. QED BY <1>3 DEF QueuedUnits

LEMMA StepHoleInv == IInv /\ HoleInv /\ [Next]_vars => HoleInv'
<1>. SUFFICES ASSUME IInv, HoleInv, [Next]_vars PROVE HoleInv'
  OBVIOUS
<1>. USE PtydAssumption
<1>0. /\ TypeOK /\ OnlyNegotiated /\ SubscribedIsLive
      /\ \A c \in conns : \A i \in subscriptions[c] : i \in Id /\ Covered(c, i)
  BY DEF IInv, HoleInv, NoHole, Covered, TypeOK
<1>a. SUFFICES ASSUME NEW c \in Conn, NEW i \in subscriptions'[c]
               PROVE  /\ i \in live' /\ promised'[c][i] > 0
                      /\ c \in conns' => Covered(c, i)'
  <2>1. conns' \subseteq Conn
    BY <1>0, StepIInv DEF IInv, TypeOK
  <2>. QED BY <1>a, <2>1 DEF HoleInv, SubscribedIsLive, NoHole, Covered
<1>1. ASSUME NEW d \in Conn, Accept(d) \/ Hello(d) \/ Transmit(d) \/ Emptied(d)
      PROVE  /\ i \in live' /\ promised'[c][i] > 0
             /\ c \in conns' => Covered(c, i)'
  <2>1. /\ inc' = inc /\ out' = out /\ promised' = promised /\ live' = live
        /\ written' = written /\ pendingReplays' = pendingReplays
        /\ subscriptions' = subscriptions
    BY <1>1 DEF Accept, Hello, Transmit, Emptied, sessionVars, historyVars
  <2>2. c \in conns /\ i \in Id
    BY <1>0, <1>1, <2>1 DEF OnlyNegotiated, TypeOK
  <2>. QED BY <1>0, <2>1, <2>2, StillCovered DEF SubscribedIsLive
<1>2. ASSUME NEW d \in Conn, Drop(d)
      PROVE  /\ i \in live' /\ promised'[c][i] > 0
             /\ c \in conns' => Covered(c, i)'
  <2>1. c # d /\ i \in subscriptions[c] /\ i \in Id
    BY <1>0, <1>2 DEF Drop, TypeOK
  <2>2. /\ inc' = inc /\ out' = out /\ promised'[c] = promised[c] /\ live' = live
        /\ written'[c] = written[c] /\ pendingReplays'[c] = pendingReplays[c]
        /\ conns' \subseteq conns
    BY <1>0, <1>2, <2>1 DEF Drop, TypeOK
  <2>. QED BY <1>0, <2>1, <2>2, StillCovered DEF SubscribedIsLive
<1>3. ASSUME NEW d \in Conn, NEW j \in Id, Open(d, j)
      PROVE  /\ i \in live' /\ promised'[c][i] > 0
             /\ c \in conns' => Covered(c, i)'
  <2>1. /\ i \in subscriptions[c] /\ i \in Id /\ i # j /\ live \subseteq live'
        /\ promised' = promised /\ written' = written /\ conns' = conns
        /\ pendingReplays' = pendingReplays
    BY <1>0, <1>3 DEF Open, connVars, historyVars, SubscribedIsLive, TypeOK
  <2>2. inc'[i] = inc[i] /\ out'[i] = out[i]
    BY <1>0, <1>3, <2>1 DEF Open, TypeOK
  <2>. QED BY <1>0, <2>1, <2>2, StillCovered DEF SubscribedIsLive
<1>4. ASSUME NEW d \in Conn, NEW j \in Id, SubscribeReplay(d, j)
      PROVE  /\ i \in live' /\ promised'[c][i] > 0
             /\ c \in conns' => Covered(c, i)'
  <2>1. /\ inc' = inc /\ out' = out /\ live' = live /\ conns' = conns
        /\ out[j] \in 0..MaxOut /\ inc[j] \in 1..MaxInc /\ d \in conns /\ j \in live
    BY <1>0, <1>4 DEF SubscribeReplay, sessionVars, IInv, LiveWasOpened, TypeOK
  <2>2. CASE c = d /\ i = j
    <3>1. /\ promised'[c][i] > 0
          /\ \/ promised'[c][i] = RingStart(out[i])
             \/ i \in subscriptions[c] /\ promised'[c][i] = promised[c][i]
      <4>1. RingStart(out[i]) \in Nat /\ RingStart(out[i]) > 0
        BY <2>1, <2>2, RingType
      <4>2. CASE promised' = promised /\ i \in subscriptions[c]
        BY <1>0, <4>2 DEF SubscribedIsLive
      <4>3. CASE promised' = [promised EXCEPT ![c][i] = RingStart(out[i])]
        <5>1. promised'[c][i] = RingStart(out[i])
          BY <1>0, <2>2, <4>3 DEF TypeOK
        <5>. QED BY <4>1, <5>1
      <4>4. \/ promised' = promised /\ i \in subscriptions[c]
            \/ promised' = [promised EXCEPT ![c][i] = RingStart(out[i])]
        <5>1. SubscribeReplay(c, i)
          BY <1>4, <2>2
        <5>2. promised' = IF i \in subscriptions[c] /\ promised[c][i] < RingStart(out[i])
                          THEN promised
                          ELSE [promised EXCEPT ![c][i] = RingStart(out[i])]
          BY <5>1 DEF SubscribeReplay
        <5>. QED BY <5>2
      <4>. QED BY <4>2, <4>3, <4>4
    <3>2. QueuedUnits(c, i) \cup written[c][i]
            \subseteq QueuedUnits(c, i)' \cup written'[c][i]
          /\ Ring(out[i]) \subseteq QueuedUnits(c, i)' \cup written'[c][i]
      <4>1. CASE out[j] > 0 /\ CanSendReplay(d)
        <5>1. /\ pendingReplays' = pendingReplays
              /\ written' = [written EXCEPT ![c][i] = @ \cup Ring(out[i])]
          BY <1>4, <2>2, <4>1 DEF SubscribeReplay, SendReplay
        <5>2. QueuedUnits(c, i)' = QueuedUnits(c, i)
          BY <2>1, <5>1 DEF QueuedUnits
        <5>3. written'[c][i] = written[c][i] \cup Ring(out[i])
          BY <1>0, <2>2, <5>1 DEF TypeOK
        <5>. QED BY <5>2, <5>3
      <4>2. CASE out[j] > 0 /\ ~CanSendReplay(d)
        <5>. DEFINE r == [id |-> i, inc |-> inc[i], units |-> Ring(out[i])]
        <5>1. r \in Replay
          BY <2>1, <2>2, RingType DEF Replay
        <5>2. /\ pendingReplays' = [pendingReplays EXCEPT ![c] = Append(@, r)]
              /\ written' = written
          BY <1>4, <2>2, <4>2 DEF SubscribeReplay, SendReplay
        <5>. QED BY <1>0, <2>1, <2>2, <5>1, <5>2, QueueGrows
      <4>3. CASE ~(out[j] > 0)
        <5>1. pendingReplays' = pendingReplays /\ written' = written
          BY <1>4, <4>3 DEF SubscribeReplay
        <5>2. Ring(out[i]) = {}
          BY <2>1, <2>2, <4>3 DEF Ring, RingStart
        <5>. QED BY <2>1, <5>1, <5>2 DEF QueuedUnits
      <4>. QED BY <4>1, <4>2, <4>3
    <3>3. CASE promised'[c][i] = RingStart(out[i])
      BY <1>0, <2>1, <2>2, <3>1, <3>2, <3>3 DEF Covered, Ring
    <3>4. CASE i \in subscriptions[c] /\ promised'[c][i] = promised[c][i]
      BY <1>0, <2>1, <2>2, <3>1, <3>2, <3>4 DEF Covered
    <3>. QED BY <3>1, <3>3, <3>4
  <2>3. CASE c = d /\ i # j
    <3>1. i \in subscriptions[c] /\ i \in Id
      BY <1>0, <1>4, <2>3 DEF SubscribeReplay, TypeOK
    <3>2. promised'[c][i] = promised[c][i] /\ written'[c][i] = written[c][i]
      BY <1>0, <1>4, <2>3, <3>1 DEF SubscribeReplay, SendReplay, TypeOK
    <3>3. QueuedUnits(c, i) \subseteq QueuedUnits(c, i)'
      <4>. DEFINE r == [id |-> j, inc |-> inc[j], units |-> Ring(out[j])]
      <4>1. r \in Replay
        BY <2>1, RingType DEF Replay
      <4>2. CASE pendingReplays' = pendingReplays
        BY <2>1, <4>2 DEF QueuedUnits
      <4>3. CASE pendingReplays' = [pendingReplays EXCEPT ![c] = Append(@, r)]
        BY <1>0, <2>1, <3>1, <4>1, <4>3, QueueGrows
      <4>. QED BY <1>4, <2>3, <4>2, <4>3 DEF SubscribeReplay, SendReplay
    <3>. QED BY <1>0, <2>1, <2>3, <3>1, <3>2, <3>3 DEF Covered, SubscribedIsLive
  <2>4. CASE c # d
    <3>1. i \in subscriptions[c] /\ i \in Id
      BY <1>0, <1>4, <2>4 DEF SubscribeReplay, TypeOK
    <3>2. /\ promised'[c] = promised[c] /\ written'[c] = written[c]
          /\ pendingReplays'[c] = pendingReplays[c]
      BY <1>0, <1>4, <2>4 DEF SubscribeReplay, SendReplay, TypeOK
    <3>. QED BY <1>0, <2>1, <3>1, <3>2, StillCovered DEF SubscribedIsLive
  <2>. QED BY <2>2, <2>3, <2>4
<1>5. ASSUME NEW d \in Conn, NEW j \in Id, SubscribeLive(d, j)
      PROVE  /\ i \in live' /\ promised'[c][i] > 0
             /\ c \in conns' => Covered(c, i)'
  <2>1. /\ inc' = inc /\ out' = out /\ live' = live /\ conns' = conns
        /\ written' = written /\ pendingReplays' = pendingReplays
    BY <1>5 DEF SubscribeLive, sessionVars
  <2>2. CASE c = d /\ i = j
    <3>1. promised'[c][i] = out[i] + 1 /\ out[i] \in Nat /\ i \in live
      BY <1>0, <1>5, <2>2 DEF SubscribeLive, TypeOK
    <3>. QED BY <2>1, <3>1 DEF Covered
  <2>3. CASE ~(c = d /\ i = j)
    <3>1. i \in subscriptions[c] /\ i \in Id /\ promised'[c][i] = promised[c][i]
      BY <1>0, <1>5, <2>3 DEF SubscribeLive, TypeOK
    <3>. QED BY <1>0, <2>1, <3>1, StillCovered DEF SubscribedIsLive
  <2>. QED BY <2>2, <2>3
<1>6. ASSUME NEW d \in Conn, NEW j \in Id, Unsubscribe(d, j)
      PROVE  /\ i \in live' /\ promised'[c][i] > 0
             /\ c \in conns' => Covered(c, i)'
  <2>1. /\ inc' = inc /\ out' = out /\ live' = live /\ conns' = conns
        /\ pendingReplays' = pendingReplays
    BY <1>6 DEF Unsubscribe, sessionVars
  <2>2. i \in subscriptions[c] /\ i \in Id /\ ~(c = d /\ i = j)
    BY <1>0, <1>6 DEF Unsubscribe, TypeOK
  <2>3. promised'[c][i] = promised[c][i] /\ written'[c][i] = written[c][i]
    BY <1>0, <1>6, <2>2 DEF Unsubscribe, TypeOK
  <2>. QED BY <1>0, <2>1, <2>2, <2>3, StillCovered DEF SubscribedIsLive
<1>7. ASSUME NEW j \in Id, Output(j)
      PROVE  /\ i \in live' /\ promised'[c][i] > 0
             /\ c \in conns' => Covered(c, i)'
  <2>1. /\ inc' = inc /\ promised' = promised /\ live' = live /\ conns' = conns
        /\ pendingReplays' = pendingReplays /\ i \in subscriptions[c] /\ i \in Id
    BY <1>0, <1>7 DEF Output, TypeOK
  <2>2. CASE i = j /\ c \in conns
    <3>1. /\ out'[i] = out[i] + 1 /\ out[i] \in Nat /\ promised[c][i] \in Nat
          /\ written'[c][i] = written[c][i] \cup {out[i] + 1}
      BY <1>0, <1>7, <2>1, <2>2 DEF Output, Subscribers, TypeOK
    <3>2. QueuedUnits(c, i)' = QueuedUnits(c, i)
      BY <2>1 DEF QueuedUnits
    <3>3. \A x \in promised[c][i]..(out[i] + 1) : x \in promised[c][i]..out[i] \/ x = out[i] + 1
      BY <3>1
    <3>. QED BY <1>0, <2>1, <2>2, <3>1, <3>2, <3>3 DEF Covered, SubscribedIsLive
  <2>3. CASE i # j
    <3>1. out'[i] = out[i] /\ written'[c][i] = written[c][i]
      BY <1>0, <1>7, <2>1, <2>3 DEF Output, TypeOK
    <3>. QED BY <1>0, <2>1, <3>1, StillCovered DEF SubscribedIsLive
  <2>4. CASE c \notin conns
    BY <1>0, <2>1, <2>4 DEF SubscribedIsLive
  <2>. QED BY <2>2, <2>3, <2>4
<1>8. ASSUME NEW j \in Id, Exit(j)
      PROVE  /\ i \in live' /\ promised'[c][i] > 0
             /\ c \in conns' => Covered(c, i)'
  <2>1. /\ inc' = inc /\ conns' = conns /\ pendingReplays' = pendingReplays
        /\ i \in subscriptions[c] /\ i \in Id /\ c \in negotiated /\ i # j
    BY <1>0, <1>8 DEF Exit, OnlyNegotiated, TypeOK
  <2>2. /\ out'[i] = out[i] /\ written'[c][i] = written[c][i]
        /\ promised'[c][i] = promised[c][i] /\ i \in live'
    BY <1>0, <1>8, <2>1 DEF Exit, SubscribedIsLive, TypeOK
  <2>. QED BY <1>0, <2>1, <2>2, StillCovered DEF SubscribedIsLive
<1>9. ASSUME NEW d \in Conn, Drain(d)
      PROVE  /\ i \in live' /\ promised'[c][i] > 0
             /\ c \in conns' => Covered(c, i)'
  <2>1. /\ inc' = inc /\ out' = out /\ live' = live /\ conns' = conns
        /\ promised' = promised /\ i \in subscriptions[c] /\ i \in Id
    BY <1>0, <1>9 DEF Drain, TypeOK
  <2>2. PICK n \in 0..Len(pendingReplays[d]) :
          /\ pendingReplays' = [pendingReplays EXCEPT ![d] = SubSeq(@, n + 1, Len(@))]
          /\ written' = [written EXCEPT ![d] =
                           [k \in Id |-> @[k] \cup FlushedUnits(d, n, k)]]
    BY <1>9 DEF Drain
  <2>3. CASE c = d
    <3>1. written'[c][i] = written[c][i] \cup FlushedUnits(c, n, i)
      BY <1>0, <2>1, <2>2, <2>3 DEF TypeOK
    <3>2. QueuedUnits(c, i) \subseteq FlushedUnits(c, n, i) \cup QueuedUnits(c, i)'
      BY <1>0, <2>1, <2>2, <2>3, FlushKeeps
    <3>. QED BY <1>0, <2>1, <3>1, <3>2 DEF Covered, SubscribedIsLive
  <2>4. CASE c # d
    <3>1. pendingReplays'[c] = pendingReplays[c] /\ written'[c] = written[c]
      BY <1>0, <2>2, <2>4 DEF TypeOK
    <3>. QED BY <1>0, <2>1, <3>1, StillCovered DEF SubscribedIsLive
  <2>. QED BY <2>3, <2>4
<1>10. CASE UNCHANGED vars
  <2>1. /\ inc' = inc /\ out' = out /\ live' = live /\ conns' = conns
        /\ promised' = promised /\ written' = written
        /\ pendingReplays' = pendingReplays /\ subscriptions' = subscriptions
    BY <1>10 DEF vars, sessionVars, connVars, historyVars
  <2>. QED BY <1>0, <2>1, StillCovered DEF SubscribedIsLive, TypeOK
<1>. QED
  BY <1>1, <1>2, <1>3, <1>4, <1>5, <1>6, <1>7, <1>8, <1>9, <1>10 DEF Next

(* A subscriber is sent, or has queued, every unit its replay promised.     *)
THEOREM NoHoleTheorem == Spec => []NoHole
<1>1. Spec => []HoleInv
  BY InitIInv, StepIInv, InitHoleInv, StepHoleInv, PTL DEF Spec
<1>. QED BY <1>1, PTL DEF HoleInv
=============================================================================

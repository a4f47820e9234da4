-------------------------------- MODULE Ptyd --------------------------------
(***************************************************************************)
(* The serving half of the PTY daemon (packages/ptyd/src/server.ts): the   *)
(* sessions it owns, the client connections, and the two mechanisms that   *)
(* stand between a flooding terminal and a slow reader:                    *)
(*                                                                         *)
(*   - flow control: a connection whose outbound backlog passes the pause  *)
(*     mark holds the ptys that feed it; they resume when it drains;       *)
(*   - replays: the ring a subscriber asks for is sent at once, or queued  *)
(*     until the socket drains.                                            *)
(*                                                                         *)
(* Every handler runs to completion on Node's event loop, so each is one   *)
(* action.  Terminal output is a count of units (one read, one unit); the  *)
(* ring holds the last RingCap of them.  Control frames (acks, list, exit) *)
(* weigh nothing against the mark.                                         *)
(***************************************************************************)
EXTENDS Integers, Sequences, FiniteSets

CONSTANTS Id,        (* session ids                                          *)
          Conn,      (* client connections                                   *)
          Mark,      (* PAUSE_THRESHOLD, in units                            *)
          Hwm,       (* the socket's high-water mark: a write that reaches   *)
                     (* it is owed a 'drain' event                           *)
          RingCap,   (* bufferCap, in units                                  *)
          MaxInc,    (* bound: incarnations of one id                        *)
          MaxOut,    (* bound: units one incarnation prints                  *)
          MaxQueue   (* bound: replays one connection has waiting            *)

ASSUME PtydAssumption ==
  /\ Hwm \in Nat \ {0} /\ Mark \in Nat /\ Hwm <= Mark
  /\ RingCap \in Nat \ {0}
  /\ MaxInc \in Nat /\ MaxOut \in Nat /\ MaxQueue \in Nat

VARIABLES
  inc,              (* incarnations of the id opened so far                  *)
  live,             (* ids in the store (an exited session is deleted)       *)
  out,              (* units the live incarnation has printed                *)
  paused,           (* ids whose pty is paused                               *)
  conns,            (* this.conns                                            *)
  negotiated,       (* conns past hello                                      *)
  subscriptions,    (* Conn.subscriptions                                    *)
  pausedSessions,   (* Conn.pausedSessions                                   *)
  pendingReplays,   (* Conn.pendingReplays                                   *)
  writableLength,   (* socket.writableLength                                 *)
  needDrain,        (* conns whose socket owes a 'drain' event               *)
  promised,         (* history: first unit owed to the subscription          *)
  written           (* history: units written since it began                 *)

sessionVars == <<inc, live, out, paused>>
connVars    == <<conns, negotiated, subscriptions, pausedSessions,
                 pendingReplays, writableLength, needDrain>>
historyVars == <<promised, written>>
vars        == <<sessionVars, connVars, historyVars>>

Unit   == 1..MaxOut
Replay == [id : Id, inc : 1..MaxInc, units : SUBSET Unit]

\* Mutant of RingStart: one unit too early.
RingStartEarly(n) == IF n >= RingCap THEN n - RingCap ELSE 1

\* The ring of an incarnation that printed n units: the newest RingCap of them.
RingStart(n) == IF n > RingCap THEN n - RingCap + 1 ELSE 1
Ring(n) == RingStart(n)..n

Init ==
  /\ inc = [i \in Id |-> 0]
  /\ live = {} /\ paused = {}
  /\ out = [i \in Id |-> 0]
  /\ conns = {} /\ negotiated = {} /\ needDrain = {}
  /\ subscriptions = [c \in Conn |-> {}]
  /\ pausedSessions = [c \in Conn |-> {}]
  /\ pendingReplays = [c \in Conn |-> <<>>]
  /\ writableLength = [c \in Conn |-> 0]
  /\ promised = [c \in Conn |-> [i \in Id |-> 0]]
  /\ written = [c \in Conn |-> [i \in Id |-> {}]]
-----------------------------------------------------------------------------
(* Connections: onConnection, hello, and the close/error handler.            *)

Accept(c) ==
  /\ c \notin conns
  /\ conns' = conns \cup {c}
  /\ UNCHANGED <<sessionVars, negotiated, subscriptions, pausedSessions,
                 pendingReplays, writableLength, needDrain, historyVars>>

Hello(c) ==
  /\ c \in conns \ negotiated
  /\ negotiated' = negotiated \cup {c}
  /\ UNCHANGED <<sessionVars, conns, subscriptions, pausedSessions,
                 pendingReplays, writableLength, needDrain, historyVars>>

\* Mutants of Released: another connection's hold is ignored; a connection's
\* own hold counts against it.
ReleasedAlways(c, rest) == pausedSessions[c]
ReleasedUnlessHeld(c, rest) ==
  {i \in pausedSessions[c] : \A d \in rest : i \notin pausedSessions[d]}

\* The sessions a connection lets go of when it drains or dies: those it
\* holds and no other connection in rest does.
Released(c, rest) ==
  {i \in pausedSessions[c] : \A d \in rest \ {c} : i \notin pausedSessions[d]}

\* drop(): the peer is gone (or failed hello and was destroyed).  A destroyed
\* socket never drains, so what it held is released here.
Drop(c) ==
  /\ c \in conns
  /\ conns' = conns \ {c}
  /\ negotiated' = negotiated \ {c}
  /\ needDrain' = needDrain \ {c}
  /\ subscriptions' = [subscriptions EXCEPT ![c] = {}]
  /\ pausedSessions' = [pausedSessions EXCEPT ![c] = {}]
  /\ pendingReplays' = [pendingReplays EXCEPT ![c] = <<>>]
  /\ writableLength' = [writableLength EXCEPT ![c] = 0]
  /\ paused' = paused \ Released(c, conns \ {c})
  /\ promised' = [promised EXCEPT ![c] = [i \in Id |-> 0]]
  /\ written' = [written EXCEPT ![c] = [i \in Id |-> {}]]
  /\ UNCHANGED <<inc, live, out>>
-----------------------------------------------------------------------------
(* Requests of a negotiated connection.                                      *)

\* open on an id with no live session: spawn, register, wire.
Open(c, i) ==
  /\ c \in negotiated
  /\ i \notin live
  /\ inc[i] < MaxInc
  /\ inc' = [inc EXCEPT ![i] = @ + 1]
  /\ live' = live \cup {i}
  /\ out' = [out EXCEPT ![i] = 0]
  /\ UNCHANGED <<paused, connVars, historyVars>>

\* The marks a write of n units leaves on the socket of c.
Owed(c, n) ==
  IF writableLength[c] + n >= Hwm THEN needDrain \cup {c} ELSE needDrain

\* sendReplay: now if nothing is queued and the socket is below the mark.
CanSendReplay(c) == pendingReplays[c] = <<>> /\ writableLength[c] <= Mark

\* The replay's bytes go out, or into the queue.
SendReplay(c, i) ==
  LET ring == Ring(out[i])
  IN  IF CanSendReplay(c)
      THEN /\ writableLength' = [writableLength EXCEPT ![c] = @ + Cardinality(ring)]
           /\ needDrain' = Owed(c, Cardinality(ring))
           /\ written' = [written EXCEPT ![c][i] = @ \cup ring]
           /\ UNCHANGED pendingReplays
      ELSE /\ Len(pendingReplays[c]) < MaxQueue
           /\ pendingReplays' = [pendingReplays EXCEPT ![c] =
                Append(@, [id |-> i, inc |-> inc[i], units |-> ring])]
           /\ UNCHANGED <<writableLength, needDrain, written>>

\* subscribe; an empty ring is not replayed.
SubscribeReplay(c, i) ==
  /\ c \in negotiated
  /\ i \in live
  /\ subscriptions' = [subscriptions EXCEPT ![c] = @ \cup {i}]
  /\ promised' = IF i \in subscriptions[c] /\ promised[c][i] < RingStart(out[i])
                 THEN promised
                 ELSE [promised EXCEPT ![c][i] = RingStart(out[i])]
  /\ IF out[i] > 0
     THEN SendReplay(c, i)
     ELSE UNCHANGED <<pendingReplays, writableLength, needDrain, written>>
  /\ UNCHANGED <<sessionVars, conns, negotiated, pausedSessions>>

SubscribeLive(c, i) ==
  /\ c \in negotiated
  /\ i \in live
  /\ i \notin subscriptions[c]
  /\ subscriptions' = [subscriptions EXCEPT ![c] = @ \cup {i}]
  /\ promised' = [promised EXCEPT ![c][i] = out[i] + 1]
  /\ UNCHANGED <<sessionVars, conns, negotiated, pausedSessions, pendingReplays,
                 writableLength, needDrain, written>>

\* unsubscribe forgets the subscription only: a hold or a queued replay stays.
Unsubscribe(c, i) ==
  /\ c \in negotiated
  /\ i \in subscriptions[c]
  /\ subscriptions' = [subscriptions EXCEPT ![c] = @ \ {i}]
  /\ promised' = [promised EXCEPT ![c][i] = 0]
  /\ written' = [written EXCEPT ![c][i] = {}]
  /\ UNCHANGED <<sessionVars, conns, negotiated, pausedSessions, pendingReplays,
                 writableLength, needDrain>>
-----------------------------------------------------------------------------
(* The terminal side: wireSession's onData and onExit.                       *)

\* Mutant of Subscribers: live output skips a connection above the mark.
SubscribersWithRoom(i) ==
  {c \in conns : i \in subscriptions[c] /\ writableLength[c] <= Mark}

Subscribers(i) == {c \in conns : i \in subscriptions[c]}

\* Subscribers whose backlog is above the mark once this unit is written.
Congested(i) == {c \in Subscribers(i) : writableLength[c] + 1 > Mark}

Output(i) ==
  /\ i \in live \ paused
  /\ out[i] < MaxOut
  /\ out' = [out EXCEPT ![i] = @ + 1]
  /\ writableLength' = [c \in Conn |->
       writableLength[c] + (IF c \in Subscribers(i) THEN 1 ELSE 0)]
  /\ needDrain' = needDrain \cup
       {c \in Subscribers(i) : writableLength[c] + 1 >= Hwm}
  /\ pausedSessions' = [c \in Conn |->
       IF c \in Congested(i) THEN pausedSessions[c] \cup {i} ELSE pausedSessions[c]]
  /\ paused' = IF Congested(i) = {} THEN paused ELSE paused \cup {i}
  /\ written' = [c \in Conn |->
       IF c \in Subscribers(i) THEN [written[c] EXCEPT ![i] = @ \cup {out[i] + 1}]
                               ELSE written[c]]
  /\ UNCHANGED <<inc, live, conns, negotiated, subscriptions,
                 pendingReplays, promised>>

\* The shell ends.  Every negotiated connection hears of it and forgets the
\* id, except for replays it has queued.
Exit(i) ==
  /\ i \in live
  /\ live' = live \ {i}
  /\ paused' = paused \ {i}
  /\ out' = [out EXCEPT ![i] = 0]
  /\ subscriptions' = [c \in Conn |->
       IF c \in negotiated THEN subscriptions[c] \ {i} ELSE subscriptions[c]]
  /\ pausedSessions' = [c \in Conn |->
       IF c \in negotiated THEN pausedSessions[c] \ {i} ELSE pausedSessions[c]]
  /\ promised' = [c \in Conn |-> [promised[c] EXCEPT ![i] = 0]]
  /\ written' = [c \in Conn |-> [written[c] EXCEPT ![i] = {}]]
  /\ UNCHANGED <<inc, conns, negotiated, pendingReplays, writableLength, needDrain>>
-----------------------------------------------------------------------------
(* The socket side.                                                          *)

\* The kernel takes some of the backlog.
Transmit(c) ==
  /\ c \in conns
  /\ \E k \in 1..(writableLength[c] - 1) :
       writableLength' = [writableLength EXCEPT ![c] = @ - k]
  /\ UNCHANGED <<sessionVars, conns, negotiated, subscriptions, pausedSessions,
                 pendingReplays, needDrain, historyVars>>

\* ... or the last of it, when no write had reached the high-water mark.
Emptied(c) ==
  /\ c \in conns \ needDrain
  /\ writableLength[c] > 0
  /\ writableLength' = [writableLength EXCEPT ![c] = 0]
  /\ UNCHANGED <<sessionVars, conns, negotiated, subscriptions, pausedSessions,
                 pendingReplays, needDrain, historyVars>>

\* Units of the first n queued replays that are sent: those of ids the
\* connection still subscribes to.
Flushed(c, n) ==
  Cardinality({p \in (1..n) \X Unit :
                 LET r == pendingReplays[c][p[1]]
                 IN  r.id \in subscriptions[c] /\ p[2] \in r.units})

\* Mutant of FlushEnds: one replay per drain event.
FlushEndsAfterOne(c, n) == n = IF pendingReplays[c] = <<>> THEN 0 ELSE 1

\* flushReplays takes replays off an empty socket until none is left or the
\* backlog is above the mark again.
FlushEnds(c, n) ==
  /\ n = Len(pendingReplays[c]) \/ Flushed(c, n) > Mark
  /\ \A m \in 0..(n - 1) : Flushed(c, m) <= Mark

FlushedUnits(c, n, i) ==
  UNION {pendingReplays[c][k].units :
           k \in {j \in 1..n : /\ pendingReplays[c][j].id = i
                               /\ i \in subscriptions[c]
                               /\ pendingReplays[c][j].inc = inc[i]}}

\* The socket is empty and owes 'drain': flushReplays, then resumePaused.
Drain(c) ==
  /\ c \in conns \cap needDrain
  /\ writableLength[c] > 0
  /\ \E n \in 0..Len(pendingReplays[c]) :
       /\ FlushEnds(c, n)
       /\ pendingReplays' = [pendingReplays EXCEPT ![c] = SubSeq(@, n + 1, Len(@))]
       /\ writableLength' = [writableLength EXCEPT ![c] = Flushed(c, n)]
       /\ needDrain' = IF Flushed(c, n) >= Hwm THEN needDrain ELSE needDrain \ {c}
       /\ written' = [written EXCEPT ![c] =
                        [i \in Id |-> @[i] \cup FlushedUnits(c, n, i)]]
  /\ paused' = paused \ Released(c, conns)
  /\ pausedSessions' = [pausedSessions EXCEPT ![c] = {}]
  /\ UNCHANGED <<inc, live, out, conns, negotiated, subscriptions,
                 promised>>
-----------------------------------------------------------------------------
Next ==
  \/ \E c \in Conn : Accept(c) \/ Hello(c) \/ Drop(c)
  \/ \E c \in Conn, i \in Id : Open(c, i)
  \/ \E c \in Conn, i \in Id : SubscribeReplay(c, i) \/ SubscribeLive(c, i)
  \/ \E c \in Conn, i \in Id : Unsubscribe(c, i)
  \/ \E i \in Id : Output(i) \/ Exit(i)
  \/ \E c \in Conn : Transmit(c) \/ Emptied(c) \/ Drain(c)

Spec == Init /\ [][Next]_vars

(* A connected client reads all it is sent, or its socket dies.              *)
Fairness == \A c \in Conn : WF_vars(Drain(c) \/ Emptied(c) \/ Drop(c))

FairSpec == Spec /\ Fairness
-----------------------------------------------------------------------------
TypeOK ==
  /\ inc \in [Id -> 0..MaxInc]
  /\ live \in SUBSET Id /\ paused \in SUBSET Id
  /\ out \in [Id -> 0..MaxOut]
  /\ conns \in SUBSET Conn /\ negotiated \in SUBSET conns
  /\ needDrain \in SUBSET conns
  /\ subscriptions \in [Conn -> SUBSET Id]
  /\ pausedSessions \in [Conn -> SUBSET Id]
  /\ pendingReplays \in [Conn -> Seq(Replay)]
  /\ writableLength \in [Conn -> Nat]
  /\ promised \in [Conn -> [Id -> 0..(MaxOut + 1)]]
  /\ written \in [Conn -> [Id -> SUBSET Unit]]

(* A pty is paused exactly while some live connection holds it: no terminal  *)
(* is frozen for a reader that is gone or has caught up, and none keeps      *)
(* flooding a connection that asked it to stop (server.ts onData,            *)
(* resumePaused, drop, onExit).                                              *)
PausedIffHeld ==
  \A i \in Id : i \in paused <=> \E c \in conns : i \in pausedSessions[c]

(* Whatever waits for a 'drain' event will get one: a connection that holds  *)
(* a pty or a queued replay still has bytes to send and is owed the event.   *)
WaitersAreOwedDrain ==
  \A c \in Conn : pausedSessions[c] # {} \/ pendingReplays[c] # <<>> =>
                    c \in conns /\ c \in needDrain /\ writableLength[c] > 0

QueuedUnits(c, i) ==
  UNION {pendingReplays[c][k].units :
           k \in {j \in DOMAIN pendingReplays[c] :
                    /\ pendingReplays[c][j].id = i
                    /\ pendingReplays[c][j].inc = inc[i]}}

(* A subscriber never has a hole: every unit printed since the oldest one    *)
(* its replay promised has been written to it or waits in its queue,         *)
(* whatever congestion, unsubscribing and re-subscribing came in between.    *)
NoHole ==
  \A c \in conns : \A i \in subscriptions[c] :
    promised[c][i]..out[i] \subseteq written[c][i] \cup QueuedUnits(c, i)

(* A client that keeps reading, or dies, never freezes a terminal for good.  *)
PausedResumes == \A i \in Id : i \in paused ~> i \notin paused
=============================================================================

----------------------------- MODULE PtydManager ------------------------------
(***************************************************************************)
(* The server's side of the PTY daemon: the terminal manager's mirrors of  *)
(* daemon sessions (packages/server/src/services/ptyDaemon/manager.ts) over *)
(* its one-connection client (client.ts).  The server opens sessions,      *)
(* re-arms the connection when it drops, and after each re-arm resyncs its *)
(* mirrors from the list the daemon sends.                                 *)
(*                                                                         *)
(* The daemon is reduced to its live sessions and what it answers; frames  *)
(* travel in order on each connection.  On Node, the frames of one chunk   *)
(* are all handled before the promises they settled continue, so a frame   *)
(* may be received while a continuation waits; nothing else may happen.    *)
(*                                                                         *)
(* An actor is what awaits the daemon: the boot, the reconnect loop, or the*)
(* ensure() of one key.  Deliberate upgrades (upgradeDaemon) are not part  *)
(* of this module.                                                         *)
(***************************************************************************)
EXTENDS Integers, Sequences, FiniteSets

CONSTANTS Key,          (* session keys                                      *)
          YieldEvery,   (* RESYNC_YIELD_EVERY                                *)
          MaxAttempts,  (* reconnect attempts (5 in the code)                *)
          MaxConn,      (* bound: connections ever dialled                   *)
          MaxEnsures    (* bound: calls of ensure() that find no session     *)

ASSUME ManagerAssumption ==
  /\ {YieldEvery, MaxAttempts, MaxConn} \subseteq Nat \ {0}
  /\ MaxEnsures \in Nat
  /\ {"loop", "boot"} \cap Key = {}

Conn  == 1..MaxConn
Actor == Key \cup {"loop", "boot"}

VARIABLES
  dUp,           (* a daemon serves the socket path                          *)
  dLive,         (* its live sessions                                        *)
  dNeg,          (* connections past hello                                   *)
  dSub,          (* subscriptions of each connection                         *)
  link,          (* of a connection: see Link                                *)
  req, rsp,      (* frames on their way to, and from, the daemon             *)
  socket,        (* client.ts: the current connection                        *)
  pendingOpens,  (* keys whose open awaits its answer                        *)
  pendingLists,  (* actors that await a list, oldest first                   *)
  mirror,        (* "none", "running" or "exited"                            *)
  connected,
  step,          (* what an actor awaits: see Step                           *)
  at,            (* the connection whose handshake it awaits                 *)
  ids, todo,     (* liveIds of a resync, and those not adopted yet           *)
  attempts,      (* of the reconnect loop                                    *)
  ensures,       (* bound: see MaxEnsures                                    *)
  overtaken,     (* history: keys whose exit overtook a continuation         *)
  late,          (* history: keys whose open timed out                       *)
  collided,      (* history: two actors re-armed the connection at once   *)
  yieldDrop      (* history: the connection ended while a resync yielded     *)

daemonVars == <<dUp, dLive, dNeg, dSub>>
wireVars   == <<link, req, rsp, socket>>
clientVars == <<pendingOpens, pendingLists>>
actorVars  == <<step, at, ids, todo, attempts, ensures>>
histVars   == <<overtaken, late, collided, yieldDrop>>
vars == <<daemonVars, wireVars, clientVars, mirror, connected, actorVars, histVars>>

\* dialing: before 'connect'.  hello: before the hello-ack.  refused and lost:
\* the other end is gone and the close event is due, before or after the
\* hello-ack (helloAcked).
Link == {"none", "dialing", "hello", "up", "refused", "lost", "gone"}
Open == {"dialing", "hello", "up"}

Step == {"off", "join", "dial", "handshake", "greeted", "list", "listed", "sync",
         "armed", "opening", "opened", "backoff", "failed"}

\* The steps of an actor that re-arms the connection.
Rearm == {"dial", "handshake", "greeted", "list", "listed", "sync", "backoff"}

Frame(type, keys) == [t |-> type, ks |-> keys]

\* Continuations that run before the event loop turns.
Due == {a \in Actor : step[a] \in {"greeted", "listed", "armed", "opened"}}
         \cup {k \in Key : step[k] = "join" /\ step["loop"] = "off"}
Idle == Due = {}

Init ==
  /\ dUp = TRUE /\ dLive \in SUBSET Key
  /\ dNeg = {1} /\ dSub = [c \in Conn |-> {}]
  /\ link = [c \in Conn |-> IF c = 1 THEN "up" ELSE "none"]
  /\ req = [c \in Conn |-> IF c = 1 THEN <<Frame("list", {})>> ELSE <<>>]
  /\ rsp = [c \in Conn |-> <<>>]
  /\ socket = 1
  /\ pendingOpens = {} /\ pendingLists = <<"boot">>
  /\ mirror = [k \in Key |-> "none"]
  /\ connected = FALSE
  /\ step = [a \in Actor |-> IF a = "boot" THEN "list" ELSE "off"]
  /\ at = [a \in Actor |-> 0]
  /\ ids = [a \in Actor |-> {}] /\ todo = [a \in Actor |-> {}]
  /\ attempts = 0 /\ ensures = 0
  /\ overtaken = {} /\ late = {} /\ collided = FALSE /\ yieldDrop = FALSE
-----------------------------------------------------------------------------
(* The daemon, the wire and the operating system.                            *)

\* The other end of connection c is gone.
Ended(c) == IF link[c] = "up" THEN "lost" ELSE "refused"

\* Frames sent to the client.  It discards those of a superseded connection.
Delivered(c, f) == IF c = socket THEN [rsp EXCEPT ![c] = Append(@, f)] ELSE rsp

\* The daemon answers the next frame of connection c.
Serve(c) ==
  LET f     == Head(req[c])
      reply(g) == rsp' = Delivered(c, g)
  IN  /\ Idle
      /\ dUp /\ link[c] \in {"hello", "up"} /\ req[c] # <<>>
      /\ IF c \notin dNeg /\ f.t # "hello"
         THEN /\ link' = [link EXCEPT ![c] = Ended(c)]
              /\ req' = [req EXCEPT ![c] = <<>>]
              /\ UNCHANGED <<dLive, dNeg, dSub, rsp>>
         ELSE /\ req' = [req EXCEPT ![c] = Tail(@)]
              /\ UNCHANGED link
              /\ \/ /\ f.t = "hello"
                    /\ dNeg' = dNeg \cup {c}
                    /\ reply(Frame("hello-ack", {}))
                    /\ UNCHANGED <<dLive, dSub>>
                 \/ /\ f.t = "open" /\ f.ks \cap dLive = {}
                    /\ dLive' = dLive \cup f.ks
                    /\ reply(Frame("open-ack", f.ks))
                    /\ UNCHANGED <<dNeg, dSub>>
                 \/ /\ f.t = "open"
                    /\ reply(Frame("open-err", f.ks))
                    /\ UNCHANGED <<dLive, dNeg, dSub>>
                 \/ /\ f.t = "list"
                    /\ reply(Frame("list-reply", dLive))
                    /\ UNCHANGED <<dLive, dNeg, dSub>>
                 \/ /\ f.t = "subscribe"
                    /\ dSub' = [dSub EXCEPT ![c] = @ \cup (f.ks \cap dLive)]
                    /\ UNCHANGED <<dLive, dNeg, rsp>>
      /\ UNCHANGED <<dUp, socket, clientVars, mirror, connected, actorVars, histVars>>

\* A session ends: every negotiated connection is told.
SessionEnds(k) ==
  /\ Idle
  /\ k \in dLive
  /\ dLive' = dLive \ {k}
  /\ dSub' = [c \in Conn |-> dSub[c] \ {k}]
  /\ rsp' = IF socket \in dNeg /\ link[socket] \in {"hello", "up"}
             THEN Delivered(socket, Frame("exit", {k})) ELSE rsp
  /\ UNCHANGED <<dUp, dNeg, link, req, socket, clientVars, mirror, connected,
                 actorVars, histVars>>

\* The daemon dies with its sessions, or the wire of one connection drops.
DaemonDies ==
  /\ Idle
  /\ dUp /\ dUp' = FALSE
  /\ dLive' = {} /\ dNeg' = {} /\ dSub' = [c \in Conn |-> {}]
  /\ link' = [c \in Conn |-> IF link[c] \in {"hello", "up"} THEN Ended(c) ELSE link[c]]
  /\ req' = [c \in Conn |-> <<>>]
  /\ UNCHANGED <<rsp, socket, clientVars, mirror, connected, actorVars, histVars>>

WireDrops(c) ==
  /\ Idle
  /\ link[c] \in {"hello", "up"}
  /\ link' = [link EXCEPT ![c] = Ended(c)]
  /\ req' = [req EXCEPT ![c] = <<>>]
  /\ dNeg' = dNeg \ {c} /\ dSub' = [dSub EXCEPT ![c] = {}]
  /\ UNCHANGED <<dUp, dLive, rsp, socket, clientVars, mirror, connected, actorVars,
                 histVars>>
-----------------------------------------------------------------------------
(* The client: connect, frames received, and the end of a connection.        *)

\* A frame written to the current connection.
Sent(f) == IF link[socket] \in Open
           THEN [req EXCEPT ![socket] = Append(@, f)] ELSE req

\* ensurePtyDaemon adopts the daemon or spawns one; connect() then claims the
\* current socket before anything of it is known.
Dial(a) ==
  /\ Idle
  /\ step[a] = "dial"
  /\ \E c \in Conn :
       /\ link[c] = "none" /\ \A d \in Conn : d < c => link[d] # "none"
       /\ link' = [link EXCEPT ![c] = "dialing"]
       /\ socket' = c
       /\ at' = [at EXCEPT ![a] = c]
  /\ rsp' = [rsp EXCEPT ![socket] = <<>>]
  /\ dUp' = TRUE
  /\ step' = [step EXCEPT ![a] = "handshake"]
  /\ UNCHANGED <<dLive, dNeg, dSub, req, clientVars, mirror, connected, ids, todo,
                 attempts, ensures, histVars>>

\* What a failed attempt leaves: the loop sleeps, an ensure() rejects.
Failed(a) == IF a = "loop" THEN "backoff" ELSE IF a = "boot" THEN "failed" ELSE "off"

DialFails(a) ==
  /\ Idle
  /\ step[a] = "dial"
  /\ step' = [step EXCEPT ![a] = Failed(a)]
  /\ UNCHANGED <<daemonVars, wireVars, clientVars, mirror, connected, at, ids, todo,
                 attempts, ensures, histVars>>

\* 'connect': hello is written, after whatever was written before.
Connects(c) ==
  /\ Idle
  /\ link[c] = "dialing"
  /\ IF dUp THEN /\ link' = [link EXCEPT ![c] = "hello"]
                 /\ req' = [req EXCEPT ![c] = Append(@, Frame("hello", {}))]
            ELSE link' = [link EXCEPT ![c] = "refused"] /\ UNCHANGED req
  /\ UNCHANGED <<daemonVars, rsp, socket, clientVars, mirror, connected, actorVars,
                 histVars>>

\* Whether two actors have re-armed at once, now that they are at steps s.
Collides(s) == collided \/ \E a, b \in Actor : a # b /\ s[a] \in Rearm /\ s[b] \in Rearm

\* Keys whose mirror a pending continuation will set to running.
Continuing == {k \in Key : step[k] = "opened"} \cup
              UNION {todo[a] : a \in {b \in Actor : step[b] \in {"listed", "sync"}}}

\* Mutant of LiveIds: a resync is for the mirrors it knows.
KnownIds(f) == {k \in f.ks : mirror[k] = "running"}

\* The sessions of a list reply.
LiveIds(f) == f.ks

\* handleMessage, for the next frame of the current connection.
Receive ==
  LET f == Head(rsp[socket])
  IN  /\ rsp[socket] # <<>>
      /\ rsp' = [rsp EXCEPT ![socket] = Tail(@)]
      /\ \/ /\ f.t = "hello-ack"
            /\ link' = [link EXCEPT ![socket] = IF @ = "hello" THEN "up" ELSE "lost"]
            /\ step' = [a \in Actor |->
                 IF step[a] = "handshake" /\ at[a] = socket THEN "greeted" ELSE step[a]]
            /\ UNCHANGED <<clientVars, mirror, ids, todo, overtaken>>
         \/ /\ f.t = "open-ack"
            /\ pendingOpens' = pendingOpens \ f.ks
            /\ step' = [a \in Actor |->
                 IF a \in f.ks \cap pendingOpens THEN "opened" ELSE step[a]]
            /\ UNCHANGED <<link, pendingLists, mirror, ids, todo, overtaken>>
         \/ /\ f.t = "open-err"
            /\ pendingOpens' = pendingOpens \ f.ks
            /\ step' = [a \in Actor |->
                 IF a \in f.ks \cap pendingOpens THEN "off" ELSE step[a]]
            /\ UNCHANGED <<link, pendingLists, mirror, ids, todo, overtaken>>
         \/ /\ f.t = "exit"
            /\ mirror' = [k \in Key |->
                 IF k \in f.ks /\ mirror[k] # "none" THEN "exited" ELSE mirror[k]]
            /\ overtaken' = (overtaken \ f.ks) \cup (f.ks \cap Continuing)
            /\ UNCHANGED <<link, clientVars, step, ids, todo>>
         \/ /\ f.t = "list-reply" /\ pendingLists = <<>>
            /\ UNCHANGED <<link, clientVars, mirror, step, ids, todo, overtaken>>
         \/ /\ f.t = "list-reply" /\ pendingLists # <<>>
            /\ LET a == Head(pendingLists)
               IN  /\ step' = [step EXCEPT ![a] = "listed"]
                   /\ ids' = [ids EXCEPT ![a] = LiveIds(f)]
                   /\ todo' = [todo EXCEPT ![a] = LiveIds(f)]
            /\ pendingLists' = Tail(pendingLists)
            /\ overtaken' = {k \in overtaken : step[k] = "opened"}
            /\ UNCHANGED <<link, pendingOpens, mirror>>
      /\ UNCHANGED <<daemonVars, req, socket, connected, at, attempts, ensures, late,
                     collided, yieldDrop>>

\* Mutant of Rejected: failAllPending forgets the pending lists.
RejectedOpens(c) ==
  pendingOpens \cup {a \in Actor : step[a] = "handshake" /\ at[a] = c}

\* Those whose promise the end of connection c rejects.  A superseded
\* connection rejects its own handshake only.
Rejected(c) ==
  {a \in Actor : step[a] = "handshake" /\ at[a] = c} \cup
  IF c = socket THEN pendingOpens \cup {pendingLists[i] : i \in DOMAIN pendingLists}
                ELSE {}

\* Mutant of OnDrop: a drop is taken for the death of every session.
ExitedOnDrop(k) == "exited"

\* A drop is no proof that a session died: the mirrors keep their state.
OnDrop(k) == mirror[k]

\* onGone of connection c runs the manager's disconnect callback, which is
\* registered once boot's resync is over.
Disconnected(c) == c = socket /\ link[c] = "lost" /\ step["boot"] = "off"

\* connected, once connection c has ended.
AfterDrop(c) == connected /\ ~Disconnected(c)

\* Mutant of AttemptsAfter: a new loop goes on counting.
AttemptsKept(begins) == attempts

\* The loop counts its own attempts.
AttemptsAfter(begins) == IF begins THEN 0 ELSE attempts

Gone(c) ==
  LET begins == Disconnected(c) /\ step["loop"] = "off"
  IN  /\ Idle
      /\ link[c] \in {"refused", "lost"}
      /\ link' = [link EXCEPT ![c] = "gone"]
      /\ rsp' = [rsp EXCEPT ![c] = <<>>]
      /\ step' = [a \in Actor |-> IF a \in Rejected(c) THEN Failed(a)
                                  ELSE IF a = "loop" /\ begins THEN "dial" ELSE step[a]]
      /\ attempts' = AttemptsAfter(begins)
      /\ connected' = AfterDrop(c)
      /\ mirror' = [k \in Key |-> IF Disconnected(c) THEN OnDrop(k) ELSE mirror[k]]
      /\ IF c = socket THEN pendingOpens' = {} /\ pendingLists' = <<>>
                       ELSE UNCHANGED clientVars
      /\ yieldDrop' = (yieldDrop \/ (c = socket /\ \E a \in Actor : step[a] = "sync"))
      /\ collided' = Collides(step')
      /\ UNCHANGED <<daemonVars, req, socket, at, ids, todo, ensures, overtaken, late>>
-----------------------------------------------------------------------------
(* resync() and the reconnect loop.                                           *)

\* connect() resolved: the actor asks for the list.
Greeted(a) ==
  /\ step[a] = "greeted"
  /\ step' = [step EXCEPT ![a] = "list"]
  /\ pendingLists' = Append(pendingLists, a)
  /\ req' = Sent(Frame("list", {}))
  /\ UNCHANGED <<daemonVars, link, rsp, socket, pendingOpens, mirror, connected, at, ids,
                 todo, attempts, ensures, histVars>>

\* Mutant of Vanished: sessions the daemon no longer lists stay running.
NoneVanished(a) == {}

\* Mirrors thought running that the list does not hold.
Vanished(a) == {k \in Key : mirror[k] = "running"} \ ids[a]

\* The subscriptions of the sessions adopted.
Resubscribed(b) == IF b = {} THEN req ELSE Sent(Frame("subscribe", b))

\* Listed sessions are adopted, YieldEvery of them at a time; after the last,
\* what vanished is marked exited and the connection counts as established.
Adopt(a) ==
  \E b \in SUBSET todo[a] :
    LET yields == Cardinality(b) = YieldEvery
    IN  /\ step[a] = "listed" \/ (step[a] = "sync" /\ Idle)
        /\ yields \/ (b = todo[a] /\ Cardinality(b) < YieldEvery)
        /\ req' = Resubscribed(b)
        /\ todo' = [todo EXCEPT ![a] = @ \ b]
        /\ IF yields
           THEN /\ mirror' = [k \in Key |-> IF k \in b THEN "running" ELSE mirror[k]]
                /\ step' = [step EXCEPT ![a] = "sync"]
                /\ UNCHANGED <<connected, ids>>
           ELSE /\ mirror' = [k \in Key |-> IF k \in b THEN "running"
                                            ELSE IF k \in Vanished(a) THEN "exited"
                                            ELSE mirror[k]]
                /\ step' = [step EXCEPT ![a] = IF a \in Key THEN "armed" ELSE "off"]
                /\ connected' = TRUE
                /\ ids' = [ids EXCEPT ![a] = {}]
        /\ UNCHANGED <<daemonVars, link, rsp, socket, clientVars, at, attempts, ensures,
                       histVars>>

\* Mutant of LeftByGivingUp: the mirrors keep their state.
LeftRunning(k) == mirror[k]

\* markAllExited, for key k.
LeftByGivingUp(k) == IF mirror[k] = "running" THEN "exited" ELSE mirror[k]

\* The sleep after a failed attempt is over: the next one, or none is left.
Retry ==
  /\ Idle
  /\ step["loop"] = "backoff"
  /\ attempts' = attempts + 1
  /\ IF attempts' < MaxAttempts
     THEN step' = [step EXCEPT !["loop"] = "dial"] /\ UNCHANGED mirror
     ELSE /\ step' = [step EXCEPT !["loop"] = "off"]
          /\ mirror' = [k \in Key |-> LeftByGivingUp(k)]
  /\ UNCHANGED <<daemonVars, wireVars, clientVars, connected, at, ids, todo, ensures,
                 histVars>>
-----------------------------------------------------------------------------
(* ensure().                                                                  *)

\* client.open() of key k, which rejects on a destroyed socket.
SendOpen(k) ==
  IF link[socket] = "gone"
  THEN step' = [step EXCEPT ![k] = "off"] /\ UNCHANGED <<req, pendingOpens>>
  ELSE /\ step' = [step EXCEPT ![k] = "opening"]
       /\ pendingOpens' = pendingOpens \cup {k}
       /\ req' = Sent(Frame("open", {k}))

\* ensure() of a key that is not running and has no open in flight.
Ensure(k) ==
  /\ Idle
  /\ step["boot"] = "off" /\ step[k] = "off" /\ mirror[k] # "running"
  /\ ensures < MaxEnsures /\ ensures' = ensures + 1
  /\ mirror' = [mirror EXCEPT ![k] = "exited"]
  /\ IF connected THEN SendOpen(k)
     ELSE /\ step' = [step EXCEPT ![k] = IF step["loop"] # "off" THEN "join" ELSE "dial"]
          /\ UNCHANGED <<req, pendingOpens>>
  /\ collided' = Collides(step')
  /\ UNCHANGED <<daemonVars, link, rsp, socket, pendingLists, connected, at, ids, todo,
                 attempts, overtaken, late, yieldDrop>>

\* The reconnect loop it joined is over.
Joined(k) ==
  /\ step[k] = "join" /\ step["loop"] = "off"
  /\ IF connected THEN SendOpen(k)
     ELSE step' = [step EXCEPT ![k] = "dial"] /\ UNCHANGED <<req, pendingOpens>>
  /\ collided' = Collides(step')
  /\ UNCHANGED <<daemonVars, link, rsp, socket, pendingLists, mirror, connected, at, ids,
                 todo, attempts, ensures, overtaken, late, yieldDrop>>

\* The connection it re-armed itself is established.
Rearmed(k) ==
  /\ step[k] = "armed"
  /\ SendOpen(k)
  /\ UNCHANGED <<daemonVars, link, rsp, socket, pendingLists, mirror, connected, at, ids,
                 todo, attempts, ensures, histVars>>

\* open() resolved.
Opened(k) ==
  /\ step[k] = "opened"
  /\ mirror' = [mirror EXCEPT ![k] = "running"]
  /\ req' = Resubscribed({k})
  /\ step' = [step EXCEPT ![k] = "off"]
  /\ UNCHANGED <<daemonVars, link, rsp, socket, clientVars, connected, at, ids, todo,
                 attempts, ensures, histVars>>

\* No answer within OPEN_TIMEOUT_MS.
OpenTimesOut(k) ==
  /\ Idle
  /\ k \in pendingOpens
  /\ pendingOpens' = pendingOpens \ {k}
  /\ step' = [step EXCEPT ![k] = "off"]
  /\ late' = late \cup {k}
  /\ UNCHANGED <<daemonVars, wireVars, pendingLists, mirror, connected, at, ids, todo,
                 attempts, ensures, overtaken, collided, yieldDrop>>

Continues ==
  \/ \E a \in Actor : Greeted(a) \/ Adopt(a)
  \/ \E k \in Key : Joined(k) \/ Rearmed(k) \/ Opened(k)

Next ==
  \/ \E c \in Conn : Serve(c) \/ WireDrops(c) \/ Connects(c) \/ Gone(c)
  \/ \E k \in Key : SessionEnds(k) \/ Ensure(k) \/ OpenTimesOut(k)
  \/ \E a \in Actor : Dial(a) \/ DialFails(a)
  \/ DaemonDies \/ Receive \/ Continues \/ Retry

Spec == Init /\ [][Next]_vars

\* The daemon answers, the event loop delivers what arrives and runs what it
\* settled, ensurePtyDaemon comes to an end, and timers fire.
Fairness ==
  /\ \A c \in Conn : WF_vars(Serve(c)) /\ WF_vars(Connects(c)) /\ WF_vars(Gone(c))
  /\ \A a \in Actor : WF_vars(Dial(a) \/ DialFails(a)) /\ WF_vars(Greeted(a))
                      /\ WF_vars(Adopt(a))
  /\ \A k \in Key : WF_vars(Joined(k)) /\ WF_vars(Rearmed(k)) /\ WF_vars(Opened(k))
  /\ WF_vars(Receive) /\ WF_vars(Retry)

FairSpec == Spec /\ Fairness
-----------------------------------------------------------------------------
(* Properties.                                                                *)

\* Every variable keeps its type; a frame names at most keys of the model.
TypeOK ==
  /\ dUp \in BOOLEAN /\ dLive \subseteq Key
  /\ dNeg \subseteq Conn /\ dSub \in [Conn -> SUBSET Key]
  /\ link \in [Conn -> Link] /\ socket \in Conn
  /\ \A c \in Conn : \A q \in {req[c], rsp[c]} : \A i \in DOMAIN q : q[i].ks \subseteq Key
  /\ pendingOpens \subseteq Key /\ \A i \in DOMAIN pendingLists : pendingLists[i] \in Actor
  /\ mirror \in [Key -> {"none", "running", "exited"}]
  /\ connected \in BOOLEAN /\ step \in [Actor -> Step]
  /\ ids \in [Actor -> SUBSET Key] /\ todo \in [Actor -> SUBSET Key]
  /\ at \in [Actor -> 0..MaxConn] /\ attempts \in 0..MaxAttempts
  /\ ensures \in 0..MaxEnsures

\* Connected, and no actor is about to reconnect or to resync.
Attached ==
  /\ connected /\ link[socket] = "up"
  /\ \A a \in Actor : step[a] \notin Rearm

\* No re-arm raced another, and no connection ended under a resync: the source's
\* assumptions, which the last section shows it does not secure.
Undisturbed == ~collided /\ ~yieldDrop

\* The daemon has said that session k ended, and the client has yet to hear it.
ExitDue(k) == \E i \in DOMAIN rsp[socket] : rsp[socket][i] = Frame("exit", {k})

\* Once attached, a session shown as running is live or its exit is on the way,
\* unless its exit was handled between an answer of the daemon and the
\* continuation of the promise it settled.  However many drops, reconnects and
\* resyncs came before.
RunningIsLive ==
  Attached /\ Undisturbed =>
    \A k \in Key \ overtaken : mirror[k] = "running" => k \in dLive \/ ExitDue(k)

\* Once attached, a live session is shown as running or is being opened: none
\* is left without a terminal, unless its open was given up after a timeout.
NoOrphan ==
  Attached /\ Undisturbed =>
    \A k \in dLive \ late : mirror[k] = "running" \/ step[k] \in {"opening", "opened"}

\* A session that lives is declared exited only when the reconnect loop gives
\* up: not by a drop, a resync or a late frame.  A key
\* being opened, or whose open timed out, may still hear of the end of its
\* former session.
NoFalseExit ==
  [][\A k \in Key : mirror[k] = "running" /\ mirror'[k] = "exited" /\ Undisturbed =>
       k \notin dLive \/ step[k] = "opening" \/ k \in late
         \/ (step["loop"] = "backoff" /\ step'["loop"] = "off")]_vars

\* A session that ended is at last shown as exited, or opened anew, whatever
\* happened to the connection that would have told, unless its exit frame
\* overtook a continuation.
EndIsLearned ==
  \A k \in Key :
    mirror[k] = "running" /\ k \notin dLive ~>
      \/ mirror[k] = "exited" \/ k \in dLive
      \/ k \in overtaken \/ collided \/ yieldDrop

\* Every ensure() settles, unless two re-arms collided.
EnsureEnds == \A k \in Key : step[k] # "off" ~> step[k] = "off" \/ collided
-----------------------------------------------------------------------------
(* What the source says of the program.                                       *)

\* client.ts:131-133: a superseded handshake still settles its connect().
EnsureSettles == \A k \in Key : step[k] # "off" ~> step[k] = "off"
=============================================================================

---------------------------- MODULE RelayTunnel ----------------------------
(***************************************************************************)
(* The reverse tunnel of one runner: the relay (packages/relay/src/        *)
(* server.ts), the runner's client that dials it (client.ts), and the      *)
(* requests and channels of browsers carried over it.  Runners share       *)
(* nothing in the relay but its restarts.                                  *)
(*                                                                         *)
(* A control socket carries frames in order both ways.  A close is a frame *)
(* of its own, after what was sent before it; a socket whose link died     *)
(* silently delivers nothing, and each side finds out by a timer: the      *)
(* relay's pings and auth deadline, the client's watchdog and hello-ack    *)
(* deadline, and the close timeout of the WebSocket library.  Delays are   *)
(* left out: a timer is a step that may be taken once what it waits for    *)
(* does not come.  The deadlines of a hello may also pass on a live link,  *)
(* as one of the faults.                                                   *)
(*                                                                         *)
(* A channel (a terminal's WebSocket or a forwarded TCP port) is carried   *)
(* like a request whose head is not awaited; the bytes of both, cookies,   *)
(* tickets and presence reports are left out, and two daemons with one     *)
(* identity, which replace each other for ever.                            *)
(***************************************************************************)
EXTENDS Integers, Sequences, FiniteSets, SequencesExt

CONSTANTS Sock,       (* control sockets that may exist at once              *)
          Http, Chan, (* requests and channels of browsers                   *)
          MaxFaults   (* links that die or are slow, errors of the auth      *)
              (* backend, drains and crashes of the relay            *)

Req  == Http \cup Chan
None == "none"

ASSUME RelayAssumption ==
  /\ IsFiniteSet(Sock) /\ None \notin Sock
  /\ IsFiniteSet(Req) /\ None \notin Req /\ Http \cap Chan = {}
  /\ MaxFaults \in Nat

VARIABLES
  relay,   (* the relay process: "up", "draining" or "down"                  *)
  revoked, (* the runner's credential has been revoked                       *)
  faults,  (* faults so far                                                  *)
  srv,     (* the relay's end of a socket: none, auth, passed (verified, not *)
           (* registered), open (registered) or closing                      *)
  tun,     (* tunnels: the socket registered for the runner, None            *)
  cli,     (* the client's end of its socket: off, open, up (acked), closing *)
  cur,     (* its socket                                                     *)
  down, up,(* frames in flight to the client, to the relay                   *)
  dead,    (* sockets whose link is dead                                     *)
  phase,   (* a request: idle, checking, waiting, open or ended              *)
  via,     (* history: the socket it was sent on                             *)
  cause,   (* history: how its browser's interest ended                      *)
  work     (* the runner's part: none, running, or its head is sent          *)

sockets  == <<srv, tun, cli, cur, down, up, dead>>
requests == <<phase, via, cause, work>>
vars     == <<relay, revoked, faults, sockets, requests>>

Init ==
  /\ relay = "up" /\ revoked = FALSE /\ faults = 0
  /\ srv = [s \in Sock |-> None] /\ tun = None /\ cli = "off" /\ cur = None
  /\ down = [s \in Sock |-> <<>>] /\ up = [s \in Sock |-> <<>>] /\ dead = {}
  /\ phase = [r \in Req |-> "idle"] /\ via = [r \in Req |-> None]
  /\ cause = [r \in Req |-> None] /\ work = [r \in Req |-> None]
-----------------------------------------------------------------------------
(* Frames.                                                                   *)

Frame(t, r) == [type |-> t, id |-> r]

\* What is sent on a dead link is lost.
Put(queues, s, frame) ==
  IF s \in dead THEN queues ELSE [queues EXCEPT ![s] = Append(@, frame)]

\* send: nothing without a tunnel whose socket is open.
SendDown(s, frame) == IF s # None /\ srv[s] = "open" THEN Put(down, s, frame) ELSE down
SendUp(frame) == IF cli \in {"open", "up"} THEN Put(up, cur, frame) ELSE up

\* close, once.
CloseFrame == Frame("close", None)
-----------------------------------------------------------------------------
(* The relay's tunnels.                                                      *)

Pending == {r \in Req : phase[r] \in {"waiting", "open"}}

\* Mutants: what the tunnel carries is kept, or what has its head.
DisposedNone == phase
DisposedWaiting == [r \in Req |-> IF phase[r] = "waiting" THEN "ended" ELSE phase[r]]

\* dispose: what the tunnel carries fails.
Disposed == [r \in Req |-> IF r \in Pending THEN "ended" ELSE phase[r]]

\* A mutant: any socket of the runner that closes takes its tunnel down.
UnregisteredAny(s) == tun' = None /\ phase' = Disposed

\* unregister: only the socket that is still the tunnel takes it down.
Unregistered(s) ==
  IF tun = s THEN tun' = None /\ phase' = Disposed
             ELSE UNCHANGED <<tun, phase>>

\* The socket's close event at the relay.
ServerClosed(s) ==
  /\ srv' = [srv EXCEPT ![s] = None]
  /\ Unregistered(s)

\* The relay closes a socket.
ServerCloses(s) ==
  /\ srv' = [srv EXCEPT ![s] = "closing"]
  /\ down' = Put(down, s, CloseFrame)

\* A hello is verified with the auth backend.
Hello(s) ==
  /\ srv[s] = "auth" /\ up[s] # <<>> /\ Head(up[s]).type = "hello"
  /\ up' = [up EXCEPT ![s] = Tail(@)]
  /\ IF revoked THEN ServerCloses(s)
                ELSE srv' = [srv EXCEPT ![s] = "passed"] /\ UNCHANGED down
  /\ UNCHANGED <<relay, revoked, faults, tun, cli, cur, dead, requests>>

\* What register does to the tunnel it replaces.
Replaced(s) ==
  IF tun = None
  THEN srv' = [srv EXCEPT ![s] = "open"] /\ down' = Put(down, s, Frame("ack", None))
  ELSE /\ srv' = [srv EXCEPT ![s] = "open", ![tun] = "closing"]
       /\ down' = IF srv[tun] = "open"
                  THEN Put(Put(down, tun, CloseFrame), s, Frame("ack", None))
                  ELSE Put(down, s, Frame("ack", None))

\* The backend's answer is here: register, last write wins.
Register(s) ==
  /\ srv[s] = "passed"
  /\ IF relay = "draining"
     THEN ServerCloses(s) /\ UNCHANGED <<tun, phase>>
     ELSE Replaced(s) /\ tun' = s /\ phase' = Disposed
  /\ UNCHANGED <<relay, revoked, faults, cli, cur, up, dead, via, cause, work>>

\* A mutant: the credential is checked at hello only.
ExpireUnverified(s) ==
  /\ srv[s] \in {"auth", "open"} /\ s \in dead
  /\ ServerCloses(s)
  /\ UNCHANGED <<relay, revoked, faults, tun, cli, cur, up, dead, requests>>

\* Pings go unanswered, the credential does not hold any longer, or a socket
\* does not come to register.
Expire(s) ==
  /\ \/ srv[s] = "open" /\ tun = s /\ (s \in dead \/ revoked)
     \/ srv[s] = "auth" /\ s \in dead
  /\ ServerCloses(s)
  /\ UNCHANGED <<relay, revoked, faults, tun, cli, cur, up, dead, requests>>

\* Nobody answers the close.
ServerCloseTimeout(s) ==
  /\ srv[s] = "closing" /\ s \in dead
  /\ ServerClosed(s)
  /\ UNCHANGED <<relay, revoked, faults, cli, cur, down, up, dead, via, cause, work>>

\* The peer's close frame; answered unless the relay closed first.
ServerGetsClose(s) ==
  /\ srv[s] # None /\ up[s] # <<>> /\ Head(up[s]).type = "close"
  /\ up' = [up EXCEPT ![s] = Tail(@)]
  /\ down' = IF srv[s] = "closing" THEN down ELSE Put(down, s, CloseFrame)
  /\ ServerClosed(s)
  /\ UNCHANGED <<relay, revoked, faults, cli, cur, dead, via, cause, work>>

\* handleRunnerMessage: a frame is looked up in the runner's tunnel, whichever
\* socket it came on.
Outcome(frame, p) ==
  CASE frame.type = "head" /\ p = "waiting" -> "open"
    [] frame.type = "end" /\ p \in {"waiting", "open"} -> "ended"
    [] OTHER -> p

ServerGets(s) ==
  /\ srv[s] \in {"open", "closing"} /\ up[s] # <<>> /\ Head(up[s]).type # "close"
  /\ up' = [up EXCEPT ![s] = Tail(@)]
  /\ LET frame == Head(up[s])
     IN  phase' = IF tun = None \/ frame.id = None THEN phase
                  ELSE [phase EXCEPT ![frame.id] = Outcome(frame, @)]
  /\ UNCHANGED <<relay, revoked, faults, srv, tun, cli, cur, down, dead, via, cause, work>>
-----------------------------------------------------------------------------
(* Browsers (proxyHttp and proxyWs).                                         *)

\* A request comes: without a tunnel it fails at once, else it is authorized.
Ask(r) ==
  /\ relay # "down" /\ phase[r] = "idle"
  /\ phase' = [phase EXCEPT ![r] = IF tun = None THEN "ended" ELSE "checking"]
  /\ UNCHANGED <<relay, revoked, faults, sockets, via, cause, work>>

\* It is authorized: sendHttp, or a channel is opened.  A channel whose browser
\* has gone is not opened; a request is sent all the same.
Sendable(r) == tun # None /\ srv[tun] = "open" /\ (r \in Chan => cause[r] = None)

Send(r) ==
  /\ phase[r] = "checking"
  /\ IF Sendable(r)
     THEN /\ phase' = [phase EXCEPT ![r] = IF r \in Http THEN "waiting" ELSE "open"]
          /\ via' = [via EXCEPT ![r] = tun]
          /\ down' = SendDown(tun, Frame("request", r))
     ELSE phase' = [phase EXCEPT ![r] = "ended"] /\ UNCHANGED <<via, down>>
  /\ UNCHANGED <<relay, revoked, faults, srv, tun, cli, cur, up, dead, cause, work>>

\* The browser's credential is refused.
Refuse(r) ==
  /\ phase[r] = "checking" /\ phase' = [phase EXCEPT ![r] = "ended"]
  /\ UNCHANGED <<relay, revoked, faults, sockets, via, cause, work>>

\* The browser goes away: what was sent is aborted at the runner; of what is still
\* being authorized the handler learns nothing more, a channel's but the flag.
\* AbortNone is a mutant: the runner is not told.
AbortNone(r) == down
Abort(r) == SendDown(tun, Frame("abort", r))

Leave(r) ==
  /\ phase[r] \in {"checking", "waiting", "open"} /\ cause[r] = None
  /\ IF phase[r] = "checking"
     THEN cause' = [cause EXCEPT ![r] = "early"] /\ UNCHANGED <<phase, down>>
     ELSE /\ cause' = [cause EXCEPT ![r] = "left"]
          /\ phase' = [phase EXCEPT ![r] = "ended"] /\ down' = Abort(r)
  /\ UNCHANGED <<relay, revoked, faults, srv, tun, cli, cur, up, dead, via, work>>

\* No head in time: the browser gets its error; nothing is sent to the runner.
HeadTimeout(r) ==
  /\ phase[r] = "waiting" /\ phase' = [phase EXCEPT ![r] = "ended"]
  /\ cause' = [cause EXCEPT ![r] = IF @ = None THEN "timeout" ELSE @]
  /\ UNCHANGED <<relay, revoked, faults, sockets, via, work>>
-----------------------------------------------------------------------------
(* The runner's client.                                                      *)

\* connect: the socket opens and hello is sent.  A relay that is down refuses.
Connect ==
  /\ cli = "off" /\ relay # "down"
  /\ \E s \in Sock :
       /\ srv[s] = None
       /\ cur' = s /\ cli' = "open" /\ dead' = dead \ {s}
       /\ srv' = [srv EXCEPT ![s] = "auth"]
       /\ up' = [up EXCEPT ![s] = <<Frame("hello", None)>>]
       /\ down' = [down EXCEPT ![s] = <<>>]
  /\ UNCHANGED <<relay, revoked, faults, tun, requests>>

\* teardown: fetches are aborted and local sockets closed.
TornDown == [r \in Req |-> None]

\* A mutant: the socket is kept.
GoneHalf == cli' = "off" /\ UNCHANGED cur /\ work' = TornDown

\* onGone, the close event of the client's socket.
Gone == cli' = "off" /\ cur' = None /\ work' = TornDown

\* The client closes its socket.
ClientCloses == cli' = "closing" /\ up' = Put(up, cur, CloseFrame)

NextFrame(s) == Head(down[s])

ClientGetsClose ==
  /\ cli # "off" /\ down[cur] # <<>> /\ NextFrame(cur).type = "close"
  /\ down' = [down EXCEPT ![cur] = Tail(@)]
  /\ up' = IF cli = "closing" THEN up ELSE Put(up, cur, CloseFrame)
  /\ Gone
  /\ UNCHANGED <<relay, revoked, faults, srv, tun, dead, phase, via, cause>>

\* The relay drains: reconnect without waiting for its close.
ClientGetsDrain ==
  /\ cli # "off" /\ down[cur] # <<>> /\ NextFrame(cur).type = "drain"
  /\ down' = [down EXCEPT ![cur] = Tail(@)]
  /\ IF cli = "closing" THEN UNCHANGED <<cli, up>> ELSE ClientCloses
  /\ UNCHANGED <<relay, revoked, faults, srv, tun, cur, dead, requests>>

\* hello-ack, a request or an abort.
Started(frame) ==
  CASE frame.type = "request" -> [work EXCEPT ![frame.id] = "running"]
    [] frame.type = "abort"   -> [work EXCEPT ![frame.id] = None]
    [] OTHER                  -> work

ClientGets ==
  /\ cli # "off" /\ down[cur] # <<>> /\ NextFrame(cur).type \in {"ack", "request", "abort"}
  /\ down' = [down EXCEPT ![cur] = Tail(@)]
  /\ cli' = IF NextFrame(cur).type = "ack" /\ cli = "open" THEN "up" ELSE cli
  /\ work' = Started(NextFrame(cur))
  /\ UNCHANGED <<relay, revoked, faults, srv, tun, cur, up, dead, phase, via, cause>>

\* A mutant: the hello-ack deadline, and no watchdog.
SilenceBeforeAck ==
  /\ cli = "open" /\ cur \in dead
  /\ ClientCloses
  /\ UNCHANGED <<relay, revoked, faults, srv, tun, cur, down, dead, requests>>

\* Silence: the watchdog, or the hello-ack deadline.
Silence ==
  /\ cli \in {"open", "up"} /\ cur \in dead
  /\ ClientCloses
  /\ UNCHANGED <<relay, revoked, faults, srv, tun, cur, down, dead, requests>>

ClientCloseTimeout ==
  /\ cli = "closing" /\ cur \in dead
  /\ Gone
  /\ UNCHANGED <<relay, revoked, faults, srv, tun, down, up, dead, phase, via, cause>>

\* The local server answers; the frames go out on whatever socket is current.
Respond(r) ==
  /\ work[r] = "running" /\ r \in Http
  /\ work' = [work EXCEPT ![r] = "headed"]
  /\ up' = SendUp(Frame("head", r))
  /\ UNCHANGED <<relay, revoked, faults, srv, tun, cli, cur, down, dead, phase, via, cause>>

\* The response ends or fails, or the local end of a channel closes.
Finish(r) ==
  /\ work[r] # None
  /\ work' = [work EXCEPT ![r] = None]
  /\ up' = SendUp(Frame("end", r))
  /\ UNCHANGED <<relay, revoked, faults, srv, tun, cli, cur, down, dead, phase, via, cause>>
-----------------------------------------------------------------------------
(* Faults.                                                                   *)

\* A link dies silently, with what is in flight on it.
LinkDies(s) ==
  /\ faults < MaxFaults /\ faults' = faults + 1
  /\ srv[s] # None /\ s \notin dead
  /\ dead' = dead \cup {s}
  /\ down' = [down EXCEPT ![s] = <<>>] /\ up' = [up EXCEPT ![s] = <<>>]
  /\ UNCHANGED <<relay, revoked, srv, tun, cli, cur, requests>>

\* verifyRunner throws: the hello is rejected as if it were refused.
VerifyErrs(s) ==
  /\ faults < MaxFaults /\ faults' = faults + 1
  /\ srv[s] = "auth" /\ up[s] # <<>> /\ Head(up[s]).type = "hello"
  /\ up' = [up EXCEPT ![s] = Tail(@)]
  /\ ServerCloses(s)
  /\ UNCHANGED <<relay, revoked, tun, cli, cur, dead, requests>>

\* The backend or the link is slow: the relay's auth deadline passes, or the
\* client's for the hello-ack, while the hello or the ack is under way.
AuthIsLate(s) ==
  /\ faults < MaxFaults /\ faults' = faults + 1
  /\ srv[s] \in {"auth", "passed"}
  /\ ServerCloses(s)
  /\ UNCHANGED <<relay, revoked, tun, cli, cur, up, dead, requests>>

AckIsLate ==
  /\ faults < MaxFaults /\ faults' = faults + 1
  /\ cli = "open"
  /\ ClientCloses
  /\ UNCHANGED <<relay, revoked, srv, tun, cur, down, dead, requests>>

Revoke ==
  /\ ~revoked /\ revoked' = TRUE
  /\ UNCHANGED <<relay, faults, sockets, requests>>

\* SIGTERM at a deploy: tell the runners in band, refuse new tunnels.
Drain ==
  /\ relay = "up" /\ faults < MaxFaults /\ faults' = faults + 1
  /\ relay' = "draining"
  /\ down' = SendDown(tun, Frame("drain", None))
  /\ UNCHANGED <<revoked, srv, tun, cli, cur, up, dead, requests>>

\* The process ends, half a second after the drain began, or by a crash: its
\* tunnels are disposed of and its sockets close.
Ended ==
  /\ relay' = "down"
  /\ srv' = [s \in Sock |-> None] /\ tun' = None
  /\ down' = [s \in Sock |-> IF srv[s] = None THEN down[s] ELSE Put(down, s, CloseFrame)[s]]
  /\ phase' = [r \in Req |-> IF phase[r] = "checking" THEN "ended" ELSE Disposed[r]]
  /\ UNCHANGED <<revoked, cli, cur, up, dead, via, cause, work>>

DrainEnds == relay = "draining" /\ Ended /\ UNCHANGED faults
Crash     == relay # "down" /\ faults < MaxFaults /\ faults' = faults + 1 /\ Ended

Restart ==
  /\ relay = "down" /\ relay' = "up"
  /\ UNCHANGED <<revoked, faults, sockets, requests>>
-----------------------------------------------------------------------------
Server(s) == \/ Hello(s) \/ Register(s) \/ Expire(s) \/ ServerCloseTimeout(s)
             \/ ServerGetsClose(s) \/ ServerGets(s)
Client    == \/ Connect \/ ClientGetsClose \/ ClientGetsDrain \/ ClientGets
             \/ Silence \/ ClientCloseTimeout
Browser(r) == Ask(r) \/ Send(r) \/ Refuse(r) \/ Leave(r) \/ HeadTimeout(r)
Runner(r)  == Respond(r) \/ Finish(r)

Next ==
  \/ \E s \in Sock : Server(s) \/ LinkDies(s) \/ VerifyErrs(s) \/ AuthIsLate(s)
  \/ Client
  \/ \E r \in Req : Browser(r) \/ Runner(r)
  \/ AckIsLate \/ Revoke \/ Drain \/ DrainEnds \/ Crash \/ Restart

Spec == Init /\ [][Next]_vars

\* Frames on a live link arrive, timers fire, the auth backend answers, the client
\* dials again and a relay that ends is started again.  Nothing is asked of the
\* browsers, or of the runner's local server.
FairSpec ==
  /\ Spec
  /\ \A s \in Sock : WF_vars(Server(s))
  /\ WF_vars(Client) /\ WF_vars(DrainEnds) /\ WF_vars(Restart)
  /\ \A r \in Req : WF_vars(Send(r)) /\ WF_vars(HeadTimeout(r))
-----------------------------------------------------------------------------
Frames == [type : {"hello", "ack", "request", "abort", "drain", "head", "end", "close"}, id : Req \cup {None}]

TypeOK ==
  /\ relay \in {"up", "draining", "down"} /\ revoked \in BOOLEAN /\ faults \in 0..MaxFaults
  /\ srv \in [Sock -> {None, "auth", "passed", "open", "closing"}]
  /\ tun \in Sock \cup {None} /\ (tun # None => srv[tun] \in {"open", "closing"})
  /\ cli \in {"off", "open", "up", "closing"} /\ (cli = "off" <=> cur = None)
  /\ \A s \in Sock : \A f \in ToSet(down[s]) \cup ToSet(up[s]) : f \in Frames
  /\ dead \subseteq Sock
  /\ phase \in [Req -> {"idle", "checking", "waiting", "open", "ended"}]
  /\ cause \in [Req -> {None, "early", "left", "timeout"}]
  /\ work \in [Req -> {None, "running", "headed"}]

\* A runner that believes it is connected is reachable: a registered socket is
\* the tunnel until it closes, and the close of a replaced one takes nothing
\* down (register, unregister).
RegisteredIsTunnel == \A s \in Sock : srv[s] = "open" => tun = s

\* What a browser waits for was sent on the tunnel that stands: when a tunnel is
\* replaced or lost, what it carried fails at once (dispose).
WaitsOnTheTunnel == \A r \in Pending : via[r] = tun

\* A stream ends when its link dies, though nobody times its body: pings, the
\* watchdog and the redial that replaces the tunnel end it (dispose).
DeadStreamEnds == \A r \in Req : (phase[r] = "open" /\ tun \in dead) ~> phase[r] = "ended"

\* Once a browser leaves what was sent for it, the runner does nothing for it: the
\* abort reaches it, or the tunnel it was lost with is torn down (abort, teardown).
LeftIsAborted == \A r \in Req : cause[r] = "left" ~> [](work[r] = None)

\* The tunnel comes back for good once nothing fails any more.
TunnelReturns == <>[](revoked \/ (tun # None /\ srv[tun] = "open" /\ cli = "up" /\ cur = tun))

\* A revoked runner is cut off for good, however its hello and the revocation met.
RevokedIsCut == revoked ~> [](tun = None)
=============================================================================

---------------------------- MODULE RelayProofs -----------------------------
(***************************************************************************)
(* The tunnels of the relay, for any sockets, requests and faults: type    *)
(* correctness, and that neither the replacement of a tunnel nor the end   *)
(* of a replaced socket leaves a runner unreachable or a browser waiting   *)
(* on a tunnel that is gone.                                               *)
(***************************************************************************)
EXTENDS RelayTunnel, TLAPS

(* The relay's own part of the type invariant.                              *)
TunnelType ==
  /\ srv \in [Sock -> {None, "auth", "passed", "open", "closing"}]
  /\ tun \in Sock \cup {None} /\ (tun # None => srv[tun] \in {"open", "closing"})
  /\ phase \in [Req -> {"idle", "checking", "waiting", "open", "ended"}]
  /\ via \in [Req -> Sock \cup {None}]

(* RegisteredIsTunnel is not inductive without the type of tun: a socket     *)
(* that registers replaces the one there is, which must be known to be       *)
(* another one.                                                             *)
TunnelInv == TunnelType /\ RegisteredIsTunnel /\ WaitsOnTheTunnel

-----------------------------------------------------------------------------
\* dispose ends whatever was carried.
LEMMA DisposedEnds ==
  ASSUME TunnelType
  PROVE  /\ Disposed \in [Req -> {"idle", "checking", "waiting", "open", "ended"}]
         /\ \A r \in Req : Disposed[r] \notin {"waiting", "open"}
  BY DEF TunnelType, Disposed, Pending

\* The close of a socket, whether or not it is the tunnel.
LEMMA CloseKeeps ==
  ASSUME TunnelInv, NEW s \in Sock, ServerClosed(s), UNCHANGED via
  PROVE  TunnelInv'
<1>1. CASE tun = s
  <2>1. tun' = None /\ phase' = Disposed
    BY <1>1 DEF ServerClosed, Unregistered
  <2>2. TunnelType'
    BY <2>1, DisposedEnds DEF TunnelInv, TunnelType, ServerClosed
  <2>3. RegisteredIsTunnel'
    BY <1>1 DEF TunnelInv, TunnelType, RegisteredIsTunnel, ServerClosed, None
  <2>4. WaitsOnTheTunnel'
    BY <2>1, DisposedEnds DEF TunnelInv, WaitsOnTheTunnel, Pending
  <2>. QED BY <2>2, <2>3, <2>4 DEF TunnelInv
<1>2. CASE tun # s
  <2>1. UNCHANGED <<tun, phase>>
    BY <1>2 DEF ServerClosed, Unregistered
  <2>2. TunnelType'
    BY <1>2, <2>1, RelayAssumption DEF TunnelInv, TunnelType, ServerClosed
  <2>3. RegisteredIsTunnel'
    BY <2>1 DEF TunnelInv, TunnelType, RegisteredIsTunnel, ServerClosed, None
  <2>4. WaitsOnTheTunnel'
    BY <2>1 DEF TunnelInv, WaitsOnTheTunnel, Pending
  <2>. QED BY <2>2, <2>3, <2>4 DEF TunnelInv
<1>. QED BY <1>1, <1>2

\* What keeps the tunnel and sends nothing may close a socket or verify one,
\* and end or begin requests that wait for nothing.
LEMMA QuietKeeps ==
  ASSUME TunnelInv, UNCHANGED <<tun, via>>,
         srv' \in [Sock -> {None, "auth", "passed", "open", "closing"}],
         \A s \in Sock : srv'[s] = "open" => srv[s] = "open",
         tun # None => srv'[tun] \in {"open", "closing"},
         phase' \in [Req -> {"idle", "checking", "waiting", "open", "ended"}],
         \A r \in Req : phase'[r] \in {"waiting", "open"} => phase[r] \in {"waiting", "open"}
  PROVE  TunnelInv'
  BY DEF TunnelInv, TunnelType, RegisteredIsTunnel, WaitsOnTheTunnel, Pending

\* Every step of the relay, the client, the browsers and the network.
LEMMA StepTunnelInv == TunnelInv /\ [Next]_vars => TunnelInv'
<1>. SUFFICES ASSUME TunnelInv, [Next]_vars PROVE TunnelInv'
  OBVIOUS
<1>. USE RelayAssumption
<1>1. ASSUME NEW s \in Sock, Hello(s) PROVE TunnelInv'
  BY <1>1, QuietKeeps DEF Hello, ServerCloses, requests, TunnelInv, TunnelType, None
<1>2. ASSUME NEW s \in Sock, Register(s) PROVE TunnelInv'
  <2>1. CASE relay = "draining"
    BY <1>2, <2>1, QuietKeeps DEF Register, ServerCloses, TunnelInv, TunnelType, None
  <2>2. CASE relay # "draining"
    <3>1. srv[s] = "passed" /\ tun' = s /\ phase' = Disposed /\ Replaced(s) /\ UNCHANGED via
      BY <1>2, <2>2 DEF Register
    <3>2. tun # s
      BY <3>1 DEF TunnelInv, TunnelType
    <3>3. srv' = IF tun = None THEN [srv EXCEPT ![s] = "open"]
                 ELSE [srv EXCEPT ![s] = "open", ![tun] = "closing"]
      BY <3>1 DEF Replaced
    <3>4. TunnelType'
      BY <3>1, <3>2, <3>3, DisposedEnds DEF TunnelInv, TunnelType
    <3>5. RegisteredIsTunnel'
      BY <3>1, <3>2, <3>3 DEF TunnelInv, TunnelType, RegisteredIsTunnel
    <3>6. WaitsOnTheTunnel'
      BY <3>1, DisposedEnds DEF TunnelInv, WaitsOnTheTunnel, Pending
    <3>. QED BY <3>4, <3>5, <3>6 DEF TunnelInv
  <2>. QED BY <2>1, <2>2
<1>3. ASSUME NEW s \in Sock, Expire(s) PROVE TunnelInv'
  BY <1>3, QuietKeeps DEF Expire, ServerCloses, requests, TunnelInv, TunnelType
<1>4. ASSUME NEW s \in Sock, ServerCloseTimeout(s) PROVE TunnelInv'
  BY <1>4, CloseKeeps DEF ServerCloseTimeout
<1>5. ASSUME NEW s \in Sock, ServerGetsClose(s) PROVE TunnelInv'
  BY <1>5, CloseKeeps DEF ServerGetsClose
<1>6. ASSUME NEW s \in Sock, ServerGets(s) PROVE TunnelInv'
  <2>. DEFINE frame == Head(up[s])
  <2>1. UNCHANGED <<srv, tun, via>>
    BY <1>6 DEF ServerGets
  <2>2. phase' = IF tun = None \/ frame.id = None THEN phase
                 ELSE [phase EXCEPT ![frame.id] = Outcome(frame, @)]
    BY <1>6 DEF ServerGets
  <2>3. \A p \in {"idle", "checking", "waiting", "open", "ended"} :
          /\ Outcome(frame, p) \in {"idle", "checking", "waiting", "open", "ended"}
          /\ Outcome(frame, p) \in {"waiting", "open"} => p \in {"waiting", "open"}
    BY DEF Outcome
  <2>4. /\ phase' \in [Req -> {"idle", "checking", "waiting", "open", "ended"}]
        /\ \A r \in Req : phase'[r] \in {"waiting", "open"} => phase[r] \in {"waiting", "open"}
    BY <2>2, <2>3 DEF TunnelInv, TunnelType
  <2>. QED BY <2>1, <2>4, QuietKeeps DEF TunnelInv, TunnelType
<1>7. ASSUME NEW s \in Sock, LinkDies(s) PROVE TunnelInv'
  BY <1>7, QuietKeeps DEF LinkDies, requests, TunnelInv, TunnelType
<1>8. ASSUME Client PROVE TunnelInv'
  <2>1. ASSUME Connect PROVE TunnelInv'
    BY <2>1, QuietKeeps DEF Connect, requests, TunnelInv, TunnelType, None
  <2>2. ASSUME ~Connect PROVE UNCHANGED <<srv, tun, phase, via>>
    BY <1>8, <2>2 DEF Client, ClientGetsClose, ClientGetsDrain, ClientGets, Silence,
                      ClientCloseTimeout, requests
  <2>. QED BY <2>1, <2>2, QuietKeeps DEF TunnelInv, TunnelType
<1>9. ASSUME NEW r \in Req, Browser(r) PROVE TunnelInv'
  <2>1. ASSUME Ask(r) PROVE TunnelInv'
    BY <2>1, QuietKeeps DEF Ask, sockets, TunnelInv, TunnelType
  <2>2. ASSUME Send(r) PROVE TunnelInv'
    BY <2>2 DEF Send, Sendable, TunnelInv, TunnelType, RegisteredIsTunnel, WaitsOnTheTunnel, Pending
  <2>3. ASSUME Refuse(r) PROVE TunnelInv'
    BY <2>3, QuietKeeps DEF Refuse, sockets, TunnelInv, TunnelType
  <2>4. ASSUME Leave(r) PROVE TunnelInv'
    BY <2>4, QuietKeeps DEF Leave, TunnelInv, TunnelType
  <2>5. ASSUME HeadTimeout(r) PROVE TunnelInv'
    BY <2>5, QuietKeeps DEF HeadTimeout, sockets, TunnelInv, TunnelType
  <2>. QED BY <1>9, <2>1, <2>2, <2>3, <2>4, <2>5 DEF Browser
<1>10. ASSUME NEW r \in Req, Runner(r) PROVE TunnelInv'
  BY <1>10, QuietKeeps DEF Runner, Respond, Finish, TunnelInv, TunnelType
<1>11. ASSUME Ended PROVE TunnelInv'
  <2>1. /\ srv' = [s \in Sock |-> None] /\ tun' = None /\ UNCHANGED via
        /\ phase' = [r \in Req |-> IF phase[r] = "checking" THEN "ended" ELSE Disposed[r]]
    BY <1>11 DEF Ended
  <2>2. TunnelType'
    BY <2>1, DisposedEnds DEF TunnelInv, TunnelType
  <2>3. RegisteredIsTunnel'
    BY <2>1 DEF RegisteredIsTunnel, None
  <2>4. WaitsOnTheTunnel'
    BY <2>1, DisposedEnds DEF TunnelInv, WaitsOnTheTunnel, Pending
  <2>. QED BY <2>2, <2>3, <2>4 DEF TunnelInv
<1>12. ASSUME Revoke \/ Drain \/ Restart PROVE TunnelInv'
  BY <1>12, QuietKeeps DEF Revoke, Drain, Restart, sockets, requests, TunnelInv, TunnelType
<1>13. ASSUME NEW s \in Sock, VerifyErrs(s) \/ AuthIsLate(s) PROVE TunnelInv'
  BY <1>13, QuietKeeps DEF VerifyErrs, AuthIsLate, ServerCloses, requests, TunnelInv, TunnelType, None
<1>14. ASSUME AckIsLate PROVE TunnelInv'
  BY <1>14, QuietKeeps DEF AckIsLate, requests, TunnelInv, TunnelType
<1>15. CASE UNCHANGED vars
  BY <1>15, QuietKeeps DEF vars, sockets, requests, TunnelInv, TunnelType
<1>. QED
  BY <1>1, <1>2, <1>3, <1>4, <1>5, <1>6, <1>7, <1>8, <1>9, <1>10, <1>11, <1>12, <1>13,
     <1>14, <1>15
  DEF Next, Server, DrainEnds, Crash

\* At first there is no socket, no tunnel and no request.
LEMMA InitTunnelInv == Init => TunnelInv
  BY DEF Init, TunnelInv, TunnelType, RegisteredIsTunnel, WaitsOnTheTunnel, Pending, None

\* The invariant holds for ever.
THEOREM TunnelAlways == Spec => []TunnelInv
  BY InitTunnelInv, StepTunnelInv, PTL DEF Spec

\* A registered socket is the runner's tunnel until it closes, whichever sockets
\* replace each other, close late, expire or die (register, unregister).
THEOREM Reachable == Spec => []RegisteredIsTunnel
<1>1. TunnelInv => RegisteredIsTunnel
  BY DEF TunnelInv
<1>. QED BY <1>1, TunnelAlways, PTL

\* No browser waits on a tunnel that was replaced or lost (dispose).
THEOREM NobodyWaitsInVain == Spec => []WaitsOnTheTunnel
<1>1. TunnelInv => WaitsOnTheTunnel
  BY DEF TunnelInv
<1>. QED BY <1>1, TunnelAlways, PTL
-----------------------------------------------------------------------------
(* Type correctness of the rest: the wire, the client and the runner.       *)
WireType ==
  /\ relay \in {"up", "draining", "down"} /\ revoked \in BOOLEAN /\ faults \in 0..MaxFaults
  /\ cli \in {"off", "open", "up", "closing"} /\ cur \in Sock \cup {None}
  /\ (cli = "off" <=> cur = None)
  /\ down \in [Sock -> Seq(Frames)] /\ up \in [Sock -> Seq(Frames)]
  /\ dead \subseteq Sock
  /\ cause \in [Req -> {None, "early", "left", "timeout"}]
  /\ work \in [Req -> {None, "running", "headed"}]

\* What is sent is a frame, on a socket or nowhere.
LEMMA PutType ==
  ASSUME NEW q \in [Sock -> Seq(Frames)], NEW s \in Sock \cup {None}, NEW f \in Frames
  PROVE  Put(q, s, f) \in [Sock -> Seq(Frames)]
<1>1. ASSUME s \in Sock PROVE Append(q[s], f) \in Seq(Frames)
  <2>1. q[s] \in Seq(Frames)
    BY <1>1
  <2>. QED BY <2>1
<1>2. [q EXCEPT ![s] = Append(@, f)] \in [Sock -> Seq(Frames)]
  BY <1>1
<1>. QED BY <1>2 DEF Put

\* The frames there are.
LEMMA FrameType ==
  /\ CloseFrame \in Frames
  /\ \A t \in {"hello", "ack", "drain"} : Frame(t, None) \in Frames
  /\ \A t \in {"request", "abort", "head", "end"}, r \in Req : Frame(t, r) \in Frames
  BY DEF CloseFrame, Frame, Frames

\* What a step of the wire takes and puts.
LEMMA SendType ==
  ASSUME TunnelType, WireType
  PROVE  /\ \A s \in Sock : Put(down, s, CloseFrame) \in [Sock -> Seq(Frames)]
         /\ cur # None => Put(up, cur, CloseFrame) \in [Sock -> Seq(Frames)]
         /\ \A t \in {"request", "abort"}, r \in Req, s \in Sock \cup {None} :
              SendDown(s, Frame(t, r)) \in [Sock -> Seq(Frames)]
         /\ SendDown(tun, Frame("drain", None)) \in [Sock -> Seq(Frames)]
         /\ \A t \in {"head", "end"}, r \in Req : SendUp(Frame(t, r)) \in [Sock -> Seq(Frames)]
         /\ \A s \in Sock : down[s] # <<>> => [down EXCEPT ![s] = Tail(@)] \in [Sock -> Seq(Frames)]
         /\ \A s \in Sock : up[s] # <<>> => [up EXCEPT ![s] = Tail(@)] \in [Sock -> Seq(Frames)]
<1>1. /\ down \in [Sock -> Seq(Frames)] /\ up \in [Sock -> Seq(Frames)]
      /\ tun \in Sock \cup {None} /\ cur \in Sock \cup {None}
  BY DEF TunnelType, WireType
<1>2. \A s \in Sock : Put(down, s, CloseFrame) \in [Sock -> Seq(Frames)]
  BY <1>1, PutType, FrameType
<1>3. Put(up, cur, CloseFrame) \in [Sock -> Seq(Frames)]
  BY <1>1, PutType, FrameType
<1>4. ASSUME NEW s \in Sock \cup {None}, NEW f \in Frames
      PROVE  SendDown(s, f) \in [Sock -> Seq(Frames)]
  BY <1>1, PutType DEF SendDown
<1>5. ASSUME NEW f \in Frames PROVE SendUp(f) \in [Sock -> Seq(Frames)]
  BY <1>1, PutType DEF SendUp
<1>6. ASSUME NEW q \in [Sock -> Seq(Frames)], NEW s \in Sock, q[s] # <<>>
      PROVE  [q EXCEPT ![s] = Tail(@)] \in [Sock -> Seq(Frames)]
  <2>1. q[s] \in Seq(Frames)
    BY <1>6
  <2>2. Tail(q[s]) \in Seq(Frames)
    BY <1>6, <2>1
  <2>. QED BY <2>2
<1>. QED BY <1>1, <1>2, <1>3, <1>4, <1>5, <1>6, FrameType

\* Every step keeps the types of the wire, the client and the runner.
LEMMA StepWireType == TunnelInv /\ WireType /\ [Next]_vars => WireType'
<1>. SUFFICES ASSUME TunnelInv, WireType, [Next]_vars PROVE WireType'
  OBVIOUS
<1>. USE RelayAssumption
<1>0. TunnelType
  BY DEF TunnelInv
<1>. USE SendType
<1>1. ASSUME NEW s \in Sock, Hello(s) PROVE WireType'
  BY <1>0, <1>1 DEF Hello, ServerCloses, requests, WireType
<1>2. ASSUME NEW s \in Sock, Register(s) PROVE WireType'
  <2>1. CASE relay = "draining"
    BY <1>0, <1>2, <2>1 DEF Register, ServerCloses, WireType
  <2>2. CASE relay # "draining"
    <3>1. Replaced(s) /\ UNCHANGED <<relay, revoked, faults, cli, cur, up, dead, cause, work>>
      BY <1>2, <2>2 DEF Register
    <3>2. /\ Put(down, s, Frame("ack", None)) \in [Sock -> Seq(Frames)]
          /\ \A q \in [Sock -> Seq(Frames)] :
               Put(q, s, Frame("ack", None)) \in [Sock -> Seq(Frames)]
      BY PutType, FrameType DEF WireType
    <3>3. tun # None => Put(down, tun, CloseFrame) \in [Sock -> Seq(Frames)]
      BY <1>0 DEF TunnelType
    <3>4. down' \in {Put(down, s, Frame("ack", None)),
                     Put(Put(down, tun, CloseFrame), s, Frame("ack", None))}
          /\ (tun = None => down' = Put(down, s, Frame("ack", None)))
      BY <3>1 DEF Replaced
    <3>5. down' \in [Sock -> Seq(Frames)]
      BY <3>2, <3>3, <3>4
    <3>. QED BY <3>1, <3>5 DEF WireType
  <2>. QED BY <2>1, <2>2
<1>3. ASSUME NEW s \in Sock, Expire(s) PROVE WireType'
  BY <1>0, <1>3 DEF Expire, ServerCloses, requests, WireType
<1>4. ASSUME NEW s \in Sock, ServerCloseTimeout(s) PROVE WireType'
  BY <1>4 DEF ServerCloseTimeout, WireType
<1>5. ASSUME NEW s \in Sock, ServerGetsClose(s) PROVE WireType'
  BY <1>0, <1>5 DEF ServerGetsClose, WireType
<1>6. ASSUME NEW s \in Sock, ServerGets(s) PROVE WireType'
  BY <1>0, <1>6 DEF ServerGets, WireType
<1>7. ASSUME NEW s \in Sock, LinkDies(s) PROVE WireType'
  BY <1>7 DEF LinkDies, requests, WireType
<1>8. ASSUME Connect PROVE WireType'
  <2>1. PICK s \in Sock :
          /\ cur' = s /\ cli' = "open" /\ dead' = dead \ {s}
          /\ up' = [up EXCEPT ![s] = <<Frame("hello", None)>>]
          /\ down' = [down EXCEPT ![s] = <<>>]
    BY <1>8 DEF Connect
  <2>2. UNCHANGED <<relay, revoked, faults, cause, work>>
    BY <1>8 DEF Connect, requests
  <2>3. <<Frame("hello", None)>> \in Seq(Frames) /\ <<>> \in Seq(Frames)
    BY FrameType
  <2>. QED BY <2>1, <2>2, <2>3 DEF WireType
<1>9. ASSUME ClientGetsClose PROVE WireType'
  BY <1>0, <1>9 DEF ClientGetsClose, Gone, TornDown, WireType
<1>10. ASSUME ClientGetsDrain PROVE WireType'
  BY <1>0, <1>10 DEF ClientGetsDrain, ClientCloses, requests, WireType
<1>11. ASSUME ClientGets PROVE WireType'
  <2>1. Started(NextFrame(cur)) \in [Req -> {None, "running", "headed"}]
    BY DEF Started, WireType
  <2>2. cur \in Sock /\ down[cur] # <<>> /\ down' = [down EXCEPT ![cur] = Tail(@)]
        /\ cli' \in {"up", cli} /\ cli # "off" /\ work' = Started(NextFrame(cur))
        /\ UNCHANGED <<relay, revoked, faults, cur, up, dead, cause>>
    BY <1>11 DEF ClientGets, WireType
  <2>. QED BY <1>0, <2>1, <2>2 DEF WireType
<1>12. ASSUME Silence PROVE WireType'
  BY <1>0, <1>12 DEF Silence, ClientCloses, requests, WireType
<1>13. ASSUME ClientCloseTimeout PROVE WireType'
  BY <1>13 DEF ClientCloseTimeout, Gone, TornDown, WireType
<1>14. ASSUME NEW r \in Req, Browser(r) PROVE WireType'
  <2>1. ASSUME Ask(r) \/ Refuse(r) \/ HeadTimeout(r) PROVE WireType'
    BY <2>1 DEF Ask, Refuse, HeadTimeout, sockets, WireType
  <2>2. ASSUME Send(r) PROVE WireType'
    BY <1>0, <2>2 DEF Send, WireType, TunnelType
  <2>3. ASSUME Leave(r) PROVE WireType'
    <3>1. Abort(r) \in [Sock -> Seq(Frames)]
      BY <1>0 DEF Abort, TunnelType
    <3>2. down' \in {down, Abort(r)}
          /\ (cause' = [cause EXCEPT ![r] = "early"] \/ cause' = [cause EXCEPT ![r] = "left"])
          /\ UNCHANGED <<relay, revoked, faults, cli, cur, up, dead, work>>
      BY <2>3 DEF Leave
    <3>3. cause' \in [Req -> {None, "early", "left", "timeout"}]
      BY <3>2 DEF WireType
    <3>4. down' \in [Sock -> Seq(Frames)]
      BY <3>1, <3>2 DEF WireType
    <3>. QED BY <3>2, <3>3, <3>4 DEF WireType
  <2>. QED BY <1>14, <2>1, <2>2, <2>3 DEF Browser
<1>15. ASSUME NEW r \in Req, Runner(r) PROVE WireType'
  <2>1. SendUp(Frame("head", r)) \in [Sock -> Seq(Frames)] /\ SendUp(Frame("end", r)) \in [Sock -> Seq(Frames)]
    BY <1>0
  <2>2. up' \in {SendUp(Frame("head", r)), SendUp(Frame("end", r))}
        /\ (work' = [work EXCEPT ![r] = "headed"] \/ work' = [work EXCEPT ![r] = None])
        /\ UNCHANGED <<relay, revoked, faults, cli, cur, down, dead, cause>>
    BY <1>15 DEF Runner, Respond, Finish
  <2>3. work' \in [Req -> {None, "running", "headed"}]
    BY <2>2 DEF WireType
  <2>4. up' \in [Sock -> Seq(Frames)]
    BY <2>1, <2>2
  <2>. QED BY <2>2, <2>3, <2>4 DEF WireType
<1>16. ASSUME Ended, UNCHANGED faults \/ (faults < MaxFaults /\ faults' = faults + 1)
       PROVE  WireType'
  <2>1. down' \in [Sock -> Seq(Frames)]
    BY <1>0, <1>16 DEF Ended, WireType
  <2>. QED BY <1>16, <2>1 DEF Ended, WireType
<1>17. ASSUME Revoke \/ Drain \/ Restart PROVE WireType'
  <2>1. ASSUME Revoke PROVE WireType'
    <3>1. revoked' \in BOOLEAN
      BY <2>1, Zenon DEF Revoke
    <3>. QED BY <2>1, <3>1 DEF Revoke, sockets, requests, WireType
  <2>2. ASSUME Drain PROVE WireType'
    <3>1. down' \in [Sock -> Seq(Frames)]
      BY <1>0, <2>2 DEF Drain
    <3>2. faults' \in 0..MaxFaults
      BY <2>2 DEF Drain, WireType
    <3>. QED BY <2>2, <3>1, <3>2 DEF Drain, requests, WireType
  <2>3. ASSUME Restart PROVE WireType'
    BY <2>3 DEF Restart, sockets, requests, WireType
  <2>. QED BY <1>17, <2>1, <2>2, <2>3
<1>18. ASSUME NEW s \in Sock, VerifyErrs(s) PROVE WireType'
  BY <1>0, <1>18 DEF VerifyErrs, ServerCloses, requests, WireType
<1>19. ASSUME NEW s \in Sock, AuthIsLate(s) PROVE WireType'
  BY <1>0, <1>19 DEF AuthIsLate, ServerCloses, requests, WireType
<1>20. ASSUME AckIsLate PROVE WireType'
  BY <1>0, <1>20 DEF AckIsLate, ClientCloses, requests, WireType
<1>21. CASE UNCHANGED vars
  BY <1>21 DEF vars, sockets, requests, WireType
<1>. QED
  BY <1>1, <1>2, <1>3, <1>4, <1>5, <1>6, <1>7, <1>8, <1>9, <1>10, <1>11, <1>12, <1>13,
     <1>14, <1>15, <1>16, <1>17, <1>18, <1>19, <1>20, <1>21
  DEF Next, Server, Client, DrainEnds, Crash

\* At first nothing is in flight.
LEMMA InitWireType == Init => WireType
<1>. SUFFICES ASSUME Init PROVE WireType
  OBVIOUS
<1>1. revoked \in BOOLEAN
  BY Zenon DEF Init
<1>2. <<>> \in Seq(Frames)
  OBVIOUS
<1>3. faults \in 0..MaxFaults
  BY RelayAssumption DEF Init
<1>. QED BY <1>1, <1>2, <1>3 DEF Init, WireType

\* Whatever is sent, replaced, torn down or lost, every variable keeps its type;
\* the tunnel is a socket that has not closed, and the client has a socket exactly
\* while it is not off.
THEOREM RelayTypeCorrect == Spec => []TypeOK
<1>1. TunnelInv /\ WireType => TypeOK
  BY DEF TunnelInv, TunnelType, WireType, TypeOK, ToSet
<1>2. Spec => []WireType
  BY InitWireType, StepWireType, TunnelAlways, PTL DEF Spec
<1>. QED BY <1>1, <1>2, TunnelAlways, PTL
=============================================================================

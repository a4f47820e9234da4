---------------------------- MODULE PtydHandoff -----------------------------
(***************************************************************************)
(* Upgrade of the PTY daemon (packages/ptyd/src/server.ts prepareUpgrade,  *)
(* adoptSnapshot, main.ts runHandoffReceiver): a serving daemon freezes    *)
(* its terminals, writes a snapshot of their rings, starts a successor     *)
(* that inherits the pty masters, and on its ack stops serving.            *)
(*                                                                         *)
(* A daemon process is a number: processes start in that order.  Every     *)
(* terminal's output is numbered units; the kernel holds the units no      *)
(* process has read.  A shell whose master no process holds open any more  *)
(* is hung up by the kernel.  An id is opened once (its incarnations are   *)
(* the subject of module Ptyd).                                            *)
(***************************************************************************)
EXTENDS Integers, FiniteSets

CONSTANTS Id,               (* terminals                                     *)
          N,                (* bound: daemon processes ever started          *)
          MaxOut,           (* bound: units one terminal prints              *)
          PauseStopsReads   (* TRUE: pausing a pty node-pty spawned stops    *)
                            (* the reads of its descriptor (external)        *)

ASSUME HandoffAssumption ==
  /\ N \in Nat \ {0} /\ MaxOut \in Nat
  /\ PauseStopsReads \in BOOLEAN

Proc == 1..N
Unit == 1..MaxOut

VARIABLES
  shell,      (* "none", "running", "exited", "killed" or "hungup"           *)
  made,       (* units the shell printed                                     *)
  taken,      (* units read off the kernel buffer, by whichever process      *)
  status,     (* of a process: see Status                                    *)
  parent,     (* the process that started it as a successor, 0 if none       *)
  child,      (* upgradeInFlight: its successor, 0 if none                   *)
  mail,       (* the IPC message from a successor to its parent              *)
  sessions,   (* its store                                                   *)
  fds,        (* masters it holds open                                       *)
  adopted,    (* sessions it got by adoptFromFd rather than spawnPty         *)
  frozen,     (* sessions it has paused                                      *)
  held,       (* sessions a congested client of it holds (pausedSessions)    *)
  ring,       (* units in its rings                                          *)
  stream,     (* units read into a paused stream and not delivered           *)
  captured,   (* sessions in the snapshot it was started with                *)
  linger,     (* on macOS: the old process stays alive                       *)
  thawed,     (* history: captured sessions resumePaused resumed all the same*)
  leaked,     (* history: units read from a thawed, or past a paused, stream *)
  spoiled,    (* history: units read by successors whose handoff failed      *)
  late,       (* history: ids opened while a handoff awaited its ack         *)
  crashed,    (* history: some process crashed                               *)
  deaf        (* history: predecessors that missed their successor's exit    *)

termVars == <<shell, made, taken>>
procVars == <<status, parent, child, mail, captured>>
sessVars == <<sessions, fds, adopted, frozen, held, ring, stream>>
histVars == <<thawed, leaked, spoiled, late, crashed>>
lingerVars == <<linger, deaf>>
vars     == <<lingerVars, termVars, procVars, sessVars, histVars>>

\* off: not started.  boot: successor before adoptSnapshot.  waiting: a
\* predecessor in waitForHandoffAck.  acked: a successor that adopted and
\* awaits the socket.  handedOff, closed: a predecessor after the ack, and
\* after close() destroyed its connections.
Status == {"off", "boot", "acked", "serving", "waiting", "handedOff", "closed", "dead"}

\* Processes whose event loop serves ptys.
Up == {"acked", "serving", "waiting", "handedOff", "closed"}

Init ==
  /\ shell = [i \in Id |-> "none"]
  /\ made = [i \in Id |-> 0]
  /\ taken = [i \in Id |-> 0]
  /\ status = [p \in Proc |-> IF p = 1 THEN "serving" ELSE "off"]
  /\ parent = [p \in Proc |-> 0]
  /\ child = [p \in Proc |-> 0]
  /\ mail = [p \in Proc |-> "none"]
  /\ sessions = [p \in Proc |-> {}]
  /\ fds = [p \in Proc |-> {}]
  /\ adopted = [p \in Proc |-> {}]
  /\ frozen = [p \in Proc |-> {}]
  /\ held = [p \in Proc |-> {}]
  /\ ring = [p \in Proc |-> [i \in Id |-> {}]]
  /\ stream = [p \in Proc |-> [i \in Id |-> {}]]
  /\ captured = [p \in Proc |-> {}]
  /\ linger \in BOOLEAN
  /\ thawed = [p \in Proc |-> {}]
  /\ leaked = [i \in Id |-> {}]
  /\ spoiled = [i \in Id |-> {}]
  /\ late = {}
  /\ crashed = FALSE
  /\ deaf = {}
-----------------------------------------------------------------------------
(* Pausing and resuming.                                                     *)

\* resume() of the ptys in S: what the paused streams held is delivered.
Resume(p, S) ==
  /\ frozen' = [frozen EXCEPT ![p] = @ \ S]
  /\ ring' = [ring EXCEPT ![p] = [i \in Id |->
                IF i \in S THEN @[i] \cup stream[p][i] ELSE @[i]]]
  /\ stream' = [stream EXCEPT ![p] = [i \in Id |-> IF i \in S THEN {} ELSE @[i]]]

\* The kernel hangs up a running shell whose master nobody holds open.
HangUp(open) ==
  [i \in Id |-> IF shell[i] = "running" /\ \A p \in Proc : i \notin open[p]
                THEN "hungup" ELSE shell[i]]

\* Process p is gone: its descriptors close.
Gone(p) ==
  /\ fds' = [fds EXCEPT ![p] = {}]
  /\ sessions' = [sessions EXCEPT ![p] = {}]
  /\ held' = [held EXCEPT ![p] = {}]
-----------------------------------------------------------------------------
(* Terminals and clients.                                                    *)

\* A client opens a terminal: refused only once the successor has acked.
Open(p, i) ==
  /\ status[p] \in {"serving", "waiting"}
  /\ shell[i] = "none"
  /\ shell' = [shell EXCEPT ![i] = "running"]
  /\ sessions' = [sessions EXCEPT ![p] = @ \cup {i}]
  /\ fds' = [fds EXCEPT ![p] = @ \cup {i}]
  /\ late' = IF status[p] = "waiting" THEN late \cup {i} ELSE late
  /\ UNCHANGED <<lingerVars, made, taken, procVars, adopted, frozen, held, ring, stream,
                 thawed, leaked, spoiled, crashed>>

Produce(i) ==
  /\ shell[i] = "running"
  /\ made[i] < MaxOut
  /\ made' = [made EXCEPT ![i] = @ + 1]
  /\ UNCHANGED <<lingerVars, shell, taken, procVars, sessVars, histVars>>

\* Mutant of Unread: the end of the input is taken for a unit.
UnreadAtEnd(i) == taken[i] <= made[i]

Unread(i) == taken[i] < made[i]

\* A process reads, and serves, the next unit; its clients may be congested.
Read(p, i) ==
  /\ status[p] \in Up
  /\ i \in fds[p] \cap sessions[p]
  /\ i \notin frozen[p]
  /\ Unread(i)
  /\ taken' = [taken EXCEPT ![i] = @ + 1]
  /\ ring' = [ring EXCEPT ![p][i] = @ \cup {taken[i] + 1}]
  /\ \/ UNCHANGED <<frozen, held>>
     \/ /\ status[p] \in {"serving", "waiting"}
        /\ frozen' = [frozen EXCEPT ![p] = @ \cup {i}]
        /\ held' = [held EXCEPT ![p] = @ \cup {i}]
  /\ leaked' = IF i \in thawed[p] THEN [leaked EXCEPT ![i] = @ \cup {taken[i] + 1}]
                                  ELSE leaked
  /\ UNCHANGED <<lingerVars, shell, made, procVars, sessions, fds, adopted, stream,
                 thawed, spoiled, late, crashed>>

\* A paused stream over a spawned pty goes on filling its buffer.
ReadWhilePaused(p, i) ==
  /\ ~PauseStopsReads
  /\ status[p] \in Up
  /\ i \in fds[p] \cap frozen[p]
  /\ i \notin adopted[p]
  /\ stream[p][i] = {}
  /\ Unread(i)
  /\ taken' = [taken EXCEPT ![i] = @ + 1]
  /\ stream' = [stream EXCEPT ![p][i] = {taken[i] + 1}]
  /\ leaked' = [leaked EXCEPT ![i] = @ \cup {taken[i] + 1}]
  /\ UNCHANGED <<lingerVars, shell, made, procVars, sessions, fds, adopted, frozen, held,
                 ring, thawed, spoiled, late, crashed>>

\* resumePaused for the connections of p: it does not ask whether a handoff
\* froze the session too.
ResumePaused(p) ==
  /\ held' = [held EXCEPT ![p] = {}]
  /\ Resume(p, held[p])
  /\ thawed' = IF child[p] = 0 THEN thawed
               ELSE [thawed EXCEPT ![p] = @ \cup (held[p] \cap captured[child[p]])]

\* 'drain' or the loss of the congested connection.
DrainConn(p) ==
  /\ status[p] \in {"serving", "waiting", "handedOff"}
  /\ held[p] # {}
  /\ ResumePaused(p)
  /\ UNCHANGED <<lingerVars, termVars, procVars, sessions, fds, adopted,
                 leaked, spoiled, late, crashed>>

ShellExit(i) ==
  /\ shell[i] = "running"
  /\ shell' = [shell EXCEPT ![i] = "exited"]
  /\ UNCHANGED <<lingerVars, made, taken, procVars, sessVars, histVars>>

\* onExit: waitpid for a spawned pty; EOF or the liveness poll for an adopted.
NoticeExit(p, i) ==
  /\ status[p] \in Up
  /\ i \in sessions[p] \cap fds[p]
  /\ shell[i] # "running"
  /\ sessions' = [sessions EXCEPT ![p] = @ \ {i}]
  /\ fds' = [fds EXCEPT ![p] = @ \ {i}]
  /\ frozen' = [frozen EXCEPT ![p] = @ \ {i}]
  /\ held' = [held EXCEPT ![p] = @ \ {i}]
  /\ UNCHANGED <<lingerVars, termVars, procVars, adopted, ring, stream, histVars>>
-----------------------------------------------------------------------------
(* The handoff, predecessor side.                                            *)

\* Mutant of MayPrepare: no upgradeInFlight latch.
MayPrepareUnlatched(p) == status[p] \in {"serving", "waiting"}

\* prepareUpgrade: a request that finds one in flight only joins its promise.
MayPrepare(p) == status[p] = "serving" /\ child[p] = 0

\* Mutant of Frozen: the streams are left flowing during the handoff.
FrozenNone(p) == frozen[p]

\* What is paused once doPrepareUpgrade froze every live session.
Frozen(p) == frozen[p] \cup sessions[p]

\* Mutant of Inherited: only masters this process opened itself are passed on.
InheritedSpawned(p) == (fds[p] \cap sessions[p]) \ adopted[p]

\* The masters a successor inherits (stdio of the spawn).
Inherited(p) == fds[p] \cap sessions[p]

\* doPrepareUpgrade up to the await: collect descriptors, freeze, snapshot,
\* start the successor c, which inherits the masters.
Prepare(p, c) ==
  /\ MayPrepare(p)
  /\ status[c] = "off" /\ \A q \in Proc : q < c => status[q] # "off"
  /\ status' = [status EXCEPT ![p] = "waiting", ![c] = "boot"]
  /\ parent' = [parent EXCEPT ![c] = p]
  /\ child' = [child EXCEPT ![p] = c]
  /\ captured' = [captured EXCEPT ![c] = sessions[p]]
  /\ fds' = [fds EXCEPT ![c] = Inherited(p)]
  /\ frozen' = [frozen EXCEPT ![p] = Frozen(p)]
  /\ ring' = [ring EXCEPT ![c] = [i \in Id |->
                IF i \in sessions[p] THEN ring[p][i] ELSE {}]]
  /\ UNCHANGED <<lingerVars, termVars, mail, sessions, adopted, held, stream, histVars>>

\* ... or it fails on the way (descriptors, snapshot file, spawn): resumeAll.
PrepareFails(p) ==
  /\ MayPrepare(p)
  /\ frozen[p] # {}
  /\ Resume(p, sessions[p])
  /\ UNCHANGED <<lingerVars, termVars, procVars, sessions, fds, adopted, held, histVars>>

\* Mutant of Rollback: the successor is killed but the ptys stay paused.
RollbackFrozen(p) == UNCHANGED <<frozen, ring, stream>>

\* resumeAll: the freeze lifts for every session captured at the start.
Rollback(p) == Resume(p, captured[child[p]] \cap sessions[p])

\* The wait may end without an ack at any time.
GivesUp(p) == status[p] = "waiting"

\* Nak, the successor's exit or disconnect, or the 5 s timeout, whichever
\* comes first: SIGKILL the successor, resume, serve on.
FailHandoff(p) ==
  LET c == child[p]
  IN  /\ GivesUp(p)
      /\ status' = [status EXCEPT ![p] = "serving", ![c] = "dead"]
      /\ child' = [child EXCEPT ![p] = 0]
      /\ spoiled' = [i \in Id |-> spoiled[i] \cup (ring[c][i] \ ring[p][i])]
      /\ Rollback(p)
      /\ Gone(c)
      /\ thawed' = [thawed EXCEPT ![p] = {}]
      /\ UNCHANGED <<lingerVars, termVars, parent, mail, captured, adopted, leaked, late,
                     crashed>>

\* The ack arrives: handedOff, the listener closes, copies of masters this
\* process had itself adopted are released (closeLocal).
Commit(p) ==
  LET open == [fds EXCEPT ![p] = @ \ (captured[child[p]] \cap adopted[p])]
  IN  /\ status[p] = "waiting"
      /\ mail[child[p]] = "ack"
      /\ status' = [status EXCEPT ![p] = "handedOff"]
      /\ fds' = open
      /\ shell' = HangUp(open)
      /\ UNCHANGED <<lingerVars, made, taken, parent, child, mail, captured, sessions, adopted,
                     frozen, held, ring, stream, histVars>>

\* linger() attaches its exit listener when close() has ended, long after
\* waitForHandoffAck took its own away: the exit of a successor that is dead
\* by then may have been emitted already, with nobody listening.
Listen(p) ==
  \/ UNCHANGED deaf
  \/ linger /\ status[child[p]] = "dead" /\ deaf' = deaf \cup {p}

\* finalizeHandoff: close() destroys the connections, each one's close event
\* runs resumePaused, and linger() listens.
CloseConns(p) ==
  /\ status[p] = "handedOff"
  /\ status' = [status EXCEPT ![p] = "closed"]
  /\ ResumePaused(p)
  /\ Listen(p)
  /\ UNCHANGED <<linger, termVars, parent, child, mail, captured, sessions, fds, adopted,
                 leaked, spoiled, late, crashed>>

\* The old process exits: at once or, lingering, when it learns that its
\* successor did.
ExitOld(p) ==
  /\ status[p] = "closed"
  /\ ~linger \/ (status[child[p]] = "dead" /\ p \notin deaf)
  /\ status' = [status EXCEPT ![p] = "dead"]
  /\ Gone(p)
  /\ shell' = HangUp(fds')
  /\ UNCHANGED <<lingerVars, made, taken, parent, child, mail, captured, adopted, frozen,
                 ring, stream, histVars>>

\* Mutant of Kills: SIGTERM kills whatever the store holds.
KillsAlways(p) == sessions[p]

\* close({killSessions}): handedOff overrides the argument.
Kills(p) == IF status[p] \in {"handedOff", "closed"} THEN {} ELSE sessions[p]

\* SIGTERM or SIGINT; a lingering predecessor forwards it to its successor
\* (forwardSignalToSuccessor), save one that has exited.
Shutdown(p) ==
  /\ status[p] \in {"serving", "waiting", "handedOff", "closed"}
  /\ linger /\ status[p] \in {"handedOff", "closed"} => status[child[p]] = "dead"
  /\ status' = [status EXCEPT ![p] = "dead"]
  /\ Gone(p)
  /\ shell' = [i \in Id |-> IF shell[i] = "running" /\ i \in Kills(p)
                            THEN "killed" ELSE HangUp(fds')[i]]
  /\ UNCHANGED <<lingerVars, made, taken, parent, child, mail, captured, adopted, frozen,
                 ring, stream, histVars>>
-----------------------------------------------------------------------------
(* The handoff, successor side.                                              *)

\* readSnapshot and adoptSnapshot succeed; reading starts; the ack is sent.
Adopt(c) ==
  /\ status[c] = "boot"
  /\ status' = [status EXCEPT ![c] = "acked"]
  /\ sessions' = [sessions EXCEPT ![c] = captured[c]]
  /\ adopted' = [adopted EXCEPT ![c] = captured[c]]
  /\ mail' = [mail EXCEPT ![c] = "ack"]
  /\ UNCHANGED <<lingerVars, termVars, parent, child, captured, fds, frozen, held, ring, stream,
                 histVars>>

\* ... or one of them fails: copies released, nak, exit.
Nak(c) ==
  /\ status[c] = "boot"
  /\ status' = [status EXCEPT ![c] = "dead"]
  /\ mail' = [mail EXCEPT ![c] = "nak"]
  /\ Gone(c)
  /\ shell' = HangUp(fds')
  /\ UNCHANGED <<lingerVars, made, taken, parent, child, captured, adopted, frozen, ring,
                 stream, histVars>>

\* The listener is released, or the parent is gone: bind and serve.
Bind(c) ==
  /\ status[c] = "acked"
  /\ status[parent[c]] \in {"handedOff", "closed", "dead"}
  /\ status' = [status EXCEPT ![c] = "serving"]
  /\ UNCHANGED <<lingerVars, termVars, parent, child, mail, captured, sessVars, histVars>>

\* A process dies on its own.
Crash(p) ==
  /\ status[p] \in Up \cup {"boot"}
  /\ status' = [status EXCEPT ![p] = "dead"]
  /\ crashed' = TRUE
  /\ Gone(p)
  /\ shell' = HangUp(fds')
  /\ UNCHANGED <<lingerVars, made, taken, parent, child, mail, captured, adopted, frozen,
                 ring, stream, thawed, leaked, spoiled, late>>
-----------------------------------------------------------------------------
Next ==
  \/ \E p \in Proc, i \in Id : \/ Open(p, i) \/ Read(p, i)
                               \/ ReadWhilePaused(p, i) \/ NoticeExit(p, i)
  \/ \E i \in Id : Produce(i) \/ ShellExit(i)
  \/ \E p, c \in Proc : Prepare(p, c)
  \/ \E p \in Proc : \/ DrainConn(p) \/ PrepareFails(p)
                     \/ FailHandoff(p) \/ Commit(p)
                     \/ CloseConns(p) \/ ExitOld(p) \/ Shutdown(p)
                     \/ Adopt(p) \/ Nak(p) \/ Bind(p) \/ Crash(p)

Spec == Init /\ [][Next]_vars

(* Timers fire, the event loop turns, and a live process reads its ptys.     *)
Fairness ==
  /\ \A p \in Proc :
       /\ WF_vars(FailHandoff(p) \/ Commit(p))
       /\ WF_vars(CloseConns(p)) /\ WF_vars(ExitOld(p)) /\ WF_vars(DrainConn(p))
       /\ WF_vars(Adopt(p) \/ Nak(p)) /\ WF_vars(Bind(p))
  /\ \A p \in Proc, i \in Id : WF_vars(Read(p, i)) /\ WF_vars(NoticeExit(p, i))

FairSpec == Spec /\ Fairness
-----------------------------------------------------------------------------
TypeOK ==
  /\ shell \in [Id -> {"none", "running", "exited", "killed", "hungup"}]
  /\ made \in [Id -> 0..MaxOut]
  /\ taken \in [Id -> 0..MaxOut] /\ \A i \in Id : taken[i] <= made[i]
  /\ status \in [Proc -> Status]
  /\ parent \in [Proc -> 0..N] /\ child \in [Proc -> 0..N]
  /\ mail \in [Proc -> {"none", "ack", "nak"}]
  /\ linger \in BOOLEAN
  /\ {sessions, fds, adopted, frozen, held, captured, thawed} \subseteq [Proc -> SUBSET Id]
  /\ {ring, stream} \subseteq [Proc -> [Id -> SUBSET Unit]]
  /\ {leaked, spoiled} \subseteq [Id -> SUBSET Unit]
  /\ late \in SUBSET Id /\ crashed \in BOOLEAN /\ deaf \in SUBSET Proc

Reads(p, i) == /\ status[p] \in Up
               /\ i \in (fds[p] \cap sessions[p]) \ frozen[p]

(* No two processes read the same terminal: a byte read by the wrong one is  *)
(* lost to the other ("split-brain", server.ts:396, 521).  The exception is a *)
(* terminal that resumePaused thawed in the course of the handoff.           *)
OneReader ==
  \A i \in Id : \A p, q \in Proc :
    Reads(p, i) /\ Reads(q, i) => p = q \/ i \in thawed[p] \cup thawed[q]

(* The units of terminal i that process p cannot show.                       *)
Missing(p, i) == (1..taken[i]) \ (ring[p][i] \cup stream[p][i])

(* A daemon that serves a terminal has every byte read from it so far, save  *)
(* those a successor read before its handoff failed and those that leaked:   *)
(* read after a thaw, or into a paused stream.                               *)
NoGap ==
  \A p \in Proc : \A i \in sessions[p] :
    status[p] = "serving" /\ shell[i] = "running"
      => Missing(p, i) \subseteq spoiled[i] \cup leaked[i]

(* Without a crash, a handoff, failed or not, hangs up no terminal it        *)
(* captured: the only ones lost are those opened while it awaited the ack.   *)
CapturedSurvive == \A i \in Id : shell[i] = "hungup" => i \in late \/ crashed

(* A stop signal that lands in the wind-down kills none of the sessions the  *)
(* successor serves (server.ts:120).                                         *)
WindDownKillsNothing ==
  [][\A p \in Proc : status[p] \in {"handedOff", "closed"} /\ status'[p] = "dead" =>
       \A i \in Id : shell'[i] = "killed" => shell[i] = "killed"]_vars

(* A serving daemon has every unit terminal i printed, save spoiled and      *)
(* leaked ones (see NoGap).                                                  *)
Shown(i) ==
  /\ taken[i] = made[i]
  /\ \E p \in Proc : /\ status[p] = "serving" /\ i \in sessions[p]
                    /\ Missing(p, i) \cup stream[p][i] \subseteq spoiled[i] \cup leaked[i]

(* Terminal i was handed to a successor whose exit its predecessor missed:   *)
(* that one, and those that linger for it, hold the master for ever.         *)
Stranded(i) == \E p \in deaf : status[p] = "closed" /\ i \in captured[child[p]]

(* Every byte a running terminal prints reaches the ring of a daemon that    *)
(* serves it in the end: no freeze is left behind by a handoff that failed,  *)
(* or that succeeded, or by a successor's death, unless the predecessor      *)
(* missed it (linger, server.ts:591).  Terminals opened while a handoff      *)
(* awaited its ack are not the successor's.                                  *)
OutputIsRead ==
  \A i \in Id :
    []<>(Shown(i) \/ shell[i] # "running" \/ i \in late \/ Stranded(i))
=============================================================================

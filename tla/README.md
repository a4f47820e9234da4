# Strado in TLA+

A verification project for Strado: specifications of its concurrent core, the
TLC runs that check them on small instances, and theorems about them that TLAPS
checks. Paths are relative to the root of the repository; "server.ts" alone is
`packages/ptyd/src/server.ts`, "manager.ts" and "client.ts" alone are in
`packages/server/src/services/ptyDaemon/`, the intercom's files are in
`packages/server/src/services/`, and the relay's are named with their package.

## 1. The system

Strado runs coding agents in terminals, one or more per git worktree, behind a
Node server and a browser (or Electron) user interface. Terminals must outlive
all of it, so they live in a daemon of their own, the PTY daemon *ptyd*, which
even upgrades itself without ending a shell. Agents talk to each other through
an intercom kept in SQLite, and a remote host can be reached through a relay.

```
 browser --HTTP/WS--> server --unix socket--> ptyd --pty masters--> shells
    |                   |  \                   |                      |
    |                   |   SQLite             +--> successor ptyd    | hooks, tools
    |                   +<---------------- HTTP ----------------------+
    +--> relay <--WS-- runner (remote host: the same server and ptyd)
```

### 1.1 Components

For each component: the state it keeps, its operations, what is hard, what makes
it correct. The last column says where it stands; `PROJECT.json` lists every
component with its sources.

| Component | State | Operations | Hard part | Correct when | Module |
|---|---|---|---|---|---|
| **ptyd session ring** (`ptyd/src/store.ts`) | chunks and a byte count per session | append, replay | trimming by whole chunks, then a cut of the head | a replay is exactly the newest *cap* bytes | `SessionRing` |
| **ptyd serving** (`ptyd/src/server.ts`) | sessions, connections, subscriptions, holds, queued replays | hello, open, subscribe, unsubscribe, output, drain, drop, exit | a shared pause bit, `drain` events, several clients | no terminal freezes, no subscriber misses output | `Ptyd` |
| **ptyd handoff** (`server.ts`, `main.ts`, `snapshot.ts`, `pty.ts`) | two processes over the same masters | prepare, snapshot, fork, adopt, ack or nak, close, linger, bind | crashes and timers at every step, two readers of one pty | one reader, nothing lost, no shell hung up | `PtydHandoff` |
| **ptyd socket path** (`server.ts` listen, `main.ts`) | a socket file, a listener | probe, unlink, bind, retry | several processes and no lock | one daemon serves the path | planned |
| **ptyd protocol** (`protocol.ts`) | a reassembly buffer | push, drain | chunk borders | frames in, frames out | planned |
| **pty backends** (`pty.ts`) | write queue, kill timer | write, resize, kill, pause | partial writes, pid reuse | ordered writes, one exit | |
| **server pty client** (`client.ts`) | the current socket, pending opens, lists, upgrades | connect, open, list, subscribe | superseded sockets, requests outliving their connection | every promise settles | `PtydManager` |
| **server terminal manager** (`manager.ts`) | mirrors of sessions, `connected`, the reconnect loop, in-flight opens | boot, ensure, resync, reconnect, upgrade | callbacks against continuations, drops in the middle of a resync | a mirror tells the truth in the end | `PtydManager` |
| **ptyd supervisor** (`supervisor.ts`, `launchd.ts`) | manifest, helper copies on disk | spawn or adopt, install, prune | crash between two file operations | a half-installed copy is never run | |
| **intercom store** (`intercomStore.ts`) | messages, escalations, tasks in SQLite | send, peek, claim, pull, confirm, ack, sweep; ask, resolve, dismiss, retarget, poll; create, claim, release, done | redelivery, expiry, late confirmations and answers | a settled message was shown, a question ends once, a dead tab claims nothing | `Intercom`, `AgentTasks` |
| **intercom push** (`intercomPush.ts`, `tabOps.ts`) | per tab: marker, head, retry chain, pending Enter | attempt, defer, nudge, Enter, first prompt | timers and lookups against a person, an agent and its turns | mail is told, nobody's line is submitted, no agent is woken for ever | `IntercomPush` |
| **agents** (`agentRegistry.ts`, `agentSpawn.ts`, `spawnGuard.ts`) | executions in memory, a mirror on disk | register, release, reconcile, spawn | writes in the middle of jobs, exits while opening, crashes | a running tab is known, a dead one forgotten | `AgentTasks` |
| **relay** (`relay/src/server.ts`, `client.ts`) | tunnels, pending requests, channels; streams at the runner | register, replace, proxy, abort, ping, drain | frames of replaced sockets, timers against answers, silent links | a request ends, the runner stops, the tunnel comes back | `RelayTunnel` |
| **runner** (`packages/runner`) | installed versions, a service | supervise, self-update | crash between switch and restart | a bad update is rolled back | |
| **jarvis** (`jarvisChat/`) | chats, wakes, approvals | turn, wake, approve | wakes against a running turn | one turn per chat, no wake lost | planned |
| **sandboxes** (`sandbox/`) | containers, parked ones | provision, park, wake | parking a sandbox just woken | a used sandbox is not parked | planned |
| **processes, jobs, forwards, language servers** | tables of children | start, stop, reattach | restarts of the server | one runner per job | |
| **configuration, logins, files, tickets, routes, web, desktop** | little shared mutable state | request handlers, views | mostly I/O | out of scope | |

### 1.2 How they interact

- The server holds one connection to ptyd. A terminal is a *session* of ptyd and
  a *mirror* of the manager. Frames on one connection are ordered; nothing else
  is. When the connection drops, the manager re-dials and resyncs its mirrors
  from a list.
- In ptyd every handler runs to completion on Node's event loop. In the server
  the handlers of one chunk of frames run before the promises they settled go
  on, which is where mirrors go wrong (section 5).
- A ptyd and its successor share pty masters (inherited descriptors), a snapshot
  file and one IPC message. The kernel buffers what nobody reads, and hangs up a
  shell whose last master is closed.
- An agent's process reads its inbox in two ways: the prompt hook of its harness
  (peek, claim, print, confirm, and the Stop hook's acknowledgement) and the
  tools of its MCP server (pull, acknowledge, return). Both are clients over
  HTTP that may die between any two steps.
- The registry tells the intercom of dropped executions (`onDropped` in
  `app.ts`): their questions go to the human, their claims are released. The
  store tells the pusher of queued messages; the status routes tell it of turns.
- The relay and the runner's client share control sockets, on which requests of
  browsers are multiplexed. A new socket replaces the old one.

## 2. The modules

| Module | Models | Style |
|---|---|---|
| `ByteWindow` | what the ring promises: the newest *cap* bytes | abstract specification |
| `SessionRing` | `SessionStore.appendOutput`, `replay` | algorithm, refines `ByteWindow` |
| `RingProofs` | theorems about `SessionRing` | proofs |
| `Ptyd` | the serving half of ptyd | state machine |
| `PtydProofs` | theorems about `Ptyd` | proofs |
| `PtydHandoff` | the upgrade of ptyd | state machine over processes |
| `HandoffProofs` | theorems about `PtydHandoff` | proofs |
| `PtydManager` | the server's terminal manager and client | state machine over awaiting actors |
| `ManagerProofs` | theorems about `PtydManager` | proofs |
| `Intercom` | messages and escalations, with their clients | one transaction, one action |
| `IntercomProofs` | theorems about `Intercom` | proofs |
| `AgentTasks` | the agent registry and the tasks its executions claim | a queue of jobs over a durable mirror |
| `TasksProofs` | theorems about `AgentTasks` | proofs |
| `IntercomPush` | push delivery into one tab | timers, a clock, one awaited lookup |
| `PushProofs` | theorems about `IntercomPush` | proofs |
| `RelayTunnel` | a runner's tunnel through the relay | two ends of several sockets |
| `RelayProofs` | theorems about `RelayTunnel` | proofs |
| `MC...` | instances for TLC | constants, symmetry |

`PROJECT.json` maps every definition to its lines. The main correspondences:

**SessionRing.** A chunk is a sequence of bytes, of two values in the run.
`AppendOutput(c)` pushes a chunk and trims as the `while` loop of `appendOutput`
does: `TrimHead` is the loop's body, which drops the oldest chunk or cuts it, and
`Trim` the loop, a recursive function from the number of turns to the ring after
them. `RingImplementsWindow` is the refinement: the replay equals `ByteWindow`'s
window after every step.

**Ptyd.** Variables carry the names of the fields (`conns`, `subscriptions`,
`pausedSessions`, `pendingReplays`); `paused` is the state of the ptys, `needDrain`
the sockets that owe a `drain` event. One action per handler: `Accept`, `Hello`,
`Drop`, `Open`, `SubscribeReplay`, `SubscribeLive`, `Unsubscribe`, `Output`,
`Exit`, `Drain`, and `Transmit` for the kernel. Output is a count of *units*, one
per read. An id may be opened again after its exit; `inc` numbers the
incarnations. `promised` and `written` are history: what a subscription is owed
and what was written for it. `input`, `resize`, `close` and `list` change no
state of the daemon and have no action.

**PtydHandoff.** A process is a number, in the order of starts. `Prepare` is the
snapshot, the freeze and the fork of `doPrepareUpgrade`; `Adopt` and `Nak` the
successor's boot; `Commit` and `FailHandoff` the two ends of
`waitForHandoffAck`, the second also by its 5 s timer or by the successor's
death; `CloseConns`, `ExitOld` and `Bind` the release of the socket; `Shutdown`
a stop signal at any moment; `Crash` the death of any process. `linger` is the
macOS behaviour (the old process stays, as the responsible process of its
shells) and may be either. A lingering process listens for its successor's exit
from the end of `CloseConns` on only: of one that is dead by then it may never
hear (`Listen`, `deaf`), and then it does not exit. `HangUp` is the kernel's: a running shell without an
open master is hung up. The constant `PauseStopsReads` is about node-pty, which
is external: whether pausing a spawned pty stops its descriptor's reads. The
comment at `pty.ts:290-293` says a paused stream still reads, so the run takes
FALSE.

**PtydManager.** What awaits the daemon is an *actor*: the boot, the reconnect
loop, and the `ensure()` of each key. `step` is what it awaits. A promise settled
by a frame moves its actor to a step in `Due`; those continuations run before
anything but further frames (`Idle` guards everything else), as Node runs
microtasks after the handler of a chunk. `Receive` is `handleMessage`; `Gone` is
`onGone` with `failAllPending` and the disconnect callback; `Greeted` and `Adopt`
are `resync`, `YieldEvery` sessions at a time (8 in the code); `Retry` is the end
of a back-off and, at the last, `markAllExited`; `Ensure`, `Joined`, `Rearmed`
and `Opened` are the parts of `ensure()` between its awaits. The daemon is
reduced to its live sessions and its answers.

**Intercom.** `msgs` and `escs` are the two tables, oldest first; a row's `mine`
says that it was delivered to the execution its agent has now, which is what
`delivered_to_execution` is compared with. Every store operation is one SQLite
transaction and one action. `hook` and `tool` are the clients: `Peek` and `Claim`
are the hook route before and after its await, `Write` and `Confirm` the hook's
print and its second request, `Stop` the `ackAll` of the Stop hook; `Pull`,
`InboxAck` and `Return` are the inbox tool. `HookDies` and `ToolDies` end a
client anywhere, and a restart of the server is the loss of its requests. The
deadlines are actions (`RedeliveryDue`, `AskLapses`, `MessageLapses`), so that a
message expires, or is delivered again, at any moment; `Sweep` is the hourly
one. `TabDies` is the drop of an execution with `onDropped`; `DropUnnoticed` is
the same without it, by a crash of the server in between. `seen` is history: what
was shown to the agent's current execution.

**AgentTasks.** The registry's map (`execs`), its file (`disk`) and its queue.
`StartJob` runs a job up to its write, `Rename` makes the write durable, `Finish`
is what follows (the notification of drops, and with it `releaseClaimsOf`);
`WriteFails` and `Crash` come anywhere. `attach` is a tab being opened: `Attach`
queues the registration, `Ensure` starts the process with the execution of that
moment (`envFor`) unless one runs already. `Boot` loads the mirror and queues
`reconcile`. A token is a number that nothing of its key bears (`Fresh`): `randomUUID` never
returns a used one, and only used ones are told apart.

**IntercomPush.** One tab, since tabs share nothing but a counter of turns that
is compared per tab. `looks` are the attempts that await `deps.agents.list`;
the decision after it (`Skip`, `Defer`, `Nudge`) is one step, in the order of the
code's gates. `Retry` and `FireEnter` are the timers, `Tick` the clock, which
waits for what is due. The environment is the tab's program (`Launch`, `Ready`,
`PostWorking`, `PostDone`, `Output`, `Exit`), its person (`Type`, `HumanEnter`,
`Interrupt`) and the inbox. `mode` is Claude, whose hooks post its status, or an
agent without hooks, whose status is inferred. `TypePrompt` and `ConfirmPrompt`
are the first prompt of a spawned tab, which writes past the inbox's gates.

**RelayTunnel.** A control socket is two queues of frames and an end at each
side (`srv`, `cli`); a close is a frame, so that what was sent before it still
arrives. `Hello` and `Register` are the two sides of the relay's await of the
auth backend; `Replaced`, `Unregistered` and `Disposed` are `register`,
`unregister` and `dispose`. `ServerGets` looks a frame up in the runner's
tunnel whichever socket it came on, as `handleRunnerMessage` does. A request of a
browser goes through `Ask`, `Send` or `Refuse` (after its own await), and ends by
a frame, `Leave`, `HeadTimeout` or a disposal. `Gone` is the client's `onGone`
with its teardown. `Expire` and `Silence` are the timers of the two sides, which
fire only on a link that is dead (or revoked); `ServerCloseTimeout` and
`ClientCloseTimeout` are the WebSocket library's. `VerifyErrs`, `AuthIsLate` and
`AckIsLate` are an error of the auth backend and the two deadlines of a hello on a
live link, which count among the faults.

### 2.1 History variables in properties

Some properties hold only while the code avoids a situation that it does not in
fact exclude. Rather than switch the situation off, the model lets it happen,
records it in a history variable, and the property exempts exactly that record:

- `PtydHandoff`: `thawed`, `leaked`, `spoiled`, `late`, `crashed`, and `deaf` (the
  predecessors that missed their successor's exit).
- `PtydManager`: `overtaken`, `late`, `collided`, `yieldDrop`.
- `AgentTasks`: `leaked` (executions dropped without their notification),
  `strayed` (a tab that exited while it was being opened, or whose registration
  was not written), `stale` (the file is behind the map).
- `RelayTunnel`: `cause` tells a browser that left before its request was sent
  ("early"), and a head that timed out, from one that left afterwards.

`seen` of `Intercom`, `owed` and `fresh` of `IntercomPush` and `via` of
`RelayTunnel` are history too, but exempt nothing: properties are stated with
them. Section 5 says what each exemption is in the code.

## 3. The runs

| Run | Instance | Shows |
|---|---|---|
| `ring` | caps and chunks that fit, cut, drop several, exceed | the ring is the window |
| `clients` | 1 session opened twice, 2 connections | flow control, drains and replays with a shared terminal; every paused terminal resumes |
| `handoff` | 1 terminal, 3 processes | a handoff of adopted masters, or a retry after a failure, with every fault; output reaches a serving daemon |
| `manager` | 2 keys, 3 connections, 2 opens | what the mirrors say after any drops |
| `manager_live` | 2 keys, 3 connections, 1 open | ends are learned, opens settle |
| `intercom` | 2 tabs (one with hooks), 2 messages, 1 question | who is handed a message, and what settles it |
| `intercom_ask` | 2 tabs, 3 messages, 1 question | how a question ends |
| `tasks` | 1 tab, 2 tasks in order | executions, tokens and claims over exits, crashes and failed writes |
| `push` | 1 tab of either kind, 2 messages, 2 launches | nudges, Enters and retries against a person and an agent |
| `relay` | 2 sockets, 1 request, 1 channel, 1 fault | tunnels, requests and what the runner does for them |
| `manager_collide`, `push_boot` | the same | the findings of section 5 |

### 3.1 Safety

- *ptyd.* `PausedIffHeld`: a pty is paused exactly while some live connection
  holds it, whichever way holds end. `WaitersAreOwedDrain`: a connection that
  holds a pty, or has a replay queued, is owed a `drain` event. `NoHole`: from the
  oldest unit its replay promised, a subscriber has every unit, written or queued.
- *handoff.* `OneReader`, `NoGap`, `CapturedSurvive`, `WindDownKillsNothing`: at
  most one process reads a terminal, whoever serves it has all that was read, no
  captured shell is hung up, and a signal during the wind-down kills none.
- *manager.* `RunningIsLive`, `NoOrphan`: attached to the daemon, what the server
  shows as running is running (or its exit is on the way), and nothing live is
  missing. `NoFalseExit`: no session is declared exited while it lives, unless
  the loop gives up.
- *intercom.* `SettledByReader`: no late Stop, confirmation or acknowledgement
  settles a message that its recipient's current execution was never shown.
  `HandedOutOnce`: the hook's peek-then-claim and the tool's pull never hand out
  the same message within the redelivery time. `OpenAskIsUnanswered`: no reply is
  accepted without settling the question it answers. `LateReplyIsPlain`: once a
  question is the human's, only the human settles it.
- *tasks.* `ClaimIsHeld`: a claimed task's execution is registered, or its
  notification is under way. `RunningIsKnown`: a running process' token is the
  registered one, whatever the order of exits, openings, crashes and boots.
- *push.* `NoTextIntoATurn`: nothing is typed into a turn the server knows of,
  however long the lookup took. `EnterFollowsItsText`: a deferred Enter submits
  only the text it was written for.
- *relay.* `RegisteredIsTunnel`: a runner that believes it is connected is
  reachable. `WaitsOnTheTunnel`: what a browser waits for was sent on the tunnel
  that stands.

### 3.2 Liveness

`PausedResumes`, `OutputIsRead` (what a running terminal prints is, again and
again, all with a daemon that serves it), `EndIsLearned`, `EnsureEnds`; `AskSettles` (every
question to a peer ends or becomes the human's), `DeadClaimsEnd` (the claims of a
dead tab are freed, across crashes), `NudgesEnd` (an agent that does not read is
not woken for ever), `MailIsTold` (a message that comes to a tab at its prompt is
told or still looked at), `DeadStreamEnds`, `LeftIsAborted` (the runner stops
working for a browser that left), `TunnelReturns` and `RevokedIsCut`.

Every property of a passing run has a mutant in `PROJECT.json`: a plausible bug
in a mapped definition under which the run finds the property violated.

### 3.3 Bounds, and why they are enough

- *Ptyd.* Two connections are needed for one to hold what the other releases; no
  rule of the code tells a third apart. `Mark` and `Hwm` of 2 units, two units of
  output and a ring of one put a connection below, at and beyond the limits and
  make the ring overflow. Two incarnations are needed, and suffice, for anything
  stale. One session: the theorems of section 4 hold for any number, and remove
  the other bounds too.
- *PtydHandoff.* Three processes, for adopted masters to be handed on and for a
  second successor of one predecessor. One terminal: every rule is about each
  terminal by itself, captured or opened late.
- *PtydManager.* Three connections: boot, a re-arm, and another that supersedes
  it or follows it. Two keys, for two re-arms at once. `YieldEvery` is 2 so that
  two sessions make a resync yield; `MaxAttempts` is 2 so that a loop both
  retries and gives up.
- *Intercom.* Two tabs, for a peer that dies. Two messages with `Limit` 1 split
  an inbox over two readers, and `Cap` 2 refuses a send; the third message of
  `intercom_ask` is the answer after the ask and its reply. Redelivery makes one
  message pass through several batches, so `intercom` needs no more of them.
- *AgentTasks.* Jobs of different keys share the queue and nothing else, and a
  key's claims are its own: one key, which is opened, closed and crashed without
  bound. Tokens are reused once nothing bears them, so this is no bound either.
- *IntercomPush.* The times keep the order of the code's (input quiet above
  output quiet and the Enter's delay, the marker above the retries), in ticks of
  the smallest of them. `RetryMax` 2 (12 in the code) has a first, a middle and a
  last retry; `MaxLaunches` 2 lets a process replace another; two messages, one of
  which may be redelivered; two overlapping lookups.
- *RelayTunnel.* Two sockets, for one to replace the other; a socket that ended
  may be used again, so reconnects are not bounded. One fault at any moment:
  a dead link, a failed or late hello, a drain or a crash. One request and one channel, since no handler
  reads more than the entry its frame names. The theorems of section 4 remove these
  bounds for its safety.

CHECK_DEADLOCK is off where the bounds, or agents and people that need do
nothing, let behaviour end.

### 3.4 Fairness

- `clients`: the socket of a connection drains, empties, or is dropped in the end:
  its peer reads, or dies and the kernel ends the connection. Terminals need not
  print, clients need not subscribe.
- `handoff`: a live process' timers fire (so `FailHandoff` or `Commit` happens),
  its close and exit proceed (but for a predecessor that missed its successor's
  exit), the successor's boot ends one way or the other, and a process reads what
  it has not paused. Crashes, signals, opens and requests
  are not fair.
- `manager_live`, `manager_collide`: the daemon answers what it has received, the
  client's event loop delivers what has arrived and runs what is due, a back-off
  ends, and `ensurePtyDaemon` ends, with a daemon or an error. `OpenTimesOut` is
  not fair: settling must not depend on it.
- `intercom_ask`: deadlines pass, and the server sweeps every hour. No tab, hook,
  tool or human need do anything.
- `tasks`: the event loop runs the registry's queue, and a server that is down is
  started. A write need not succeed, tabs need not exit. `DeadClaimsEnd` assumes
  that the server does not crash for ever.
- `push`: lookups settle (weak), timers that are due fire and time passes
  (strong: other events of the same instant may come in between any number of
  times, but not for ever). Neither the person, the agent nor its program need do
  anything.
- `relay`: frames on a live link arrive, timers fire, the auth backend answers,
  the client dials again, a drain ends and a relay that ended is started. Nothing
  is asked of browsers or of the runner's local server.

## 4. The proofs

`PtydProofs`, about `Ptyd`, for every set of sessions and connections and every
value of the marks, the ring and the bounds that `PtydAssumption` allows
(`Hwm` at least 1 and at most `Mark`, `RingCap` at least 1):

| Theorem | Property |
|---|---|
| `TypeCorrect` | `Spec => []TypeOK` |
| `FlowControl` | `Spec => []PausedIffHeld` |
| `NoLostDrain` | `Spec => []WaitersAreOwedDrain` |
| `NoHoleTheorem` | `Spec => []NoHole` |

The first three need one inductive invariant, `IInv`: the three properties and
`OnlyNegotiated` (only a negotiated connection of `conns` subscribes, holds or
waits), `LiveWasOpened` (a live id has an incarnation) and `BacklogIsOwed` (a
backlog at or above the high-water mark is owed a `drain`). The last is why a
hold is never left without a `drain`: a pause happens above `Mark`, hence above
`Hwm`. `PausedIffHeld` is not inductive without `OnlyNegotiated`, since `Drop`
releases only what the dying connection holds. `InitIInv` and `StepIInv` prove
it, the second with one step per action.

`NoHole` needs `HoleInv`, which adds `SubscribedIsLive`: what a connection
subscribes to is live, so output it is owed is of the incarnation its replay
came from. Its induction uses `IInv`; lemmas `StillCovered`, `QueueGrows` and
`FlushKeeps` say what writing, queueing and flushing preserve.

`RingProofs`, about `SessionRing`, for any bytes, any cap of at least one byte and
chunks of any length:

| Theorem | Property |
|---|---|
| `RingReplayIsCounted` | `Spec => []RingOK` |
| `RingRefinesWindow` | `Spec => RingImplementsWindow` |

`RingOK` says that `bufferBytes`, which the code maintains by hand, is the length of
the replay and within the cap. `TrimHeadKeeps` shows that a turn of the loop keeps
the count right and the newest *cap* bytes in place, `TrimKeepsLastCap` that the loop
ends within one turn per chunk with exactly those bytes; `AppendOutputWindow` then
maps each append to a step of the window. The loop and the concatenation are
recursive functions, and what they compute is proved by induction. The library's
induction theorems take an operator, which the provers cannot instantiate, so
`NatSetInduction` derives induction for a set from the least element of a set of
numbers (`WFMin`), and `BoundedRecursion` the existence of a recursive function from it.

`RelayProofs`, about `RelayTunnel`, for every finite set of sockets and of requests
and every number of faults that `RelayAssumption` allows:

| Theorem | Property |
|---|---|
| `RelayTypeCorrect` | `Spec => []TypeOK` |
| `Reachable` | `Spec => []RegisteredIsTunnel` |
| `NobodyWaitsInVain` | `Spec => []WaitsOnTheTunnel` |

The inductive invariant `TunnelInv` is both properties with `TunnelType`, the
types of the relay's own variables, which includes that the tunnel is a socket
that is open or closing. Without that, `Register` could replace a tunnel by the
socket itself and close what it has just registered, and `Hello` or the close of
another socket could disturb the tunnel. `DisposedEnds` is what `dispose` ends,
`CloseKeeps` the close of a socket that is or is not the tunnel (the test of
`unregister`), and `QuietKeeps` covers the steps that leave the tunnel alone and
make nobody wait; the rest of `StepTunnelInv` has one step per action. The types
of the wire, the client and the runner (`WireType`) are proved from it, since
what `Replaced` and `Send` put on the wire depends on the tunnel's type.

`HandoffProofs`, about `PtydHandoff`, for any number of daemons, terminals and
units, whether or not a pause stops reads:

| Theorem | Property |
|---|---|
| `HandoffTypeCorrect` | `Spec => []TypeOK` |
| `NoSplitBrain` | `Spec => []OneReader` |
| `NoOutputLost` | `Spec => []NoGap` |
| `HandoffHangsUpNothing` | `Spec => []CapturedSurvive` |
| `WindDownIsHarmless` | `Spec => WindDownKillsNothing` |

None of these is inductive: a step of one daemon is right because of what all the
others hold. The invariant first says what the living daemons look like. They form
a *line* (`Line`): each but the last is winding down in favour of a later one
(`Parents`), and shares with those above it only what its successor captured;
nothing else starts while an ack is awaited (`Waits`). With that, `Masters` says who
holds a terminal open, `Freezes` that what was handed over is frozen below or
thawed, `Lates` that only a terminal opened during the ack wait is in no snapshot,
and `Open1` that some daemon which serves, or will once it binds, holds each
running terminal. `OneReader` follows from `Line` and `Freezes`; `Gaps` says where
the units read are, including that a successor reads on behalf of its parent while
the handoff is open.

`ManagerProofs`, about `PtydManager`, for any keys other than the names of the boot
and the loop, and any positive number of connections, attempts and sessions adopted
per turn:

| Theorem | Property |
|---|---|
| `ManagerTypeCorrect` | `Spec => []TypeOK` |
| `ManagerRunningIsLive` | `Spec => []RunningIsLive` |
| `ManagerNoOrphan` | `Spec => []NoOrphan` |
| `ManagerNoFalseExit` | `Spec => NoFalseExit` |

What a mirror says is right because of what is on the wire, so most of the invariant
is about frames in flight, and all of it but the types and `AwaitInv` (the client's
pending promises are those its actors await) holds while `Undisturbed`. `AloneInv`
has one connection in use and one actor re-arming it; `GreetInv` has answers on a
negotiated connection only. `OpenInv` follows an open: it is on its way, or its answer
is, once, and its `ensure()` still waits unless it timed out; while the client is not
connected there is none. `OrderInv` is the heart: an answer that names a session no
longer live is followed by its exit (`Ordered`), an exit of a session that lives again
by the answer to its open (`Revived`), and a list on its way to a resync misses no live
session (`Complete`, which holds because no open is served meanwhile). With it a resync
knows every live session (`ResyncInv`), and the mirrors that come of it are true
(`MirrorInv`). `RunningIsLive` is the first half of that, `NoOrphan` the second with
`OpenInv`, and `NoFalseExit` follows from `Revived`, for exit frames, and from
`ResyncInv`, for what vanished from the list.

`IntercomProofs`, about `Intercom`, for any agents, cap, limit and bounds:

| Theorem | Property |
|---|---|
| `IntercomTypeCorrect` | `Spec => []TypeOK` |
| `NoLostAnswer` | `Spec => []OpenAskIsUnanswered` |
| `OnlyReadersSettle` | `Spec => SettledByReader` |
| `NoDoubleDelivery` | `Spec => HandedOutOnce` |
| `HumanAnswersAlone` | `Spec => LateReplyIsPlain` |

The store has many operations, and the proofs rest on one lemma about all of them,
`StepTables`: a step changes the tables in one of five ways (rows rewritten in
place, a message sent, a question answered, a peer asked, the human asked). The
inductive invariant adds to the types that a question and its request name each
other (`AskInv`) and lapse in this order (`LapseInv`), that a client holds messages
of its own agent only (`HandInv`), and that an unconfirmed batch is the one in its
hook's hands, a confirmed one was shown (`BatchInv`). The last is what makes a late
`Stop` harmless: it acknowledges confirmed batches only.

`TasksProofs`, about `AgentTasks`, for any set of tabs and any finite set of tasks
with any dependencies (`TasksAssumption` also says that -1, which stands for no
tab, is no key):

| Theorem | Property |
|---|---|
| `TasksTypeCorrect` | `Spec => []TypeOK` |
| `NoDeadClaims` | `Spec => []ClaimIsHeld` |
| `RunningSpeaks` | `Spec => []RunningIsKnown` |

`QueueInv` says what may wait in the registry's queue and be in progress: one
registration for each tab being opened, a reconciliation only while the server
boots. `KnownInv` says that a tab which did not stray has the token of its process in
the map and on disk, with no release of it under way; the disk is needed since a
crash leaves nothing else. `MirrorInv` bounds what the file may lag behind the map
to the job in progress, so that a crash loses no claimed execution unrecorded.
`FreshIsNew` counts the tokens a key can bear.

`PushProofs`, about `IntercomPush`, for any delays, retries and bounds that
`PushAssumption` allows (an Enter's delay within the input quiet, the output quiet
within the time after which a status is stale, as in the code):

| Theorem | Property |
|---|---|
| `PushTypeCorrect` | `Spec => []TypeOK` |
| `NudgesRespectTurns` | `Spec => NoTextIntoATurn` |
| `EnterIsItsText` | `Spec => EnterFollowsItsText` |

`LookInv` says that a turn which began while a lookup was awaited is recorded in
every attempt under way that could still nudge, however many overlap. `EnterInv`
says that a pending Enter whose text is not the last thing typed will be withheld:
the line's quiet time plus what is left of the delay is less than the delay. It is
inductive because a keystroke resets the quiet time and the clock adds to one what it
takes from the other.

Only model-checked: all liveness and fairness, which are out of the prover's reach
here. Every invariant and action property of a passing run, and the refinement, is a
theorem.

## 5. Where the source says more than it does

With a run:

- `manager_collide`. client.ts:132-133 says a mid-handshake loser must still settle
  its `connect()`. Its hello-ack is discarded (110), so it does not while its
  socket lives; two `ensure()`s that re-arm inline at once make this happen, and
  the loser's key never opens again.
- `push_boot`. intercomPush.ts:178-182 says a booting Claude never qualifies, since
  its status is posted by its hooks. `claudeStatusStore.clear` sets a tab whose
  process exited to `idle` instead of removing it (84), and nothing resets the
  status when the process exits unattended: a tab launched again reads `idle`
  while it boots, and is typed into.

Seen while modelling, without a run of their own.

*ptyd.*
- server.ts:174 says a replay queued for a session that exited is dropped.
  `flushReplays` only tests the subscription: if the id was reopened and
  subscribed again before the drain, the dead session's ring is sent.
- server.ts:445-449 says the freeze keeps bytes in the kernel for the successor.
  `resumePaused`, run by a `drain` or a dropped connection during the ack wait,
  resumes a pty held for congestion without asking whether a handoff froze it
  (`thawed`, `leaked`). `finalizeHandoff` closes its connections the same way (221),
  against 540-544.
- server.ts:572 says a lingering predecessor stays "until the successor exits —
  then exit with it". The listener is attached in `linger()` (591), after
  `waitForHandoffAck` took its own away (682), three turns of the event loop, up to
  500 ms for a drain and `close()`: a successor that dies in between is never
  noticed (`deaf`). The predecessor stays, with no listener of its own and the
  paused masters of the shells it spawned, which run on with nobody to read them.
  A stop signal ends it only if the successor left an exit code; if a signal
  killed that one, `exitCode` stays null and the signal goes nowhere (599).
- docs/ARCHITECTURE.md:453 says "PTYs outlive everything above them". `open` is
  refused only after the ack (247): a terminal opened between snapshot and ack is
  hung up when the predecessor exits (`late`).
- server.ts:39-40 bounds memory by the mark and one replay where `sendReplay` queues
  one ring per subscription; docs/ARCHITECTURE.md:214 gives the ring 256 KiB where
  store.ts has 2 MiB.

*The terminal manager.*
- manager.ts:269-272 says resync tells the truth. It goes on in a microtask, so an
  exit frame in the chunk of the list reply is applied first and then
  overwritten: the mirror shows an ended session as running (`overtaken`). The
  same gap follows `open()` (473-474).
- A connection that ends while a resync yields is ignored and then declared
  connected (266, 282; `yieldDrop`). The loop that gives up marks live sessions
  exited although an inline re-arm has succeeded (291; `collided`).

*The intercom.*
- hooks/mcp/intercom.mjs:50 says "Whatever was acknowledged is always visible to
  the caller"; the acknowledgements come before the tool returns (68), and the
  asker's poll acknowledges the answer it is about to return
  (intercomStore.ts:1209-1220): a call that dies in between settles what nobody saw.
- A human's answer to a question is refused while the workspace is at its cap
  (intercomStore.ts:802), as any send.
- docs/ARCHITECTURE.md:406 says a claim is bound to the execution, not the agent;
  `mayTouchClaim` (980-982) compares the agent, so a tab's next execution may
  release or finish it. The human's `assign` and `cancel` of 406, and the forks of
  407, have no caller or code at this commit.
- The claims of a dropped execution are freed by its notification alone: not if the
  server dies, or the write fails, between the two (agentRegistry.ts:132-136, 252),
  nor if a register replaces a dead execution before its release (236) (`leaked`).
- A process started while its tab's earlier exit is still queued runs with a token
  that is then released (`strayed`).

*Push delivery.*
- A message that comes within the minute of the last nudge is skipped (196), and
  one that comes near the end of a retry chain inherits its tries (155-157): both
  wait for the next turn's end. So does a message behind `HOOK_PULL_LIMIT` others,
  or a redelivered one older than the last nudged (`nudgedHead`, 199).
- A line left half typed for longer than the quiet time gets the nudge appended,
  and submitted with it (201, 134); `confirmSubmitted` presses Enter on whatever
  is in the line (tabOps.ts:174-187).

*The relay* (`packages/relay/src`).
- server.ts:830-831 says to abort the runner-side fetch when the browser leaves "or
  it streams into the void forever". The listener is attached after the
  authorization was awaited (769), so a browser that leaves earlier is never
  aborted; nor is a request whose head timed out (239). `cause` tells them apart.
- A late frame of a replaced socket is looked up by runner id (314): its pong
  counts for the replacement.
- `client.stop()` leaves the watchdog running (client.ts:117).

## 6. Not modelled, and the plan

In `Ptyd`: control frames weigh nothing against the mark; the bytes of a frame
are units. In `PtydHandoff`: the requester's reply and its 15 s timer, descriptor
numbers and the file format of the snapshot, the write queue and the kill
escalation of `pty.ts`, and a fresh daemon that takes the path before the
successor. In `PtydManager`: `upgradeDaemon` and `destroy`, the mirrored output and
the screen emulator, the setup keys that boot ends, and subscribers' callbacks; a
yield of a resync may last longer in the model than one turn of the event loop.
In `Intercom`: the human's own messages, the sandbox boundary, idempotency keys, the
turns diary, the cap of open escalations. In `AgentTasks`: scopes, slugs and aliases.
In `IntercomPush`: shell tabs, the kill switch, the events of skips, Claude's
permission prompts. In `RelayTunnel`: login, cookies and tickets, presence, the limit
of pending requests, the bytes of streams, two runners with one identity.

Out of TLC's reach or of little state: the routes, the views and the desktop shell
(validation, formatting and platform I/O), the parsers and HTTP clients of
configuration, logins, usage and tickets, and `pty.ts`, whose ordering is the
kernel's and node-pty's.

Next, most important first:

1. `PtydSocket`: probe, unlink and bind by several processes, with the steal guard,
   and `upgradeDaemon` of the manager over what `PtydHandoff` promises.
2. `SpawnGuard`: caps and parents of spawned agents against concurrent commits,
   abandoned spawns and crashes.
3. Jarvis' turns and wakes; parking of sandboxes; jobs and their reattachment.
4. `FrameDecoder` as an algorithm, and the runner's self-update.

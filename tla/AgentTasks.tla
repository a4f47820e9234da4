----------------------------- MODULE AgentTasks -----------------------------
(***************************************************************************)
(* The agent registry (services/agentRegistry.ts) and the shared tasks its *)
(* executions claim (services/intercomStore.ts).                           *)
(*                                                                         *)
(* A tab (key) that opens registers an execution, whose token its process  *)
(* gets in the environment; a process that exits releases it, and the      *)
(* claims of a dropped execution are released with it.  The registry's map *)
(* is in memory with a durable mirror; register, release and reconcile run *)
(* one at a time in a queue, and each waits for its write to disk in the   *)
(* middle.  Processes live in ptyd and outlive the server, which may crash *)
(* at any moment: at boot it reconciles the mirror with what is running.   *)
(*                                                                         *)
(* Agent ids are a function of the key, so a key stands for its agent.     *)
(* Scopes, slugs and aliases are left out, and with them the re-scoping of *)
(* an execution, which keeps its identity.  Nothing calls assignTask or    *)
(* cancelTask at this commit: a task is created, claimed, released, done.  *)
(***************************************************************************)
EXTENDS Integers, Sequences, FiniteSets

CONSTANTS Key,     (* session keys of one workspace                          *)
          Task,    (* tasks that may be created                              *)
          Deps     (* dependsOn: the tasks each one waits for                *)

ASSUME TasksAssumption ==
  Deps \in [Task -> SUBSET Task] /\ IsFiniteSet(Task) /\ -1 \notin Key

VARIABLES
  up,      (* the server: "down", "boot" (until reconciled) or "up"          *)
  proc,    (* per key: the execution its process was started with, None when *)
           (* there is no process, 0 when it was started without one         *)
  execs,   (* the registry's map; 0: no execution                            *)
  disk,    (* agent-executions.json                                          *)
  queue,   (* jobs waiting: [op, key]                                        *)
  job,     (* the job in progress: none, writing, or renamed (durable)       *)
  attach,  (* per key: a tab being opened: idle, registering, ensuring       *)
  tasks,   (* per task: its status and the execution that claimed it         *)
  leaked,  (* history: executions dropped without their claims' release      *)
  strayed, (* history: keys whose tab exited while it was being opened, or   *)
           (* whose execution could not be written                           *)
  stale    (* history: the last write failed                                 *)

registry == <<up, proc, execs, disk, queue, job, attach>>
vars     == <<registry, tasks, leaked, strayed, stale>>

None   == -1
NoJob  == [stage |-> "none", op |-> "none", key |-> None, dropped |-> {}]
Nobody == <<None, 0>>

Init ==
  /\ up = "up" /\ proc = [k \in Key |-> None]
  /\ execs = [k \in Key |-> 0] /\ disk = [k \in Key |-> 0]
  /\ queue = <<>> /\ job = NoJob /\ attach = [k \in Key |-> "idle"]
  /\ tasks = [t \in Task |-> [status |-> "absent", by |-> Nobody]]
  /\ leaked = {} /\ strayed = {} /\ stale = FALSE
-----------------------------------------------------------------------------
Claims(k) == {tasks[t].by[2] : t \in {u \in Task : tasks[u].by[1] = k}}

\* A token no process, record or claim of this key still bears (randomUUID).
Fresh(k) ==
  LET used == {execs[k], disk[k], proc[k]} \cup Claims(k)
  IN  CHOOSE n \in 1..(Cardinality(Task) + 4) : n \notin used

Running(k) == proc[k] # None

\* byToken: the process of this key is authenticated as its agent.
Known(k) == up = "up" /\ Running(k) /\ proc[k] # 0 /\ proc[k] = execs[k]

\* Only what a claim still names needs remembering.
Leak(S, ts) == {x \in leaked \cup S : \E t \in Task : ts[t].by = x /\ ts[t].status = "claimed"}
-----------------------------------------------------------------------------
(* Tabs.                                                                     *)

\* The terminal route or agent_spawn: register, then ensure, one at a time per
\* key (withAgentSpawnLock).
Attach(k) ==
  /\ up = "up" /\ attach[k] = "idle"
  /\ attach' = [attach EXCEPT ![k] = "registering"]
  /\ queue' = Append(queue, [op |-> "register", key |-> k])
  /\ UNCHANGED <<up, proc, execs, disk, job, tasks, leaked, strayed, stale>>

\* ensure: a process that runs already is attached to; a new one is given the
\* execution of this moment (envFor).
Ensure(k) ==
  /\ up = "up" /\ attach[k] = "ensuring"
  /\ proc' = [proc EXCEPT ![k] = IF Running(k) THEN @ ELSE execs[k]]
  /\ attach' = [attach EXCEPT ![k] = "idle"]
  /\ UNCHANGED <<up, execs, disk, queue, job, tasks, leaked, strayed, stale>>

\* ensure fails: agent_spawn releases the execution, the terminal route leaves
\* it registered.
EnsureFails(k, spawn) ==
  /\ up = "up" /\ attach[k] = "ensuring" /\ ~Running(k)
  /\ attach' = [attach EXCEPT ![k] = "idle"]
  /\ queue' = IF spawn THEN Append(queue, [op |-> "release", key |-> k]) ELSE queue
  /\ UNCHANGED <<up, proc, execs, disk, job, tasks, leaked, strayed, stale>>

\* The process exits: onTerminalExit queues the release (unless the server is
\* not there to see it).
Exit(k) ==
  /\ Running(k)
  /\ proc' = [proc EXCEPT ![k] = None]
  /\ queue' = IF up = "down" THEN queue ELSE Append(queue, [op |-> "release", key |-> k])
  /\ strayed' = IF attach[k] = "idle" THEN strayed \ {k} ELSE strayed \cup {k}
  /\ UNCHANGED <<up, execs, disk, job, attach, tasks, leaked, stale>>
-----------------------------------------------------------------------------
(* The queue's jobs: up to the write, the write, what follows it.            *)

Done(k) == [attach EXCEPT ![k] = IF @ = "registering" THEN "ensuring" ELSE @]

\* register of a key that runs with an execution changes nothing.
RegisterAgain(k) ==
  /\ execs[k] # 0 /\ Running(k)
  /\ attach' = Done(k)
  /\ UNCHANGED <<execs, job, leaked>>

\* Mutant of RegisterNew: a running tab's execution is replaced too.
RegisterNewAlways(k) ==
  /\ execs' = [execs EXCEPT ![k] = Fresh(k)]
  /\ job' = [stage |-> "writing", op |-> "register", key |-> k, dropped |-> {}]
  /\ leaked' = Leak({<<k, execs[k]>>}, tasks)
  /\ UNCHANGED attach

\* Otherwise it replaces the execution, if there is one, and says nothing of
\* the old one to anybody.
RegisterNew(k) ==
  /\ execs[k] = 0 \/ ~Running(k)
  /\ execs' = [execs EXCEPT ![k] = Fresh(k)]
  /\ job' = [stage |-> "writing", op |-> "register", key |-> k, dropped |-> {}]
  /\ leaked' = Leak({<<k, execs[k]>>}, tasks)
  /\ UNCHANGED attach

Release(k) ==
  /\ execs' = [execs EXCEPT ![k] = 0]
  /\ job' = IF execs[k] = 0 THEN NoJob
            ELSE [stage |-> "writing", op |-> "release", key |-> k, dropped |-> {<<k, execs[k]>>}]
  /\ UNCHANGED <<attach, leaked>>

Dead == {k \in Key : execs[k] # 0 /\ ~Running(k)}

\* Mutant of Reconcile: what died while the server was down is dropped silently.
ReconcileSilent ==
  /\ execs' = [k \in Key |-> IF ~Running(k) THEN 0
                             ELSE IF execs[k] = 0 THEN Fresh(k) ELSE execs[k]]
  /\ job' = [stage |-> IF execs' = execs THEN "renamed" ELSE "writing", op |-> "reconcile",
             key |-> None, dropped |-> {}]
  /\ UNCHANGED <<attach, leaked>>

\* reconcile: executions without a process are dropped, processes without one
\* get one.
Reconcile ==
  /\ execs' = [k \in Key |-> IF ~Running(k) THEN 0
                             ELSE IF execs[k] = 0 THEN Fresh(k) ELSE execs[k]]
  /\ job' = [stage |-> IF execs' = execs THEN "renamed" ELSE "writing", op |-> "reconcile",
             key |-> None, dropped |-> {<<k, execs[k]>> : k \in Dead}]
  /\ UNCHANGED <<attach, leaked>>

StartJob ==
  /\ up # "down" /\ job = NoJob /\ queue # <<>>
  /\ queue' = Tail(queue)
  /\ LET j == Head(queue) IN
       \/ j.op = "register" /\ (RegisterAgain(j.key) \/ RegisterNew(j.key))
       \/ j.op = "release" /\ Release(j.key)
       \/ j.op = "reconcile" /\ Reconcile
  /\ UNCHANGED <<up, proc, disk, tasks, strayed, stale>>

\* writeJson: the mirror holds the whole map as it was when the write began,
\* which is as it is: nothing else runs meanwhile.
Rename ==
  /\ job.stage = "writing"
  /\ disk' = execs /\ stale' = FALSE
  /\ job' = [job EXCEPT !.stage = "renamed"]
  /\ UNCHANGED <<up, proc, execs, queue, attach, tasks, leaked, strayed>>

\* Mutant of Freed: one task of each execution.
FreedOne(S) ==
  LET one(x) == CHOOSE t \in Task : tasks[t].by = x /\ tasks[t].status = "claimed"
  IN  [t \in Task |-> IF tasks[t].by \in S /\ tasks[t].status = "claimed" /\ t = one(tasks[t].by)
                     THEN [status |-> "open", by |-> Nobody]
                     ELSE tasks[t]]

\* releaseClaimsOf each dropped execution.
Freed(S) == [t \in Task |-> IF tasks[t].by \in S /\ tasks[t].status = "claimed"
                            THEN [status |-> "open", by |-> Nobody]
                            ELSE tasks[t]]

EndOfJob ==
  /\ job' = NoJob
  /\ attach' = IF job.op = "register" THEN Done(job.key) ELSE attach
  /\ up' = IF job.op = "reconcile" THEN "up" ELSE up

\* The write is done: notifyDropped, in the same turn as the end of the job.
Finish ==
  /\ job.stage = "renamed"
  /\ EndOfJob
  /\ tasks' = Freed(job.dropped)
  /\ leaked' = Leak({}, Freed(job.dropped))
  /\ UNCHANGED <<proc, execs, disk, queue, strayed, stale>>

\* The write fails before or after the rename (a full disk, the chmod): the job
\* rejects.  The terminal route opens the tab all the same; nobody is notified;
\* at boot the server does not start.
WriteFails ==
  /\ job.stage \in {"writing", "renamed"} /\ job.op # "reconcile"
  /\ EndOfJob
  /\ leaked' = Leak(job.dropped, tasks)
  /\ strayed' = IF job.op = "register" THEN strayed \cup {job.key} ELSE strayed
  /\ stale' = (stale \/ job.stage = "writing")
  /\ UNCHANGED <<proc, execs, disk, queue, tasks>>
-----------------------------------------------------------------------------
\* Memory, queue and openings are lost.  A drop that was durable already is not
\* seen again at boot, nor is an execution whose write had failed.
Unseen ==
  (IF stale \/ job.stage = "renamed" THEN job.dropped ELSE {})
    \cup (IF stale THEN {<<k, execs[k]>> : k \in {x \in Key : disk[x] # execs[x]}} ELSE {})

Crash ==
  /\ up # "down" /\ up' = "down"
  /\ execs' = [k \in Key |-> 0] /\ queue' = <<>> /\ job' = NoJob
  /\ attach' = [k \in Key |-> "idle"]
  /\ leaked' = Leak(Unseen, tasks)
  /\ UNCHANGED <<proc, disk, tasks, strayed, stale>>

\* createAgentRegistry loads the mirror; routes wait for the reconciliation.
Boot ==
  /\ up = "down" /\ up' = "boot"
  /\ execs' = disk /\ queue' = <<[op |-> "reconcile", key |-> None]>>
  /\ stale' = FALSE
  /\ UNCHANGED <<proc, disk, job, attach, tasks, leaked, strayed>>
-----------------------------------------------------------------------------
(* Tasks.                                                                    *)

Create(t) ==
  /\ up = "up" /\ tasks[t].status = "absent"
  /\ tasks' = [tasks EXCEPT ![t].status = "open"]
  /\ UNCHANGED <<registry, leaked, strayed, stale>>

\* A dependency that is not there (purged, or never was) does not hold it up.
Ready(t) == \A d \in Deps[t] : tasks[d].status \notin {"open", "claimed"}

Claim(k, t) ==
  /\ Known(k) /\ tasks[t].status = "open" /\ Ready(t)
  /\ tasks' = [tasks EXCEPT ![t] = [status |-> "claimed", by |-> <<k, execs[k]>>]]
  /\ UNCHANGED <<registry, leaked, strayed, stale>>

\* mayTouchClaim: the agent that claimed it, in whichever execution.
Mine(k, t) == Known(k) /\ tasks[t].status = "claimed" /\ tasks[t].by[1] = k

\* Mutant of ReleaseTask: the claimer stays on the row.
ReleaseTaskKeeps(k, t) ==
  /\ Mine(k, t)
  /\ tasks' = [tasks EXCEPT ![t].status = "open"]
  /\ leaked' = Leak({}, tasks')
  /\ UNCHANGED <<registry, strayed, stale>>

ReleaseTask(k, t) ==
  /\ Mine(k, t)
  /\ tasks' = [tasks EXCEPT ![t] = [status |-> "open", by |-> Nobody]]
  /\ leaked' = Leak({}, tasks')
  /\ UNCHANGED <<registry, strayed, stale>>

\* A done task keeps the name of its claimer.
DoneTask(k, t) ==
  /\ Mine(k, t)
  /\ tasks' = [tasks EXCEPT ![t].status = "done"]
  /\ leaked' = Leak({}, tasks')
  /\ UNCHANGED <<registry, strayed, stale>>

\* The sweep, RETENTION_MS later.
Purge(t) ==
  /\ up = "up" /\ tasks[t].status = "done"
  /\ tasks' = [tasks EXCEPT ![t] = [status |-> "purged", by |-> Nobody]]
  /\ UNCHANGED <<registry, leaked, strayed, stale>>
-----------------------------------------------------------------------------
Jobs == StartJob \/ Rename \/ Finish

Next ==
  \/ \E k \in Key : Attach(k) \/ Ensure(k) \/ Exit(k)
  \/ \E k \in Key, spawn \in BOOLEAN : EnsureFails(k, spawn)
  \/ Jobs \/ WriteFails \/ Crash \/ Boot
  \/ \E t \in Task : Create(t) \/ Purge(t)
  \/ \E k \in Key, t \in Task : Claim(k, t) \/ ReleaseTask(k, t) \/ DoneTask(k, t)

Spec == Init /\ [][Next]_vars

\* The event loop runs what is queued, and a server that is down is started.
FairSpec == Spec /\ WF_vars(Jobs) /\ WF_vars(Boot)
-----------------------------------------------------------------------------
Exec == 0..(Cardinality(Task) + 4)

TypeOK ==
  /\ up \in {"down", "boot", "up"}
  /\ proc \in [Key -> Exec \cup {None}]
  /\ execs \in [Key -> Exec] /\ disk \in [Key -> Exec]
  /\ queue \in Seq([op : {"register", "release", "reconcile"}, key : Key \cup {None}])
  /\ job \in [stage : {"none", "writing", "renamed"}, key : Key \cup {None},
              op : {"none", "register", "release", "reconcile"}, dropped : SUBSET (Key \X Exec)]
  /\ attach \in [Key -> {"idle", "registering", "ensuring"}]
  /\ tasks \in [Task -> [status : {"absent", "open", "claimed", "done", "purged"},
                         by : (Key \X Exec) \cup {Nobody}]]
  /\ \A t \in Task : (tasks[t].by = Nobody) <=> tasks[t].status \in {"absent", "open", "purged"}
  /\ leaked \subseteq Key \X Exec /\ strayed \subseteq Key /\ stale \in BOOLEAN

\* "A tab that dies releases its claims" (ARCHITECTURE.md:406): a claim is held
\* by a registered execution, or by one whose drop is being written and will be
\* notified.  The exceptions are a server that dies, or a write that fails,
\* between the drop and the notification, and a register that replaces a dead
\* execution before its release came round.
ClaimIsHeld ==
  \A t \in Task : tasks[t].status = "claimed" =>
    LET x == tasks[t].by IN
      \/ x[2] = (IF up = "down" THEN disk ELSE execs)[x[1]]
      \/ x \in job.dropped \/ x \in leaked

\* A tab that runs can speak: the token its process was started with is the
\* registered one, whatever the order of exits, openings, crashes and boots,
\* unless it exited while it was being opened again or its write failed.
RunningIsKnown ==
  \A k \in Key : up = "up" /\ Running(k) /\ k \notin strayed => proc[k] = execs[k]

\* The claim of an execution whose process is gone is released in the end, even
\* if the tab died while the server was down, or the server dies meanwhile, so
\* long as it does not crash forever; only a leaked one is not, or that of a tab
\* that exited while it was being opened (its next process runs under it).
DeadClaimsEnd ==
  <>[](up # "down") =>
    \A t \in Task : \A k \in Key, n \in Exec :
      (tasks[t].status = "claimed" /\ tasks[t].by = <<k, n>> /\ proc[k] # n)
        ~> (tasks[t].by # <<k, n>> \/ tasks[t].status # "claimed"
             \/ <<k, n>> \in leaked \/ k \in strayed)
=============================================================================

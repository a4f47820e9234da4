---------------------------- MODULE TasksProofs -----------------------------
(***************************************************************************)
(* Proofs about the agent registry and the tasks it claims (AgentTasks),   *)
(* for any set of tabs, tokens and tasks.  The inductive invariant says    *)
(* what may wait in the registry's queue and be in progress, that a tab    *)
(* whose process did not stray has the token of its process registered on  *)
(* disk and in memory, what of the mirror a crash may not find on disk,    *)
(* and that a claim always names an execution.                             *)
(***************************************************************************)
EXTENDS AgentTasks, TLAPS, FiniteSetTheorems

(* The queue and the job in progress: one register for each tab that is      *)
(* being opened; a reconciliation only while the server boots.               *)
QueueInv ==
  /\ job.stage = "none" <=> job = NoJob
  /\ up = "down" => queue = <<>> /\ job = NoJob
  /\ up # "up" => attach = [k \in Key |-> "idle"]
  /\ \A i \in DOMAIN queue :
       /\ queue[i].op = "reconcile" => i = 1 /\ up = "boot" /\ job = NoJob /\ disk = execs
       /\ queue[i].op \in {"register", "release"} => queue[i].key \in Key
       /\ queue[i].op = "register" =>
            /\ attach[queue[i].key] = "registering"
            /\ job.op = "register" => job.key # queue[i].key
  /\ \A i, j \in DOMAIN queue :
       queue[i].op = "register" /\ queue[j].op = "register" /\ queue[i].key = queue[j].key => i = j
  /\ job.op \in {"register", "release"} => job.key \in Key
  /\ job.op = "register" => attach[job.key] = "registering" /\ execs[job.key] # 0
  /\ job.op = "release" => execs[job.key] = 0
  /\ job.op = "reconcile" => up = "boot"
  /\ job.stage = "renamed" => disk = execs

(* No exit of k waits for its turn.                                          *)
NoRelease(k) ==
  /\ \A i \in DOMAIN queue : queue[i].op = "release" => queue[i].key # k
  /\ job.op = "release" => job.key # k

(* The tokens of a tab that did not stray.                                    *)
KnownInv ==
  \A k \in Key \ strayed :
    /\ Running(k) => /\ proc[k] # 0 /\ disk[k] = proc[k] /\ NoRelease(k)
                     /\ up # "down" => execs[k] = proc[k]
    /\ attach[k] = "ensuring" /\ ~Running(k) =>
         execs[k] # 0 /\ disk[k] = execs[k] /\ NoRelease(k)
    /\ \A i, j \in DOMAIN queue :
         /\ queue[i] = [op |-> "register", key |-> k] /\ queue[j] = [op |-> "release", key |-> k]
         => j < i
    /\ job.op = "register" /\ job.key = k => NoRelease(k)

(* What a crash finds on disk.                                               *)
MirrorInv ==
  up # "down" /\ ~stale =>
    /\ \A k \in Key : execs[k] # disk[k] =>
         /\ job.stage = "writing"
         /\ execs[k] = 0 \/ (execs[k] # proc[k] /\ execs[k] \notin Claims(k))
         /\ execs[k] # 0 => job.op = "reconcile" \/ (job.op = "register" /\ job.key = k)
    /\ job.stage = "writing" => \A x \in job.dropped : disk[x[1]] = x[2]

(* A claim names an execution.                                               *)
ClaimInv ==
  \A t \in Task : tasks[t].status = "claimed" => tasks[t].by[2] # 0

(* The inductive invariant.                                                  *)
IInv == TypeOK /\ QueueInv /\ KnownInv /\ MirrorInv /\ ClaimInv /\ ClaimIsHeld

-----------------------------------------------------------------------------
(* Tokens.                                                                   *)

\* The size of a union.
LEMMA UnionSize ==
  ASSUME NEW S, NEW T, IsFiniteSet(S), IsFiniteSet(T)
  PROVE  /\ IsFiniteSet(S \cup T)
         /\ Cardinality(S \cup T) <= Cardinality(S) + Cardinality(T)
<1>1. IsFiniteSet(S \cup T)
      /\ Cardinality(S \cup T) = Cardinality(S) + Cardinality(T) - Cardinality(S \cap T)
  BY FS_Union
<1>2. IsFiniteSet(S \cap T)
  BY FS_Subset, S \cap T \in SUBSET S
<1>3. Cardinality(S) \in Nat /\ Cardinality(T) \in Nat /\ Cardinality(S \cap T) \in Nat
  BY <1>2, FS_CardinalityType
<1>. QED BY <1>1, <1>3

\* There is always a token that no process, record or claim of the key bears.
LEMMA FreshIsNew ==
  ASSUME TypeOK, NEW k \in Key
  PROVE  /\ Fresh(k) \in Exec \ {0}
         /\ Fresh(k) \notin {execs[k], disk[k], proc[k]} \cup Claims(k)
<1>. DEFINE S == {t \in Task : tasks[t].by[1] = k}
            f == [t \in S |-> tasks[t].by[2]]
            records == {execs[k], disk[k], proc[k]}
            used == records \cup Claims(k)
            n == Cardinality(Task) + 4
<1>1. IsFiniteSet(S) /\ Cardinality(S) <= Cardinality(Task) /\ Cardinality(Task) \in Nat
  <2>1. IsFiniteSet(Task) /\ S \in SUBSET Task
    BY TasksAssumption
  <2>. HIDE DEF S
  <2>. QED BY <2>1, FS_Subset, FS_CardinalityType
<1>2. f \in Surjection(S, Claims(k))
  BY DEF Surjection, Claims
<1>3. IsFiniteSet(Claims(k)) /\ Cardinality(Claims(k)) <= Cardinality(S)
  <2>. HIDE DEF S, f
  <2>. QED BY <1>1, <1>2, FS_Surjection
<1>4. IsFiniteSet(records) /\ Cardinality(records) <= 3
  <2>1. IsFiniteSet({execs[k]}) /\ Cardinality({execs[k]}) = 1
    BY FS_Singleton
  <2>2. IsFiniteSet({execs[k]} \cup {disk[k]}) /\ Cardinality({execs[k]} \cup {disk[k]}) <= 2
    <3>1. IsFiniteSet({disk[k]}) /\ Cardinality({disk[k]}) = 1
      BY FS_Singleton
    <3>2. Cardinality({execs[k]} \cup {disk[k]}) <= Cardinality({execs[k]}) + Cardinality({disk[k]})
      BY <2>1, <3>1, UnionSize
    <3>. QED BY <2>1, <3>1, <3>2, UnionSize
  <2>3. IsFiniteSet({execs[k]} \cup {disk[k]} \cup {proc[k]})
        /\ Cardinality({execs[k]} \cup {disk[k]} \cup {proc[k]}) <= 3
    <3>. DEFINE two == {execs[k]} \cup {disk[k]}
    <3>1. IsFiniteSet({proc[k]}) /\ Cardinality({proc[k]}) = 1
      BY FS_Singleton
    <3>2. IsFiniteSet(two) /\ Cardinality(two) <= 2
      BY <2>2
    <3>. HIDE DEF two
    <3>3. Cardinality(two) \in Nat
      BY <3>2, FS_CardinalityType
    <3>4. IsFiniteSet(two \cup {proc[k]}) /\ Cardinality(two \cup {proc[k]}) <= Cardinality(two) + Cardinality({proc[k]})
      BY <3>1, <3>2, UnionSize
    <3>5. Cardinality(two \cup {proc[k]}) <= 3
      <4>1. Cardinality(two \cup {proc[k]}) \in Nat
        BY <3>4, FS_CardinalityType
      <4>. QED BY <3>1, <3>2, <3>3, <3>4, <4>1
    <3>. QED BY <3>4, <3>5 DEF two
  <2>4. records = {execs[k]} \cup {disk[k]} \cup {proc[k]}
    OBVIOUS
  <2>. HIDE DEF records
  <2>. QED BY <2>3, <2>4
<1>5. IsFiniteSet(used) /\ Cardinality(used) < n
  <2>. HIDE DEF records
  <2>1. IsFiniteSet(used) /\ Cardinality(used) <= Cardinality(records) + Cardinality(Claims(k))
    BY <1>3, <1>4, UnionSize
  <2>. QED BY <1>1, <1>3, <1>4, <2>1, FS_CardinalityType
<1>6. \E m \in 1..n : m \notin used
  <2>1. IsFiniteSet(1..n) /\ Cardinality(1..n) = n
    BY <1>1, FS_Interval
  <2>2. SUFFICES ASSUME 1..n \subseteq used PROVE FALSE
    OBVIOUS
  <2>. HIDE DEF used, n
  <2>3. Cardinality(1..n) <= Cardinality(used)
    BY <1>5, <2>2, FS_Subset
  <2>. QED BY <1>5, <2>1, <2>3, FS_CardinalityType
<1>7. Fresh(k) \in 1..n /\ Fresh(k) \notin used
  <2>1. Fresh(k) = CHOOSE m \in 1..n : m \notin used
    BY DEF Fresh
  <2>. HIDE DEF n, used
  <2>. QED BY <1>6, <2>1
<1>. QED BY <1>1, <1>7 DEF Exec
-----------------------------------------------------------------------------
(* Types.                                                                    *)

Waiting == [op : {"register", "release", "reconcile"}, key : Key \cup {None}]
Job     == [stage : {"none", "writing", "renamed"}, key : Key \cup {None},
            op : {"none", "register", "release", "reconcile"}, dropped : SUBSET (Key \X Exec)]
Row     == [status : {"absent", "open", "claimed", "done", "purged"},
            by : (Key \X Exec) \cup {Nobody}]

\* The job that is taken, and what stays.
LEMMA Taken ==
  ASSUME TypeOK, queue # <<>>
  PROVE  /\ Head(queue) \in Waiting /\ Head(queue) = queue[1]
         /\ Tail(queue) \in Seq(Waiting) /\ Len(Tail(queue)) = Len(queue) - 1
         /\ DOMAIN Tail(queue) = 1..(Len(queue) - 1) /\ DOMAIN queue = 1..Len(queue)
         /\ Len(queue) \in Nat \ {0} /\ 1 \in DOMAIN queue
         /\ \A i \in DOMAIN Tail(queue) : Tail(queue)[i] = queue[i + 1] /\ i + 1 \in DOMAIN queue
<1>1. queue \in Seq(Waiting)
  BY DEF TypeOK, Waiting
<1>. QED BY <1>1

\* A job that is queued comes last.
LEMMA Queued ==
  ASSUME TypeOK, NEW j \in Waiting
  PROVE  /\ Append(queue, j) \in Seq(Waiting) /\ Len(queue) \in Nat
         /\ DOMAIN Append(queue, j) = 1..(Len(queue) + 1) /\ DOMAIN queue = 1..Len(queue)
         /\ \A i \in DOMAIN queue : Append(queue, j)[i] = queue[i]
         /\ Append(queue, j)[Len(queue) + 1] = j
<1>1. queue \in Seq(Waiting)
  BY DEF TypeOK, Waiting
<1>. QED BY <1>1

\* Only what a claim names is remembered.
LEMMA LeakType ==
  ASSUME NEW S, NEW ts
  PROVE  /\ Leak(S, ts) \subseteq leaked \cup S
         /\ \A t \in Task : ts[t].status = "claimed" /\ ts[t].by \in leaked \cup S => ts[t].by \in Leak(S, ts)
  BY DEF Leak

\* The rows after the claims of S are released.
LEMMA FreedType ==
  ASSUME TypeOK, NEW S
  PROVE  /\ Freed(S) \in [Task -> Row]
         /\ \A t \in Task : (Freed(S)[t].by = Nobody) <=> Freed(S)[t].status \in {"absent", "open", "purged"}
         /\ \A t \in Task : Freed(S)[t].status = "claimed" => Freed(S)[t] = tasks[t] /\ tasks[t].by \notin S
         /\ \A t \in Task : Freed(S)[t].by \in {tasks[t].by, Nobody}
  BY DEF TypeOK, Freed, Row

\* Every step keeps the types.
LEMMA StepType == TypeOK /\ QueueInv /\ [Next]_vars => TypeOK'
<1>. SUFFICES ASSUME TypeOK, QueueInv, [Next]_vars PROVE TypeOK'
  OBVIOUS
<1>0. Nobody \notin Key \X Exec
  BY TasksAssumption DEF Nobody, None
<1>1. ASSUME NEW k \in Key, Attach(k) PROVE TypeOK'
  <2>1. queue' \in Seq(Waiting)
    BY <1>1, Queued, [op |-> "register", key |-> k] \in Waiting DEF Attach, Waiting
  <2>. QED BY <1>1, <2>1 DEF Attach, TypeOK, Waiting
<1>2. ASSUME NEW k \in Key, Ensure(k) PROVE TypeOK'
  BY <1>2 DEF Ensure, TypeOK
<1>3. ASSUME NEW k \in Key, NEW spawn \in BOOLEAN, EnsureFails(k, spawn) PROVE TypeOK'
  <2>1. queue' \in Seq(Waiting)
    BY <1>3, Queued, [op |-> "release", key |-> k] \in Waiting DEF EnsureFails, Waiting, TypeOK
  <2>. QED BY <1>3, <2>1 DEF EnsureFails, TypeOK, Waiting
<1>4. ASSUME NEW k \in Key, Exit(k) PROVE TypeOK'
  <2>1. queue' \in Seq(Waiting)
    BY <1>4, Queued, [op |-> "release", key |-> k] \in Waiting DEF Exit, Waiting, TypeOK
  <2>. QED BY <1>4, <2>1 DEF Exit, TypeOK, Waiting
<1>5. ASSUME StartJob PROVE TypeOK'
  <2>. DEFINE j == Head(queue)
  <2>1. j \in Waiting /\ queue' \in Seq(Waiting)
    BY <1>5, Taken DEF StartJob
  <2>2. UNCHANGED <<up, proc, disk, tasks, strayed, stale>>
    BY <1>5 DEF StartJob
  <2>3. ASSUME NEW k \in Key, RegisterAgain(k) PROVE TypeOK'
    BY <2>1, <2>2, <2>3 DEF RegisterAgain, Done, TypeOK, Waiting
  <2>4. ASSUME NEW k \in Key, RegisterNew(k) PROVE TypeOK'
    <3>1. Fresh(k) \in Exec
      BY FreshIsNew
    <3>2. leaked' \subseteq Key \X Exec
      BY <2>4, LeakType DEF RegisterNew, TypeOK
    <3>3. job' \in Job
      BY <2>4 DEF RegisterNew, Job
    <3>. QED BY <2>1, <2>2, <2>4, <3>1, <3>2, <3>3 DEF RegisterNew, TypeOK, Waiting, Job
  <2>5. ASSUME NEW k \in Key, Release(k) PROVE TypeOK'
    <3>1. job' \in Job
      BY <2>5 DEF Release, Job, NoJob, TypeOK
    <3>2. 0 \in Exec
      BY FS_CardinalityType, TasksAssumption DEF Exec
    <3>. QED BY <2>1, <2>2, <2>5, <3>1, <3>2 DEF Release, TypeOK, Waiting, Job
  <2>6. ASSUME Reconcile PROVE TypeOK'
    <3>1. 0 \in Exec
      BY FS_CardinalityType, TasksAssumption DEF Exec
    <3>2. execs' \in [Key -> Exec]
      <4>1. \A k \in Key : Fresh(k) \in Exec
        BY FreshIsNew
      <4>. QED BY <2>6, <3>1, <4>1 DEF Reconcile, TypeOK
    <3>3. job' \in Job
      BY <2>6 DEF Reconcile, Job, Dead, TypeOK
    <3>. QED BY <2>1, <2>2, <2>6, <3>2, <3>3 DEF Reconcile, TypeOK, Waiting, Job
  <2>. QED
    <3>1. j.op \in {"register", "release"} => j.key \in Key
      BY <1>5, Taken DEF StartJob, QueueInv
    <3>. QED BY <1>5, <2>3, <2>4, <2>5, <2>6, <3>1 DEF StartJob
<1>6. ASSUME Rename PROVE TypeOK'
  <2>1. stale' \in BOOLEAN
    BY <1>6, Zenon DEF Rename
  <2>2. job' \in Job
    BY <1>6 DEF Rename, Job, TypeOK
  <2>. QED BY <1>6, <2>1, <2>2 DEF Rename, TypeOK, Job
<1>7. ASSUME EndOfJob PROVE job' \in Job /\ attach' \in [Key -> {"idle", "registering", "ensuring"}]
                            /\ up' \in {"down", "boot", "up"}
  BY <1>7 DEF EndOfJob, NoJob, Job, Done, TypeOK
<1>8. ASSUME Finish PROVE TypeOK'
  <2>1. leaked' \subseteq Key \X Exec
    BY <1>8, LeakType DEF Finish, TypeOK
  <2>. QED BY <1>7, <1>8, <2>1, FreedType DEF Finish, TypeOK, Job, Row
<1>9. ASSUME WriteFails PROVE TypeOK'
  <2>1. leaked' \subseteq Key \X Exec
    BY <1>9, LeakType DEF WriteFails, TypeOK
  <2>2. stale' \in BOOLEAN
    BY <1>9, Zenon DEF WriteFails
  <2>3. strayed' \subseteq Key
    BY <1>9 DEF WriteFails, TypeOK, QueueInv
  <2>. QED BY <1>7, <1>9, <2>1, <2>2, <2>3 DEF WriteFails, TypeOK, Job
<1>10. ASSUME Crash PROVE TypeOK'
  <2>1. Unseen \subseteq Key \X Exec
    BY DEF Unseen, TypeOK
  <2>2. leaked' \subseteq Key \X Exec
    BY <1>10, <2>1, LeakType DEF Crash, TypeOK
  <2>3. job' \in Job /\ 0 \in Exec
    BY <1>10, FS_CardinalityType, TasksAssumption DEF Crash, NoJob, Job, Exec
  <2>. QED BY <1>10, <2>2, <2>3 DEF Crash, TypeOK, Job
<1>11. ASSUME Boot PROVE TypeOK'
  <2>1. stale' \in BOOLEAN
    BY <1>11, Zenon DEF Boot
  <2>2. queue' \in Seq(Waiting)
    BY <1>11 DEF Boot, Waiting
  <2>3. up' = "boot" /\ execs' = disk /\ UNCHANGED <<proc, disk, job, attach, tasks, leaked, strayed>>
    BY <1>11 DEF Boot
  <2>4. (\A t \in Task : (tasks[t].by = Nobody) <=> tasks[t].status \in {"absent", "open", "purged"})'
    BY <2>3 DEF TypeOK
  <2>. QED BY <2>1, <2>2, <2>3, <2>4 DEF TypeOK, Waiting
<1>12. ASSUME NEW t \in Task, Create(t) \/ Purge(t) PROVE TypeOK'
  <2>1. UNCHANGED <<registry, leaked, strayed, stale>>
    BY <1>12 DEF Create, Purge
  <2>2. \/ tasks[t].status = "absent" /\ tasks' = [tasks EXCEPT ![t].status = "open"]
        \/ tasks' = [tasks EXCEPT ![t] = [status |-> "purged", by |-> Nobody]]
    BY <1>12 DEF Create, Purge
  <2>3. tasks' \in [Task -> [status : {"absent", "open", "claimed", "done", "purged"},
                            by : (Key \X Exec) \cup {Nobody}]]
        /\ \A u \in Task : (tasks'[u].by = Nobody) <=> tasks'[u].status \in {"absent", "open", "purged"}
    BY <1>0, <2>2 DEF TypeOK
  <2>. QED BY <2>1, <2>3 DEF registry, TypeOK
<1>13. ASSUME NEW k \in Key, NEW t \in Task, Claim(k, t) PROVE TypeOK'
  BY <1>0, <1>13 DEF Claim, registry, TypeOK
<1>14. ASSUME NEW k \in Key, NEW t \in Task, ReleaseTask(k, t) \/ DoneTask(k, t) PROVE TypeOK'
  <2>1. leaked' \subseteq Key \X Exec
    BY <1>14, LeakType DEF ReleaseTask, DoneTask, TypeOK
  <2>2. tasks' \in [Task -> Row]
    BY <1>14 DEF ReleaseTask, DoneTask, TypeOK, Row
  <2>3. \A u \in Task : (tasks'[u].by = Nobody) <=> tasks'[u].status \in {"absent", "open", "purged"}
    <3>1. ASSUME ReleaseTask(k, t), NEW u \in Task
          PROVE  (tasks'[u].by = Nobody) <=> tasks'[u].status \in {"absent", "open", "purged"}
      BY <3>1 DEF ReleaseTask, TypeOK
    <3>2. ASSUME DoneTask(k, t), NEW u \in Task
          PROVE  (tasks'[u].by = Nobody) <=> tasks'[u].status \in {"absent", "open", "purged"}
      BY <3>2 DEF DoneTask, Mine, TypeOK
    <3>. QED BY <1>14, <3>1, <3>2
  <2>. QED BY <1>14, <2>1, <2>2, <2>3 DEF ReleaseTask, DoneTask, registry, TypeOK, Row
<1>15. CASE UNCHANGED vars
  BY <1>15 DEF vars, registry, TypeOK
<1>. QED
  BY <1>1, <1>2, <1>3, <1>4, <1>5, <1>6, <1>8, <1>9, <1>10, <1>11, <1>12, <1>13, <1>14, <1>15
  DEF Next, Jobs
-----------------------------------------------------------------------------
(* The queue.                                                                *)

\* Every step keeps the order of the queue and of the job in progress.
LEMMA StepQueue == TypeOK /\ QueueInv /\ [Next]_vars => QueueInv'
<1>. SUFFICES ASSUME TypeOK, QueueInv, [Next]_vars PROVE QueueInv'
  OBVIOUS
<1>0. None \notin Key /\ NoJob.stage = "none" /\ NoJob.op = "none"
  BY TasksAssumption DEF None, NoJob
<1>1. ASSUME NEW k \in Key, Attach(k) PROVE QueueInv'
  <2>1. [op |-> "register", key |-> k] \in Waiting
    BY DEF Waiting
  <2>. QED BY <1>1, <2>1, Queued DEF Attach, QueueInv, TypeOK
<1>2. ASSUME NEW k \in Key, Ensure(k) PROVE QueueInv'
  BY <1>2 DEF Ensure, QueueInv, TypeOK
<1>3. ASSUME NEW k \in Key, NEW spawn \in BOOLEAN, EnsureFails(k, spawn) PROVE QueueInv'
  <2>1. [op |-> "release", key |-> k] \in Waiting
    BY DEF Waiting
  <2>2. CASE spawn
    BY <1>3, <2>1, <2>2, Queued DEF EnsureFails, QueueInv, TypeOK
  <2>3. CASE ~spawn
    BY <1>3, <2>3 DEF EnsureFails, QueueInv, TypeOK
  <2>. QED BY <2>2, <2>3
<1>4. ASSUME NEW k \in Key, Exit(k) PROVE QueueInv'
  <2>1. [op |-> "release", key |-> k] \in Waiting
    BY DEF Waiting
  <2>2. CASE up = "down"
    BY <1>4, <2>2 DEF Exit, QueueInv, TypeOK
  <2>3. CASE up # "down"
    BY <1>4, <2>1, <2>3, Queued DEF Exit, QueueInv, TypeOK
  <2>. QED BY <2>2, <2>3
<1>5. ASSUME StartJob PROVE QueueInv'
  <2>. DEFINE j == Head(queue)
  <2>1. /\ job = NoJob /\ up # "down" /\ queue # <<>> /\ queue' = Tail(queue)
        /\ UNCHANGED <<up, disk>>
    BY <1>5 DEF StartJob
  <2>2. /\ j = queue[1] /\ DOMAIN queue = 1..Len(queue) /\ DOMAIN queue' = 1..(Len(queue) - 1)
        /\ Len(queue) \in Nat \ {0}
        /\ \A i \in DOMAIN queue' : queue'[i] = queue[i + 1] /\ i + 1 \in DOMAIN queue /\ i + 1 # 1
    BY <2>1, Taken
  <2>3. j.op \in {"register", "release"} => j.key \in Key
    BY <2>2 DEF QueueInv
  <2>4. \A i \in DOMAIN queue' :
          /\ queue'[i].op # "reconcile"
          /\ queue'[i].op \in {"register", "release"} => queue'[i].key \in Key
          /\ queue'[i].op = "register" =>
               attach[queue'[i].key] = "registering" /\ (j.op = "register" => j.key # queue'[i].key)
    <3>. SUFFICES ASSUME NEW i \in DOMAIN queue'
                  PROVE  /\ queue[i + 1].op # "reconcile"
                         /\ queue[i + 1].op \in {"register", "release"} => queue[i + 1].key \in Key
                         /\ queue[i + 1].op = "register" =>
                              /\ attach[queue[i + 1].key] = "registering"
                              /\ j.op = "register" => j.key # queue[i + 1].key
      BY <2>2
    <3>1. i + 1 \in DOMAIN queue /\ 1 \in DOMAIN queue /\ i + 1 # 1
      BY <2>2
    <3>. HIDE DEF j
    <3>. QED BY <2>2, <3>1 DEF QueueInv
  <2>5. \A i1, i2 \in DOMAIN queue' :
          queue'[i1].op = "register" /\ queue'[i2].op = "register" /\ queue'[i1].key = queue'[i2].key
          => i1 = i2
    <3>. SUFFICES ASSUME NEW i1 \in DOMAIN queue', NEW i2 \in DOMAIN queue',
                         queue[i1 + 1].op = "register", queue[i2 + 1].op = "register",
                         queue[i1 + 1].key = queue[i2 + 1].key
                  PROVE  i1 = i2
      BY <2>2
    <3>1. i1 + 1 = i2 + 1
      BY <2>2 DEF QueueInv
    <3>. QED BY <2>2, <3>1
  <2>6. \/ j.op = "register" /\ RegisterAgain(j.key)
        \/ j.op = "register" /\ RegisterNew(j.key)
        \/ j.op = "release" /\ Release(j.key)
        \/ j.op = "reconcile" /\ Reconcile
    BY <1>5 DEF StartJob
  <2>7. 1 \in DOMAIN queue /\ (j.op = "register" => attach[j.key] = "registering")
        /\ (j.op = "reconcile" => up = "boot" /\ disk = execs)
    BY <2>2 DEF QueueInv
  <2>. HIDE DEF j
  <2>8. CASE j.op = "register" /\ RegisterAgain(j.key)
    <3>1. /\ execs' = execs /\ job' = job /\ execs[j.key] # 0
          /\ attach' = Done(j.key)
      BY <2>8 DEF RegisterAgain
    <3>2. \A k \in Key : attach[k] = "registering" /\ k # j.key => attach'[k] = "registering"
      BY <3>1 DEF Done, TypeOK
    <3>3. \A i \in DOMAIN queue' : queue'[i].op = "register" => attach'[queue'[i].key] = "registering"
      BY <2>4, <2>8, <3>2
    <3>4. up' # "up" => attach' = [k \in Key |-> "idle"]
      BY <2>1, <2>3, <2>7, <2>8, <3>1 DEF QueueInv, Done, TypeOK
    <3>. QED BY <1>0, <2>1, <2>4, <2>5, <3>1, <3>3, <3>4 DEF QueueInv
  <2>9. CASE j.op = "register" /\ RegisterNew(j.key)
    <3>1. Fresh(j.key) # 0
      BY <2>3, <2>9, FreshIsNew
    <3>. QED BY <1>0, <2>1, <2>3, <2>4, <2>5, <2>7, <2>9, <3>1 DEF RegisterNew, QueueInv, TypeOK
  <2>10. CASE j.op = "release" /\ Release(j.key)
    BY <1>0, <2>1, <2>3, <2>4, <2>5, <2>10 DEF Release, QueueInv, TypeOK
  <2>11. CASE j.op = "reconcile" /\ Reconcile
    BY <1>0, <2>1, <2>4, <2>5, <2>7, <2>11 DEF Reconcile, QueueInv, TypeOK
  <2>. QED BY <2>6, <2>8, <2>9, <2>10, <2>11
<1>6. ASSUME Rename PROVE QueueInv'
  BY <1>0, <1>6 DEF Rename, QueueInv, TypeOK
<1>7. ASSUME EndOfJob, job.stage # "none", UNCHANGED <<execs, disk, queue>> PROVE QueueInv'
  <2>1. up # "down"
    BY <1>0, <1>7 DEF QueueInv
  <2>2. \A i \in DOMAIN queue : attach'[queue[i].key] = attach[queue[i].key] \/ queue[i].op # "register"
    BY <1>7 DEF EndOfJob, Done, QueueInv, TypeOK
  <2>. QED BY <1>0, <1>7, <2>1, <2>2 DEF EndOfJob, QueueInv, TypeOK
<1>8. ASSUME Finish \/ WriteFails PROVE QueueInv'
  BY <1>7, <1>8 DEF Finish, WriteFails
<1>9. ASSUME Crash \/ Boot PROVE QueueInv'
  BY <1>0, <1>9 DEF Crash, Boot, QueueInv
<1>10. ASSUME UNCHANGED registry PROVE QueueInv'
  BY <1>10 DEF registry, QueueInv
<1>11. ASSUME NEW k \in Key, NEW t \in Task,
              Create(t) \/ Purge(t) \/ Claim(k, t) \/ ReleaseTask(k, t) \/ DoneTask(k, t)
       PROVE  UNCHANGED registry
  BY <1>11 DEF Create, Purge, Claim, ReleaseTask, DoneTask
<1>12. ASSUME NEW t \in Task, Create(t) \/ Purge(t) PROVE UNCHANGED registry
  BY <1>12 DEF Create, Purge
<1>13. CASE UNCHANGED vars
  BY <1>10, <1>13 DEF vars
<1>. QED
  BY <1>1, <1>2, <1>3, <1>4, <1>5, <1>6, <1>8, <1>9, <1>10, <1>11, <1>12, <1>13 DEF Next, Jobs
-----------------------------------------------------------------------------
(* Who is known.                                                             *)

\* Every step keeps the tokens of the tabs that did not stray.
LEMMA StepKnown == TypeOK /\ QueueInv /\ KnownInv /\ [Next]_vars => KnownInv'
<1>. SUFFICES ASSUME TypeOK, QueueInv, KnownInv, [Next]_vars PROVE KnownInv'
  OBVIOUS
<1>0. None \notin Key /\ NoJob.stage = "none" /\ NoJob.op = "none"
  BY TasksAssumption DEF None, NoJob
<1>1. ASSUME NEW k \in Key, Attach(k) PROVE KnownInv'
  <2>. DEFINE j == [op |-> "register", key |-> k]
  <2>1. j \in Waiting /\ j.op = "register" /\ j.key = k
    BY DEF Waiting
  <2>2. /\ queue' = Append(queue, j) /\ attach[k] = "idle"
        /\ attach' = [attach EXCEPT ![k] = "registering"]
        /\ UNCHANGED <<up, proc, execs, disk, job, strayed>>
    BY <1>1 DEF Attach
  <2>. HIDE DEF j
  <2>3. \A x \in Key : NoRelease(x) => NoRelease(x)'
    BY <2>1, <2>2, Queued DEF NoRelease
  <2>. QED BY <2>1, <2>2, <2>3, Queued DEF KnownInv, Running, TypeOK
<1>2. ASSUME NEW k \in Key, Ensure(k) PROVE KnownInv'
  BY <1>2 DEF Ensure, KnownInv, NoRelease, Running, TypeOK
<1>3. ASSUME NEW k \in Key, NEW j \in Waiting, j.op = "release", j.key = k, queue' = Append(queue, j),
             attach'[k] = "idle", \A x \in Key \ {k} : attach'[x] = attach[x],
             attach[k] # "registering",
             proc'[k] = None, \A x \in Key \ {k} : proc'[x] = proc[x],
             strayed \ {k} \subseteq strayed',
             UNCHANGED <<up, execs, disk, job>>
      PROVE  KnownInv'
  <2>1. \A x \in Key \ {k} : NoRelease(x) => NoRelease(x)'
    BY <1>3, Queued DEF NoRelease
  <2>2. ASSUME NEW x \in Key \ strayed', x # k
        PROVE  /\ Running(x)' => /\ proc'[x] # 0 /\ disk'[x] = proc'[x] /\ NoRelease(x)'
                                 /\ up' # "down" => execs'[x] = proc'[x]
               /\ attach'[x] = "ensuring" /\ ~Running(x)' =>
                    execs'[x] # 0 /\ disk'[x] = execs'[x] /\ NoRelease(x)'
               /\ job'.op = "register" /\ job'.key = x => NoRelease(x)'
    BY <1>3, <2>1, <2>2 DEF KnownInv, Running
  <2>3. \A x \in Key \ strayed' : \A i1, i2 \in DOMAIN queue' :
          queue'[i1] = [op |-> "register", key |-> x] /\ queue'[i2] = [op |-> "release", key |-> x]
            => i2 < i1
    <3>. SUFFICES ASSUME NEW x \in Key \ strayed', NEW i1 \in DOMAIN queue', NEW i2 \in DOMAIN queue',
                         queue'[i1] = [op |-> "register", key |-> x],
                         queue'[i2] = [op |-> "release", key |-> x]
                  PROVE  i2 < i1
      OBVIOUS
    <3>1. i1 \in DOMAIN queue /\ queue[i1] = [op |-> "register", key |-> x]
      BY <1>3, Queued
    <3>2. x # k
      BY <1>3, <3>1 DEF QueueInv
    <3>3. i2 \in DOMAIN queue /\ queue[i2] = [op |-> "release", key |-> x]
      BY <1>3, <3>2, Queued
    <3>. QED BY <1>3, <3>1, <3>2, <3>3 DEF KnownInv
  <2>4. ~Running(k)' /\ attach'[k] = "idle" /\ ~(job'.op = "register" /\ job'.key = k)
    BY <1>3 DEF Running, QueueInv
  <2>. QED BY <2>2, <2>3, <2>4 DEF KnownInv
<1>4. ASSUME NEW k \in Key, NEW spawn \in BOOLEAN, EnsureFails(k, spawn) PROVE KnownInv'
  <2>1. CASE ~spawn
    BY <1>4, <2>1 DEF EnsureFails, KnownInv, NoRelease, Running, TypeOK
  <2>2. CASE spawn
    <3>1. [op |-> "release", key |-> k] \in Waiting
      BY DEF Waiting
    <3>. QED BY <1>3, <1>4, <2>2, <3>1 DEF EnsureFails, Running, TypeOK
  <2>. QED BY <2>1, <2>2
<1>5. ASSUME NEW k \in Key, Exit(k) PROVE KnownInv'
  <2>1. CASE up = "down"
    BY <1>5, <2>1 DEF Exit, QueueInv, KnownInv, NoRelease, Running, TypeOK
  <2>2. CASE up # "down" /\ attach[k] = "idle"
    <3>1. [op |-> "release", key |-> k] \in Waiting
      BY DEF Waiting
    <3>. QED BY <1>3, <1>5, <2>2, <3>1 DEF Exit, TypeOK
  <2>3. CASE up # "down" /\ attach[k] # "idle"
    <3>. DEFINE j == [op |-> "release", key |-> k]
    <3>1. j \in Waiting /\ j.op = "release" /\ j.key = k
      BY DEF Waiting
    <3>2. /\ queue' = Append(queue, j) /\ strayed' = strayed \cup {k}
          /\ \A x \in Key \ {k} : proc'[x] = proc[x]
          /\ UNCHANGED <<up, execs, disk, job, attach>>
      BY <1>5, <2>3 DEF Exit, TypeOK
    <3>. HIDE DEF j
    <3>3. \A x \in Key \ {k} : NoRelease(x) => NoRelease(x)'
      BY <3>1, <3>2, Queued DEF NoRelease
    <3>. QED BY <3>1, <3>2, <3>3, Queued DEF KnownInv, Running
  <2>. QED BY <2>1, <2>2, <2>3
<1>6. ASSUME StartJob PROVE KnownInv'
  <2>. DEFINE j == Head(queue)
  <2>1. /\ job = NoJob /\ up # "down" /\ queue # <<>> /\ queue' = Tail(queue)
        /\ UNCHANGED <<up, proc, disk, strayed>>
    BY <1>6 DEF StartJob
  <2>2. /\ j = queue[1] /\ DOMAIN queue = 1..Len(queue) /\ DOMAIN queue' = 1..(Len(queue) - 1)
        /\ Len(queue) \in Nat \ {0} /\ 1 \in DOMAIN queue
        /\ \A i \in DOMAIN queue' : queue'[i] = queue[i + 1] /\ i + 1 \in DOMAIN queue /\ i + 1 # 1
    BY <2>1, Taken
  <2>3. (j.op \in {"register", "release"} => j.key \in Key) /\ j \in Waiting
    BY <2>1, <2>2, Taken DEF QueueInv
  <2>4. \/ j.op = "register" /\ RegisterAgain(j.key)
        \/ j.op = "register" /\ RegisterNew(j.key)
        \/ j.op = "release" /\ Release(j.key)
        \/ j.op = "reconcile" /\ Reconcile
    BY <1>6 DEF StartJob
  <2>5. \A x \in Key \ strayed : \A i1, i2 \in DOMAIN queue' :
          queue'[i1] = [op |-> "register", key |-> x] /\ queue'[i2] = [op |-> "release", key |-> x]
            => i2 < i1
    <3>. SUFFICES ASSUME NEW x \in Key \ strayed, NEW i1 \in DOMAIN queue', NEW i2 \in DOMAIN queue',
                         queue[i1 + 1] = [op |-> "register", key |-> x],
                         queue[i2 + 1] = [op |-> "release", key |-> x]
                  PROVE  i2 < i1
      BY <2>2
    <3>1. i2 + 1 < i1 + 1
      BY <2>2 DEF KnownInv
    <3>. QED BY <2>2, <3>1
  <2>6. \A x \in Key : NoRelease(x) =>
          /\ \A i \in DOMAIN queue' : queue'[i].op = "release" => queue'[i].key # x
          /\ ~(j.op = "release" /\ j.key = x)
    BY <2>2 DEF NoRelease
  <2>7. ASSUME NEW x \in Key \ strayed, j.op = "register", j.key = x
        PROVE  \A i \in DOMAIN queue' : queue'[i].op = "release" => queue'[i].key # x
    <3>. SUFFICES ASSUME NEW i \in DOMAIN queue', queue[i + 1].op = "release", queue[i + 1].key = x
                  PROVE  FALSE
      BY <2>2
    <3>1. queue[1] = [op |-> "register", key |-> x] /\ queue[i + 1] = [op |-> "release", key |-> x]
      <4>. DEFINE W == Waiting
      <4>1. queue \in Seq(W)
        BY DEF TypeOK, Waiting
      <4>2. 1 \in 1..Len(queue) /\ i + 1 \in 1..Len(queue)
        BY <2>2
      <4>. HIDE DEF W
      <4>3. queue[1] \in W /\ queue[i + 1] \in W
        BY <4>1, <4>2
      <4>. QED BY <2>2, <2>7, <4>3 DEF W, Waiting
    <3>. QED BY <2>2, <3>1 DEF KnownInv
  <2>. HIDE DEF j
  <2>8. CASE j.op = "register" /\ RegisterAgain(j.key)
    BY <1>0, <2>1, <2>3, <2>5, <2>6, <2>8 DEF RegisterAgain, Done, KnownInv, NoRelease, Running, TypeOK
  <2>9. CASE j.op = "register" /\ RegisterNew(j.key)
    <3>1. attach[j.key] = "registering"
      BY <2>2, <2>9 DEF QueueInv
    <3>2. job'.op = "register" /\ job'.key = j.key /\ UNCHANGED attach
          /\ \A x \in Key \ {j.key} : execs'[x] = execs[x]
      BY <2>9 DEF RegisterNew, TypeOK
    <3>3. j.key \notin strayed => ~Running(j.key)
      BY <2>1, <2>3, <2>9 DEF RegisterNew, KnownInv
    <3>. QED BY <2>1, <2>3, <2>5, <2>6, <2>7, <2>9, <3>1, <3>2, <3>3 DEF KnownInv, NoRelease, Running
  <2>10. CASE j.op = "release" /\ Release(j.key)
    <3>1. job'.op \in {"none", "release"} /\ (job'.op = "release" => job'.key = j.key) /\ UNCHANGED attach
          /\ \A x \in Key \ {j.key} : execs'[x] = execs[x]
      BY <1>0, <2>10 DEF Release, TypeOK
    <3>. QED BY <2>1, <2>3, <2>5, <2>6, <2>10, <3>1 DEF KnownInv, NoRelease, Running
  <2>11. CASE j.op = "reconcile" /\ Reconcile
    <3>1. up = "boot"
      BY <2>2, <2>11 DEF QueueInv
    <3>2. \A x \in Key : attach'[x] = "idle"
      BY <2>11, <3>1 DEF Reconcile, QueueInv
    <3>3. job'.op = "reconcile" /\ \A x \in Key : Running(x) /\ execs[x] # 0 => execs'[x] = execs[x]
      BY <2>11 DEF Reconcile
    <3>. QED BY <2>1, <2>5, <2>6, <2>11, <3>2, <3>3 DEF KnownInv, NoRelease, Running
  <2>. QED BY <2>4, <2>8, <2>9, <2>10, <2>11
<1>7. ASSUME Rename PROVE KnownInv'
  <2>1. up # "down" /\ disk' = execs /\ job'.op = job.op /\ job'.key = job.key
        /\ UNCHANGED <<up, proc, execs, queue, attach, strayed>>
    BY <1>0, <1>7 DEF Rename, QueueInv, TypeOK
  <2>. QED BY <2>1 DEF KnownInv, NoRelease, Running
<1>8. ASSUME EndOfJob, job.stage # "none", strayed \subseteq strayed', UNCHANGED <<proc, execs, disk, queue>>,
             job.op = "register" => job.stage = "renamed" \/ job.key \in strayed'
      PROVE  KnownInv'
  <2>1. up # "down" /\ job'.op = "none"
    BY <1>0, <1>8 DEF QueueInv, EndOfJob
  <2>2. \A x \in Key : NoRelease(x) => NoRelease(x)'
    BY <1>8, <2>1 DEF NoRelease
  <2>3. \A x \in Key : attach'[x] = "ensuring" =>
          attach[x] = "ensuring" \/ (job.op = "register" /\ job.key = x)
    BY <1>8 DEF EndOfJob, Done, TypeOK
  <2>4. job.op = "register" => execs[job.key] # 0
    BY DEF QueueInv
  <2>5. job.stage = "renamed" => disk = execs
    BY DEF QueueInv
  <2>. QED BY <1>8, <2>1, <2>2, <2>3, <2>4, <2>5 DEF KnownInv, Running
<1>9. ASSUME Finish \/ WriteFails PROVE KnownInv'
  BY <1>0, <1>8, <1>9 DEF Finish, WriteFails
<1>10. ASSUME Crash PROVE KnownInv'
  BY <1>0, <1>10 DEF Crash, KnownInv, NoRelease, Running, TypeOK
<1>11. ASSUME Boot PROVE KnownInv'
  <2>1. \A x \in Key : NoRelease(x)'
    BY <1>0, <1>11 DEF Boot, NoRelease, QueueInv
  <2>. QED BY <1>0, <1>11, <2>1 DEF Boot, KnownInv, QueueInv, Running
<1>12. ASSUME UNCHANGED <<registry, strayed>> PROVE KnownInv'
  BY <1>12 DEF registry, KnownInv, NoRelease, Running
<1>13. ASSUME NEW t \in Task, Create(t) \/ Purge(t) PROVE UNCHANGED <<registry, strayed>>
  BY <1>13 DEF Create, Purge
<1>14. ASSUME NEW k \in Key, NEW t \in Task, Claim(k, t) \/ ReleaseTask(k, t) \/ DoneTask(k, t)
       PROVE  UNCHANGED <<registry, strayed>>
  BY <1>14 DEF Claim, ReleaseTask, DoneTask
<1>15. CASE UNCHANGED vars
  BY <1>12, <1>15 DEF vars
<1>. QED
  BY <1>1, <1>2, <1>4, <1>5, <1>6, <1>7, <1>9, <1>10, <1>11, <1>12, <1>13, <1>14, <1>15 DEF Next, Jobs
-----------------------------------------------------------------------------
(* Who holds a claim.                                                        *)

\* Every step keeps what the mirror is behind with.
LEMMA StepMirror == TypeOK /\ QueueInv /\ MirrorInv /\ [Next]_vars => MirrorInv'
<1>. SUFFICES ASSUME TypeOK, QueueInv, MirrorInv, [Next]_vars PROVE MirrorInv'
  OBVIOUS
<1>0. None \notin Key /\ NoJob.stage = "none" /\ NoJob.op = "none" /\ None \notin Exec /\ 0 \in Exec
  BY TasksAssumption, FS_CardinalityType DEF None, NoJob, Exec
<1>. DEFINE New(k) == /\ job.stage = "writing"
                      /\ execs[k] = 0 \/ (execs[k] # proc[k] /\ execs[k] \notin Claims(k))
                      /\ execs[k] # 0 => job.op = "reconcile" \/ (job.op = "register" /\ job.key = k)
<1>1. ASSUME UNCHANGED <<up, execs, disk, job, stale>>,
             \A k \in Key : proc'[k] \in {proc[k], None} \/ (up = "up" /\ attach[k] = "ensuring"),
             UNCHANGED tasks
      PROVE  MirrorInv'
  <2>. SUFFICES ASSUME NEW k \in Key, up # "down", ~stale, execs[k] # disk[k] PROVE New(k)'
    BY <1>1 DEF MirrorInv
  <2>1. New(k)
    BY DEF MirrorInv
  <2>2. Claims(k)' = Claims(k)
    BY <1>1 DEF Claims
  <2>3. execs[k] = 0 \/ proc'[k] \in {proc[k], None}
    BY <1>1, <2>1 DEF QueueInv
  <2>. QED BY <1>0, <1>1, <2>1, <2>2, <2>3 DEF TypeOK
<1>2. ASSUME NEW k \in Key, Attach(k) \/ Ensure(k) \/ Exit(k) PROVE MirrorInv'
  BY <1>1, <1>2 DEF Attach, Ensure, Exit, TypeOK
<1>3. ASSUME NEW k \in Key, NEW spawn \in BOOLEAN, EnsureFails(k, spawn) PROVE MirrorInv'
  BY <1>1, <1>3 DEF EnsureFails
<1>4. ASSUME StartJob PROVE MirrorInv'
  <2>1. job = NoJob /\ UNCHANGED <<up, proc, disk, tasks, stale>>
    BY <1>4 DEF StartJob
  <2>2. PICK j \in {Head(queue)} :
          \/ RegisterAgain(j.key)
          \/ RegisterNew(j.key) /\ j.key \in Key
          \/ Release(j.key) /\ j.key \in Key
          \/ Reconcile /\ up = "boot"
    <3>1. Head(queue) = queue[1] /\ 1 \in DOMAIN queue
      BY <1>4, Taken DEF StartJob
    <3>. QED BY <1>4, <3>1 DEF StartJob, QueueInv
  <2>. SUFFICES ASSUME up # "down", ~stale
                PROVE  /\ \A k \in Key : execs'[k] # disk[k] => New(k)'
                       /\ job'.stage = "writing" => \A x \in job'.dropped : disk[x[1]] = x[2]
    BY <2>1 DEF MirrorInv
  <2>3. \A k \in Key : execs[k] = disk[k]
    BY <1>0, <2>1 DEF MirrorInv
  <2>4. \A k \in Key : Claims(k)' = Claims(k)
    BY <2>1 DEF Claims
  <2>5. CASE RegisterAgain(j.key)
    BY <1>0, <2>1, <2>3, <2>5 DEF RegisterAgain
  <2>6. CASE RegisterNew(j.key) /\ j.key \in Key
    <3>1. Fresh(j.key) # proc[j.key] /\ Fresh(j.key) \notin Claims(j.key)
      BY <2>6, FreshIsNew
    <3>. QED BY <2>1, <2>3, <2>4, <2>6, <3>1 DEF RegisterNew, TypeOK
  <2>7. CASE Release(j.key) /\ j.key \in Key
    BY <1>0, <2>1, <2>3, <2>7 DEF Release, TypeOK
  <2>8. CASE Reconcile /\ up = "boot"
    <3>1. \A k \in Key : Fresh(k) # proc[k] /\ Fresh(k) \notin Claims(k)
      BY FreshIsNew
    <3>2. ASSUME NEW k \in Key, execs'[k] # disk[k]
          PROVE  execs'[k] = 0 \/ execs'[k] = Fresh(k)
      BY <2>3, <2>8, <3>2 DEF Reconcile
    <3>3. (\E k \in Key : execs'[k] # disk[k]) => job'.stage = "writing" /\ job'.op = "reconcile"
      BY <2>3, <2>8 DEF Reconcile
    <3>4. \A x \in job'.dropped : disk[x[1]] = x[2]
      BY <2>3, <2>8 DEF Reconcile, Dead
    <3>. QED BY <2>1, <2>4, <3>1, <3>2, <3>3, <3>4
  <2>. QED BY <2>2, <2>5, <2>6, <2>7, <2>8
<1>5. ASSUME Rename PROVE MirrorInv'
  BY <1>5 DEF Rename, MirrorInv, TypeOK
<1>6. ASSUME Finish \/ WriteFails PROVE MirrorInv'
  <2>1. job' = NoJob /\ UNCHANGED <<execs, disk>> /\ (~stale' => job.stage = "renamed")
    <3>1. CASE Finish
      BY <3>1 DEF Finish, EndOfJob
    <3>2. CASE WriteFails
      BY <3>2 DEF WriteFails, EndOfJob
    <3>. QED BY <1>6, <3>1, <3>2
  <2>2. ~stale' => disk = execs
    BY <2>1 DEF QueueInv
  <2>. QED BY <1>0, <2>1, <2>2 DEF MirrorInv
<1>7. ASSUME Crash PROVE MirrorInv'
  BY <1>7 DEF Crash, MirrorInv
<1>8. ASSUME Boot PROVE MirrorInv'
  BY <1>0, <1>8 DEF Boot, MirrorInv, QueueInv
<1>9. ASSUME UNCHANGED <<registry, stale>>,
             \A k \in Key : Claims(k)' \subseteq Claims(k)
                            \/ (Claims(k)' \subseteq Claims(k) \cup {execs[k]} /\ proc[k] = execs[k])
      PROVE  MirrorInv'
  BY <1>9 DEF MirrorInv, registry
<1>10. ASSUME NEW t \in Task, Create(t) \/ Purge(t) PROVE MirrorInv'
  <2>1. \A u \in Task : tasks'[u].by = tasks[u].by \/ tasks'[u].by = Nobody
    BY <1>10 DEF Create, Purge, TypeOK
  <2>2. \A x \in Key : Claims(x)' \subseteq Claims(x)
    BY <1>0, <2>1 DEF Claims, Nobody
  <2>. QED BY <1>9, <1>10, <2>2 DEF Create, Purge
<1>11. ASSUME NEW k \in Key, NEW t \in Task, Claim(k, t) PROVE MirrorInv'
  <2>1. \A u \in Task : tasks'[u].by = tasks[u].by \/ tasks'[u].by = <<k, execs[k]>>
    BY <1>11 DEF Claim, TypeOK
  <2>2. \A x \in Key : Claims(x)' \subseteq Claims(x) \cup (IF x = k THEN {execs[k]} ELSE {})
    BY <2>1 DEF Claims
  <2>3. proc[k] = execs[k]
    BY <1>11 DEF Claim, Known
  <2>. QED BY <1>9, <1>11, <2>2, <2>3 DEF Claim
<1>12. ASSUME NEW k \in Key, NEW t \in Task, ReleaseTask(k, t) \/ DoneTask(k, t) PROVE MirrorInv'
  <2>1. \A u \in Task : tasks'[u].by = tasks[u].by \/ tasks'[u].by = Nobody
    BY <1>12 DEF ReleaseTask, DoneTask, TypeOK
  <2>2. \A x \in Key : Claims(x)' \subseteq Claims(x)
    BY <1>0, <2>1 DEF Claims, Nobody
  <2>. QED BY <1>9, <1>12, <2>2 DEF ReleaseTask, DoneTask
<1>13. CASE UNCHANGED vars
  BY <1>1, <1>13 DEF vars, registry
<1>. QED
  BY <1>2, <1>3, <1>4, <1>5, <1>6, <1>7, <1>8, <1>10, <1>11, <1>12, <1>13 DEF Next, Jobs

\* What a claim names: a row's holder in a state.
Holds(x) == x[2] = (IF up = "down" THEN disk ELSE execs)[x[1]]

\* A claim that is made is of a registered execution, and whoever stops holding
\* it is dropped, leaked or still on disk.
LEMMA StepHeld ==
  TypeOK /\ QueueInv /\ MirrorInv /\ ClaimInv /\ ClaimIsHeld /\ [Next]_vars
    => ClaimInv' /\ ClaimIsHeld'
<1>. SUFFICES ASSUME TypeOK, QueueInv, MirrorInv, ClaimInv, ClaimIsHeld, [Next]_vars
              PROVE  ClaimInv' /\ ClaimIsHeld'
  OBVIOUS
<1>0. None \notin Key /\ NoJob.stage = "none" /\ NoJob.dropped = {}
  BY TasksAssumption DEF None, NoJob
<1>1. \A t \in Task : tasks[t].status = "claimed" =>
        /\ tasks[t].by \in Key \X Exec /\ tasks[t].by[1] \in Key /\ tasks[t].by[2] # 0
        /\ tasks[t].by = <<tasks[t].by[1], tasks[t].by[2]>>
        /\ Holds(tasks[t].by) \/ tasks[t].by \in job.dropped \/ tasks[t].by \in leaked
  BY DEF TypeOK, ClaimInv, ClaimIsHeld, Holds
<1>2. ASSUME \A t \in Task : tasks'[t].status = "claimed" =>
               tasks'[t].by = tasks[t].by /\ tasks[t].status = "claimed",
             \A t \in Task : tasks'[t].status = "claimed" =>
               Holds(tasks[t].by)' \/ tasks[t].by \in job'.dropped \/ tasks[t].by \in leaked'
      PROVE  ClaimInv' /\ ClaimIsHeld'
  <2>1. ClaimInv'
    BY <1>2 DEF ClaimInv
  <2>2. ClaimIsHeld'
    BY <1>2 DEF ClaimIsHeld, Holds
  <2>. QED BY <2>1, <2>2
<1>3. ASSUME UNCHANGED <<up, execs, disk, job, leaked, tasks>> PROVE ClaimInv' /\ ClaimIsHeld'
  BY <1>1, <1>2, <1>3 DEF Holds
<1>4. ASSUME NEW k \in Key, Attach(k) \/ Ensure(k) \/ Exit(k) PROVE ClaimInv' /\ ClaimIsHeld'
  BY <1>3, <1>4 DEF Attach, Ensure, Exit
<1>5. ASSUME NEW k \in Key, NEW spawn \in BOOLEAN, EnsureFails(k, spawn) PROVE ClaimInv' /\ ClaimIsHeld'
  BY <1>3, <1>5 DEF EnsureFails
<1>6. ASSUME StartJob PROVE ClaimInv' /\ ClaimIsHeld'
  <2>1. job = NoJob /\ up # "down" /\ UNCHANGED <<up, disk, tasks>>
    BY <1>6 DEF StartJob
  <2>2. PICK k : RegisterAgain(k) \/ (RegisterNew(k) /\ k \in Key) \/ (Release(k) /\ k \in Key) \/ Reconcile
    <3>1. Head(queue) = queue[1] /\ 1 \in DOMAIN queue
      BY <1>6, Taken DEF StartJob
    <3>. QED BY <1>6, <3>1 DEF StartJob, QueueInv
  <2>3. \A t \in Task : tasks[t].status = "claimed" =>
          execs[tasks[t].by[1]] = tasks[t].by[2] \/ tasks[t].by \in leaked
    BY <1>0, <1>1, <2>1 DEF Holds
  <2>. SUFFICES ASSUME NEW t \in Task, tasks[t].status = "claimed"
                PROVE  \/ execs'[tasks[t].by[1]] = tasks[t].by[2]
                       \/ tasks[t].by \in job'.dropped \/ tasks[t].by \in leaked'
    BY <1>2, <2>1 DEF Holds
  <2>4. CASE RegisterAgain(k)
    BY <2>3, <2>4 DEF RegisterAgain
  <2>5. CASE RegisterNew(k) /\ k \in Key
    <3>1. tasks[t].by \in leaked \cup {<<k, execs[k]>>} => tasks[t].by \in leaked'
      BY <2>5, LeakType DEF RegisterNew
    <3>2. CASE tasks[t].by[1] = k
      BY <1>1, <2>3, <3>1, <3>2
    <3>3. CASE tasks[t].by[1] # k
      BY <1>1, <2>3, <2>5, <3>1, <3>3 DEF RegisterNew, TypeOK
    <3>. QED BY <3>2, <3>3
  <2>6. CASE Release(k) /\ k \in Key
    <3>1. CASE tasks[t].by[1] = k /\ tasks[t].by \notin leaked
      BY <1>1, <2>3, <2>6, <3>1 DEF Release
    <3>2. CASE tasks[t].by[1] # k \/ tasks[t].by \in leaked
      BY <1>1, <2>3, <2>6, <3>2 DEF Release, TypeOK
    <3>. QED BY <3>1, <3>2
  <2>7. CASE Reconcile
    <3>1. CASE tasks[t].by \in leaked
      BY <2>7, <3>1 DEF Reconcile
    <3>2. CASE tasks[t].by[1] \in Dead /\ tasks[t].by \notin leaked
      BY <1>1, <2>3, <2>7, <3>2 DEF Reconcile
    <3>3. CASE tasks[t].by[1] \notin Dead /\ tasks[t].by \notin leaked
      BY <1>1, <2>3, <2>7, <3>3 DEF Reconcile, Dead
    <3>. QED BY <3>1, <3>2, <3>3
  <2>. QED BY <2>2, <2>4, <2>5, <2>6, <2>7
<1>7. ASSUME Rename PROVE ClaimInv' /\ ClaimIsHeld'
  <2>1. up # "down" /\ job'.dropped = job.dropped /\ UNCHANGED <<up, execs, leaked, tasks>>
    BY <1>0, <1>7 DEF Rename, QueueInv, TypeOK
  <2>. QED BY <1>1, <1>2, <2>1 DEF Holds
<1>8. ASSUME Finish PROVE ClaimInv' /\ ClaimIsHeld'
  <2>1. up # "down" /\ up' # "down" /\ UNCHANGED execs
    BY <1>0, <1>8 DEF Finish, EndOfJob, QueueInv
  <2>2. tasks' = Freed(job.dropped) /\ leaked' = Leak({}, tasks')
    BY <1>8 DEF Finish
  <2>. QED BY <1>1, <1>2, <2>1, <2>2, FreedType, LeakType DEF Holds
<1>9. ASSUME WriteFails PROVE ClaimInv' /\ ClaimIsHeld'
  <2>1. up # "down" /\ up' # "down" /\ UNCHANGED <<execs, tasks>>
    BY <1>0, <1>9 DEF WriteFails, EndOfJob, QueueInv
  <2>2. leaked' = Leak(job.dropped, tasks)
    BY <1>9 DEF WriteFails
  <2>. QED BY <1>1, <1>2, <2>1, <2>2, LeakType DEF Holds
<1>10. ASSUME Crash PROVE ClaimInv' /\ ClaimIsHeld'
  <2>1. up # "down" /\ up' = "down" /\ leaked' = Leak(Unseen, tasks) /\ UNCHANGED <<disk, tasks>>
    BY <1>10 DEF Crash
  <2>. SUFFICES ASSUME NEW t \in Task, tasks[t].status = "claimed"
                PROVE  disk[tasks[t].by[1]] = tasks[t].by[2] \/ tasks[t].by \in leaked \cup Unseen
    BY <1>2, <2>1, LeakType DEF Holds
  <2>. DEFINE x == tasks[t].by
  <2>2. CASE x \in job.dropped
    <3>1. CASE stale \/ job.stage = "renamed"
      BY <2>2, <3>1 DEF Unseen
    <3>2. CASE ~stale /\ job.stage = "writing"
      BY <2>1, <2>2, <3>2 DEF MirrorInv
    <3>3. job.stage # "none"
      BY <1>0, <2>2 DEF QueueInv
    <3>. QED BY <3>1, <3>2, <3>3 DEF TypeOK
  <2>3. CASE x[2] = execs[x[1]] /\ disk[x[1]] # execs[x[1]]
    <3>1. CASE stale
      BY <1>1, <2>3, <3>1 DEF Unseen
    <3>2. CASE ~stale
      <4>1. execs[x[1]] \in Claims(x[1])
        BY <2>3 DEF Claims
      <4>. QED BY <1>1, <2>1, <2>3, <3>2, <4>1 DEF MirrorInv
    <3>. QED BY <3>1, <3>2
  <2>. QED BY <1>1, <2>1, <2>2, <2>3 DEF Holds
<1>11. ASSUME Boot PROVE ClaimInv' /\ ClaimIsHeld'
  BY <1>1, <1>2, <1>11 DEF Boot, Holds
<1>12. ASSUME NEW t \in Task, Create(t) \/ Purge(t) PROVE ClaimInv' /\ ClaimIsHeld'
  <2>1. \A u \in Task : tasks'[u].status = "claimed" => tasks'[u] = tasks[u]
    BY <1>12 DEF Create, Purge, TypeOK
  <2>2. UNCHANGED <<up, execs, disk, job, leaked>>
    BY <1>12 DEF Create, Purge, registry
  <2>. QED BY <1>1, <1>2, <2>1, <2>2 DEF Holds
<1>13. ASSUME NEW k \in Key, NEW t \in Task, Claim(k, t) PROVE ClaimInv' /\ ClaimIsHeld'
  <2>1. up = "up" /\ execs[k] # 0 /\ UNCHANGED <<up, execs, disk, job, leaked>>
    BY <1>13 DEF Claim, Known, registry
  <2>2. \A u \in Task : tasks'[u] = tasks[u] \/ (tasks'[u].status = "claimed" /\ tasks'[u].by = <<k, execs[k]>>)
    BY <1>13 DEF Claim, TypeOK
  <2>3. ClaimInv'
    BY <2>1, <2>2 DEF ClaimInv
  <2>4. ClaimIsHeld'
    BY <2>1, <2>2 DEF ClaimIsHeld
  <2>. QED BY <2>3, <2>4
<1>14. ASSUME NEW k \in Key, NEW t \in Task, ReleaseTask(k, t) \/ DoneTask(k, t)
       PROVE  ClaimInv' /\ ClaimIsHeld'
  <2>1. UNCHANGED <<up, execs, disk, job>> /\ leaked' = Leak({}, tasks')
    BY <1>14 DEF ReleaseTask, DoneTask, registry
  <2>2. \A u \in Task : tasks'[u].status = "claimed" => tasks'[u] = tasks[u]
    BY <1>14 DEF ReleaseTask, DoneTask, TypeOK
  <2>. QED BY <1>1, <1>2, <2>1, <2>2, LeakType DEF Holds
<1>15. CASE UNCHANGED vars
  BY <1>3, <1>15 DEF vars, registry
<1>. QED
  BY <1>4, <1>5, <1>6, <1>7, <1>8, <1>9, <1>10, <1>11, <1>12, <1>13, <1>14, <1>15 DEF Next, Jobs
-----------------------------------------------------------------------------
(* The theorems.                                                             *)

\* At first nothing runs, waits or is claimed.
LEMMA InitIInv == Init => IInv
<1>. SUFFICES ASSUME Init PROVE IInv
  OBVIOUS
<1>0. 0 \in Exec /\ Nobody \notin Key \X Exec
  BY TasksAssumption, FS_CardinalityType DEF Exec, Nobody, None
<1>1. TypeOK
  <2>1. stale \in BOOLEAN
    BY Zenon DEF Init
  <2>2. queue \in Seq([op : {"register", "release", "reconcile"}, key : Key \cup {None}])
    BY DEF Init
  <2>. QED BY <1>0, <2>1, <2>2 DEF Init, TypeOK, NoJob
<1>2. QueueInv /\ KnownInv /\ MirrorInv /\ ClaimInv /\ ClaimIsHeld
  BY DEF Init, QueueInv, KnownInv, MirrorInv, ClaimInv, ClaimIsHeld, NoJob, Running
<1>. QED BY <1>1, <1>2 DEF IInv

\* The inductive invariant holds in every reachable state.
THEOREM TasksAlways == Spec => []IInv
<1>1. IInv /\ [Next]_vars => IInv'
  BY StepType, StepQueue, StepKnown, StepMirror, StepHeld DEF IInv
<1>. QED BY <1>1, InitIInv, PTL DEF Spec

\* Type correctness of the registry and the tasks.
THEOREM TasksTypeCorrect == Spec => []TypeOK
<1>1. IInv => TypeOK
  BY DEF IInv
<1>. QED BY <1>1, TasksAlways, PTL

\* A claimed task is held by an execution that is registered, or whose drop will
\* be notified, or whose notification a crash or a failed write swallowed
\* (notifyDropped, releaseClaimsOf).
THEOREM NoDeadClaims == Spec => []ClaimIsHeld
<1>1. IInv => ClaimIsHeld
  BY DEF IInv
<1>. QED BY <1>1, TasksAlways, PTL

\* The token of a running process is the registered one (register, reconcile,
\* byToken).
THEOREM RunningSpeaks == Spec => []RunningIsKnown
<1>1. IInv => RunningIsKnown
  BY DEF IInv, KnownInv, RunningIsKnown
<1>. QED BY <1>1, TasksAlways, PTL
=============================================================================

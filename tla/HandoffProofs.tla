--------------------------- MODULE HandoffProofs ----------------------------
(***************************************************************************)
(* Proofs about the upgrade handoff of the PTY daemon (PtydHandoff), for   *)
(* any number of daemons, terminals and units, with and without reads past *)
(* a pause.  The inductive invariant has four parts:                       *)
(*   the line      the processes that live form a line in which each one   *)
(*                 but the last is winding down in favour of the next, and *)
(*                 shares with those above only what it handed over;       *)
(*   the masters   whoever serves or will serve a terminal holds it open;  *)
(*   the freeze    what was handed over is frozen below, or thawed, and    *)
(*                 only what was opened late is in no snapshot;            *)
(*   the units     what was read is with whoever serves or would serve.    *)
(***************************************************************************)
EXTENDS PtydHandoff, TLAPS

Active  == Up \cup {"boot"}
Winding == {"waiting", "handedOff", "closed"}

(* The line of processes.  A process is Active while it lives, Winding once   *)
(* it has started a successor that may take over.                            *)

\* Processes start in order and find nothing of their own.
Started ==
  /\ \A p, q \in Proc : p < q /\ status[p] = "off" => status[q] = "off"
  /\ \A p \in Proc : status[p] \in {"off", "boot"} => mail[p] = "none" /\ sessions[p] = {}
  /\ \A p \in Proc : status[p] = "off" => fds[p] = {} /\ captured[p] = {}

\* Who winds down has a successor that started after it.
Parents ==
  \A p \in Proc : status[p] \in Winding =>
    child[p] \in Proc /\ p < child[p] /\ parent[child[p]] = p /\ status[child[p]] # "off"

\* Nothing starts while a handoff is open; an ack in the mail is of a living one.
Waits ==
  \A p \in Proc : status[p] = "waiting" =>
    /\ status[child[p]] \in {"boot", "acked", "dead"}
    /\ \A q \in Proc : child[p] < q => status[q] = "off"
    /\ mail[child[p]] = "ack" /\ ~crashed => status[child[p]] = "acked"

\* Below another living process everyone winds down, and shares what it gave.
Line ==
  \A p, q \in Proc : p < q /\ status[p] \in Active /\ status[q] \in Active =>
    /\ status[p] \in Winding /\ child[p] <= q
    /\ sessions[p] \cap (sessions[q] \cup captured[q]) \subseteq captured[child[p]]

(* Terminals and masters.                                                    *)
\* Sessions it holds masters of; the ones it needs them for.
Own(p)   == IF status[p] = "boot" THEN captured[p] ELSE sessions[p]
Wants(p) == IF status[p] \in {"boot", "acked"} THEN captured[p] ELSE sessions[p]
Keeps    == {"boot", "acked", "serving", "waiting"}

\* Masters are held for sessions only, and for every running one to be served.
Masters ==
  /\ \A i \in Id : shell[i] = "none" =>
       made[i] = 0 /\ \A p \in Proc : i \notin sessions[p] \cup captured[p] \cup fds[p]
  /\ \A p \in Proc : status[p] \in Active => fds[p] \subseteq Own(p)
  /\ \A p \in Proc : status[p] \in Keeps =>
       \A i \in Wants(p) : shell[i] = "running" => i \in fds[p]
  /\ \A p \in Proc : status[p] = "acked" => sessions[p] \subseteq captured[p]

\* The freeze of a handoff lasts, but for what resumePaused thaws.
Freezes ==
  \A p \in Proc : status[p] \in Winding =>
    sessions[p] \cap captured[child[p]] \subseteq frozen[p] \cup thawed[p]

(* Who keeps a terminal open.                                                *)

\* Only a terminal opened while the ack was awaited is in no snapshot.
Lates ==
  \A p \in Proc : status[p] \in Winding => sessions[p] \subseteq captured[child[p]] \cup late

\* The process that serves, or that will once it binds.
Front(f) == \/ status[f] \in {"serving", "waiting"}
            \/ status[f] = "acked" /\ parent[f] \in Proc /\ status[parent[f]] \in {"handedOff", "closed", "dead"}

\* It holds every running terminal open.
Open1 ==
  ~crashed => \A i \in Id \ late : shell[i] = "running" => \E f \in Proc : Front(f) /\ i \in fds[f]

(* What was read.                                                            *)

\* Units process p has, or that the histories account for.
Has(p, i) == ring[p][i] \cup stream[p][i] \cup spoiled[i] \cup leaked[i]
\* What a paused stream holds leaked into it.
Streams == \A p \in Proc : \A i \in Id : stream[p][i] \subseteq leaked[i]
\* While a handoff is open its successor reads on behalf of p.
Known(p, i) == Has(p, i) \cup IF status[p] = "waiting" THEN ring[child[p]][i] ELSE {}
\* Nothing read is missing where it is served or will be.
Gaps ==
  \A p \in Proc : status[p] \in Keeps => \A i \in Wants(p) : 1..taken[i] \subseteq Known(p, i)

-----------------------------------------------------------------------------
(* Types.                                                                    *)

Sets  == [Proc -> SUBSET Id]
Units == [Proc -> [Id -> SUBSET Unit]]
Shell == {"none", "running", "exited", "killed", "hungup"}

\* The types, one by one.
LEMMA Types ==
  TypeOK <=>
    /\ shell \in [Id -> Shell]
    /\ made \in [Id -> 0..MaxOut]
    /\ taken \in [Id -> 0..MaxOut] /\ \A i \in Id : taken[i] <= made[i]
    /\ status \in [Proc -> Status]
    /\ parent \in [Proc -> 0..N] /\ child \in [Proc -> 0..N]
    /\ mail \in [Proc -> {"none", "ack", "nak"}]
    /\ linger \in BOOLEAN
    /\ sessions \in Sets /\ fds \in Sets /\ adopted \in Sets /\ frozen \in Sets
    /\ held \in Sets /\ captured \in Sets /\ thawed \in Sets
    /\ ring \in Units /\ stream \in Units
    /\ leaked \in [Id -> SUBSET Unit] /\ spoiled \in [Id -> SUBSET Unit]
    /\ late \in SUBSET Id /\ crashed \in BOOLEAN /\ deaf \in SUBSET Proc
  BY DEF TypeOK, Sets, Units, Shell

\* Resuming moves what the paused streams held to the rings.
LEMMA ResumeType ==
  ASSUME TypeOK, NEW p \in Proc, NEW S, Resume(p, S)
  PROVE  /\ frozen' \in Sets /\ ring' \in Units /\ stream' \in Units
         /\ frozen'[p] = frozen[p] \ S
         /\ \A q \in Proc \ {p} : frozen'[q] = frozen[q] /\ ring'[q] = ring[q] /\ stream'[q] = stream[q]
         /\ \A i \in Id : /\ ring[p][i] \subseteq ring'[p][i] /\ stream'[p][i] \subseteq stream[p][i]
                          /\ ring[p][i] \cup stream[p][i] \subseteq ring'[p][i] \cup stream'[p][i]
<1>. USE Types DEF Sets, Units
<1>1. ring' \in Units /\ stream' \in Units /\ frozen' \in Sets
  BY DEF Resume
<1>. QED BY <1>1 DEF Resume

\* A process that goes leaves nothing open.
LEMMA GoneType ==
  ASSUME TypeOK, NEW p, Gone(p)
  PROVE  /\ fds' \in Sets /\ sessions' \in Sets /\ held' \in Sets
         /\ p \in Proc => fds'[p] = {} /\ sessions'[p] = {}
         /\ \A q \in Proc \ {p} : fds'[q] = fds[q] /\ sessions'[q] = sessions[q]
  BY Types DEF Sets, Gone

\* A hangup hits running terminals that nobody holds open, and nothing else.
LEMMA HangUpType ==
  ASSUME TypeOK, NEW open
  PROVE  /\ HangUp(open) \in [Id -> Shell]
         /\ \A i \in Id : HangUp(open)[i] # shell[i] =>
              /\ shell[i] = "running" /\ HangUp(open)[i] = "hungup"
              /\ \A p \in Proc : i \notin open[p]
         /\ \A i \in Id : HangUp(open)[i] = "running" => shell[i] = "running" /\ \E p \in Proc : i \in open[p]
  BY Types DEF HangUp, Shell

\* Every step keeps the types.
LEMMA StepType == TypeOK /\ Parents /\ [Next]_vars => TypeOK'
<1>. SUFFICES ASSUME TypeOK, Parents, [Next]_vars PROVE TypeOK'
  OBVIOUS
<1>. USE HandoffAssumption
<1>0. TypeOK' <=>
    /\ shell' \in [Id -> Shell]
    /\ made' \in [Id -> 0..MaxOut]
    /\ taken' \in [Id -> 0..MaxOut] /\ \A i \in Id : taken'[i] <= made'[i]
    /\ status' \in [Proc -> Status]
    /\ parent' \in [Proc -> 0..N] /\ child' \in [Proc -> 0..N]
    /\ mail' \in [Proc -> {"none", "ack", "nak"}]
    /\ linger' \in BOOLEAN
    /\ sessions' \in Sets /\ fds' \in Sets /\ adopted' \in Sets /\ frozen' \in Sets
    /\ held' \in Sets /\ captured' \in Sets /\ thawed' \in Sets
    /\ ring' \in Units /\ stream' \in Units
    /\ leaked' \in [Id -> SUBSET Unit] /\ spoiled' \in [Id -> SUBSET Unit]
    /\ late' \in SUBSET Id /\ crashed' \in BOOLEAN /\ deaf' \in SUBSET Proc
  BY DEF TypeOK, Sets, Units, Shell
<1>1. ASSUME NEW p \in Proc, NEW i \in Id, Open(p, i) PROVE TypeOK'
  BY <1>0, <1>1, Types DEF lingerVars, Open, procVars, Sets, Shell
<1>2. ASSUME NEW i \in Id, Produce(i) PROVE TypeOK'
  BY <1>0, <1>2, Types DEF lingerVars, Produce, procVars, sessVars, histVars
<1>3. ASSUME NEW p \in Proc, NEW i \in Id, Read(p, i) PROVE TypeOK'
  <2>1. taken[i] + 1 \in Unit /\ taken' = [taken EXCEPT ![i] = @ + 1] /\ taken[i] < made[i]
    BY <1>3, Types DEF Read, Unread, Unit
  <2>2. ring' \in Units /\ leaked' \in [Id -> SUBSET Unit]
    BY <1>3, <2>1, Types DEF Read, Units
  <2>3. frozen' \in Sets /\ held' \in Sets
    <3>1. UNCHANGED <<frozen, held>> \/ (/\ frozen' = [frozen EXCEPT ![p] = @ \cup {i}]
                                        /\ held' = [held EXCEPT ![p] = @ \cup {i}])
      BY <1>3 DEF Read
    <3>. QED BY <3>1, Types DEF Sets
  <2>4. taken' \in [Id -> 0..MaxOut] /\ \A j \in Id : taken'[j] <= made[j]
    BY <2>1, Types DEF Unit
  <2>5. UNCHANGED <<lingerVars, shell, made, procVars, sessions, fds, adopted, stream,
                    thawed, spoiled, late, crashed>>
    BY <1>3 DEF Read
  <2>. QED BY <1>0, <2>2, <2>3, <2>4, <2>5, Types DEF lingerVars, procVars
<1>4. ASSUME NEW p \in Proc, NEW i \in Id, ReadWhilePaused(p, i) PROVE TypeOK'
  <2>1. taken[i] + 1 \in Unit /\ taken' = [taken EXCEPT ![i] = @ + 1] /\ taken[i] < made[i]
    BY <1>4, Types DEF ReadWhilePaused, Unread, Unit
  <2>2. stream' \in Units /\ leaked' \in [Id -> SUBSET Unit]
    BY <1>4, <2>1, Types DEF ReadWhilePaused, Units
  <2>. QED BY <1>0, <1>4, <2>1, <2>2, Types DEF lingerVars, ReadWhilePaused, procVars
<1>5. ASSUME NEW p \in Proc, ResumePaused(p)
      PROVE  held' \in Sets /\ frozen' \in Sets /\ ring' \in Units /\ stream' \in Units /\ thawed' \in Sets
  BY <1>5, ResumeType, Types DEF ResumePaused, Sets
<1>6. ASSUME NEW p \in Proc, DrainConn(p) PROVE TypeOK'
  BY <1>0, <1>5, <1>6, Types DEF lingerVars, DrainConn, termVars, procVars
<1>7. ASSUME NEW i \in Id, ShellExit(i) PROVE TypeOK'
  BY <1>0, <1>7, Types DEF lingerVars, ShellExit, procVars, sessVars, histVars, Shell
<1>8. ASSUME NEW p \in Proc, NEW i \in Id, NoticeExit(p, i) PROVE TypeOK'
  BY <1>0, <1>8, Types DEF lingerVars, NoticeExit, termVars, procVars, histVars, Sets
<1>9. ASSUME NEW p \in Proc, NEW c \in Proc, Prepare(p, c) PROVE TypeOK'
  <2>1. ring' \in Units
    BY <1>9, Types DEF Prepare, Units
  <2>2. fds' \in Sets /\ frozen' \in Sets /\ captured' \in Sets
    BY <1>9, Types DEF Prepare, Inherited, Frozen, Sets
  <2>3. status' \in [Proc -> Status] /\ parent' \in [Proc -> 0..N] /\ child' \in [Proc -> 0..N]
    <3>1. status' = [status EXCEPT ![p] = "waiting", ![c] = "boot"]
          /\ parent' = [parent EXCEPT ![c] = p] /\ child' = [child EXCEPT ![p] = c]
      BY <1>9 DEF Prepare
    <3>2. p \in 0..N /\ c \in 0..N /\ {"waiting", "boot"} \subseteq Status
      BY DEF Proc, Status
    <3>. QED BY <3>1, <3>2, Types
  <2>. QED BY <1>0, <1>9, <2>1, <2>2, <2>3, Types DEF lingerVars, Prepare, termVars, histVars
<1>10. ASSUME NEW p \in Proc, PrepareFails(p) PROVE TypeOK'
  <2>1. Resume(p, sessions[p])
    BY <1>10 DEF PrepareFails
  <2>. QED BY <1>0, <1>10, <2>1, ResumeType, Types DEF lingerVars, PrepareFails, termVars, procVars, histVars
<1>11. ASSUME NEW p \in Proc, FailHandoff(p) PROVE TypeOK'
  <2>1. child[p] \in Proc
    BY <1>11 DEF FailHandoff, GivesUp, Parents, Winding
  <2>2. Resume(p, captured[child[p]] \cap sessions[p]) /\ Gone(child[p])
    BY <1>11 DEF FailHandoff, Rollback
  <2>3. status' \in [Proc -> Status] /\ child' \in [Proc -> 0..N]
    <3>1. status' = [status EXCEPT ![p] = "serving", ![child[p]] = "dead"]
          /\ child' = [child EXCEPT ![p] = 0]
      BY <1>11 DEF FailHandoff
    <3>2. 0 \in 0..N /\ {"serving", "dead"} \subseteq Status
      BY DEF Status
    <3>. QED BY <3>1, <3>2, Types
  <2>4. spoiled' \in [Id -> SUBSET Unit]
    BY <1>11, <2>1, Types DEF FailHandoff, Units
  <2>5. thawed' \in Sets
    BY <1>11, Types DEF FailHandoff, Sets
  <2>. QED BY <1>0, <1>11, <2>2, <2>3, <2>4, <2>5, ResumeType, GoneType, Types DEF lingerVars, FailHandoff, termVars
<1>12. ASSUME NEW p \in Proc, Commit(p) PROVE TypeOK'
  <2>1. status' \in [Proc -> Status] /\ fds' \in Sets
    BY <1>12, Types DEF Commit, Status, Sets
  <2>. QED BY <1>0, <1>12, <2>1, HangUpType, Types DEF lingerVars, Commit, histVars
<1>13. ASSUME NEW p \in Proc, CloseConns(p) PROVE TypeOK'
  <2>1. status' \in [Proc -> Status]
    BY <1>13, Types DEF CloseConns, Status
  <2>2. linger' = linger /\ deaf' \in SUBSET Proc
    BY <1>13, Types DEF CloseConns, Listen
  <2>. QED BY <1>0, <1>5, <1>13, <2>1, <2>2, Types DEF CloseConns, termVars
<1>14. ASSUME NEW p \in Proc, ExitOld(p) \/ Nak(p) PROVE TypeOK'
  <2>1. status' \in [Proc -> Status] /\ Gone(p) /\ shell' = HangUp(fds')
        /\ mail' \in [Proc -> {"none", "ack", "nak"}]
    BY <1>14, Types DEF ExitOld, Nak, Status
  <2>. QED BY <1>0, <1>14, <2>1, HangUpType, GoneType, Types DEF lingerVars, ExitOld, Nak, histVars
<1>15. ASSUME NEW p \in Proc, Shutdown(p) PROVE TypeOK'
  <2>1. status' \in [Proc -> Status] /\ Gone(p)
    BY <1>15, Types DEF Shutdown, Status
  <2>2. shell' \in [Id -> Shell]
    BY <1>15, HangUpType, Types DEF Shutdown, Shell
  <2>. QED BY <1>0, <1>15, <2>1, <2>2, GoneType, Types DEF lingerVars, Shutdown, histVars
<1>16. ASSUME NEW p \in Proc, Adopt(p) PROVE TypeOK'
  BY <1>0, <1>16, Types DEF lingerVars, Adopt, Status, Sets, termVars, histVars
<1>17. ASSUME NEW p \in Proc, Bind(p) PROVE TypeOK'
  <2>1. status' \in [Proc -> Status]
    BY <1>17, Types DEF Bind, Status
  <2>. QED BY <1>0, <1>17, <2>1, Types DEF lingerVars, Bind, termVars, sessVars, histVars
<1>18. ASSUME NEW p \in Proc, Crash(p) PROVE TypeOK'
  <2>1. status' \in [Proc -> Status] /\ Gone(p) /\ shell' = HangUp(fds')
    BY <1>18, Types DEF Crash, Status
  <2>2. crashed' \in BOOLEAN
    BY <1>18, Zenon DEF Crash
  <2>. QED BY <1>0, <1>18, <2>1, <2>2, HangUpType, GoneType, Types DEF lingerVars, Crash
<1>19. CASE UNCHANGED vars
  BY <1>0, <1>19, Types DEF lingerVars, vars, termVars, procVars, sessVars, histVars
<1>. QED
  BY <1>1, <1>2, <1>3, <1>4, <1>6, <1>7, <1>8, <1>9, <1>10, <1>11, <1>12, <1>13, <1>14,
     <1>15, <1>16, <1>17, <1>18, <1>19 DEF Next
-----------------------------------------------------------------------------
(* The line of processes.                                                    *)

LineInv == Started /\ Parents /\ Waits /\ Line

\* What moves no process, and opens nothing.
LEMMA QuietLine ==
  ASSUME LineInv, UNCHANGED <<procVars, crashed>>, \A p \in Proc : sessions'[p] \subseteq sessions[p],
         \A p \in Proc : fds'[p] \subseteq fds[p]
  PROVE  LineInv'
<1>1. UNCHANGED <<status, parent, child, mail, captured, crashed>>
  BY DEF procVars
<1>2. Started'
  BY <1>1 DEF LineInv, Started
<1>3. Parents' /\ Waits'
  BY <1>1 DEF LineInv, Parents, Waits
<1>4. Line'
  BY <1>1 DEF LineInv, Line
<1>. QED BY <1>2, <1>3, <1>4 DEF LineInv

\* The end of one process.
LEMMA DeathLine ==
  ASSUME TypeOK, LineInv, NEW p \in Proc, status[p] \in Active, Gone(p),
         status' = [status EXCEPT ![p] = "dead"],
         UNCHANGED <<parent, child, captured>>,
         crashed => crashed', status[p] = "acked" => crashed',
         mail' = mail \/ (status[p] = "boot" /\ mail' = [mail EXCEPT ![p] = "nak"])
  PROVE  LineInv'
<1>. USE Types
<1>1. status'[p] = "dead" /\ \A q \in Proc \ {p} : status'[q] = status[q] /\ mail'[q] = mail[q]
  OBVIOUS
<1>2. sessions'[p] = {} /\ fds'[p] = {} /\ \A q \in Proc : sessions'[q] \subseteq sessions[q] /\ fds'[q] \subseteq fds[q]
  BY GoneType
<1>3. Started'
  BY <1>1, <1>2 DEF LineInv, Started, Active, Up
<1>4. Parents'
  BY <1>1 DEF LineInv, Parents, Winding, Active, Up
<1>5. Waits'
  <2>. SUFFICES ASSUME NEW q \in Proc, status'[q] = "waiting"
                PROVE  /\ status'[child[q]] \in {"boot", "acked", "dead"}
                       /\ \A r \in Proc : child[q] < r => status'[r] = "off"
                       /\ mail'[child[q]] = "ack" /\ ~crashed' => status'[child[q]] = "acked"
    BY DEF Waits
  <2>1. status[q] = "waiting" /\ child[q] \in Proc
    BY <1>1 DEF LineInv, Parents, Winding
  <2>2. /\ status[child[q]] \in {"boot", "acked", "dead"}
        /\ \A r \in Proc : child[q] < r => status[r] = "off"
        /\ mail[child[q]] = "ack" /\ ~crashed => status[child[q]] = "acked"
    BY <2>1 DEF LineInv, Waits
  <2>3. \A r \in Proc : child[q] < r => status'[r] = "off"
    BY <1>1, <2>2 DEF Active, Up
  <2>4. CASE child[q] # p
    BY <1>1, <2>1, <2>2, <2>3, <2>4
  <2>5. CASE child[q] = p
    <3>1. status[p] = "boot" => mail'[p] # "ack"
      BY DEF LineInv, Started
    <3>2. status[p] \in {"boot", "acked"}
      BY <2>2, <2>5 DEF Active, Up
    <3>. QED BY <1>1, <2>3, <2>5, <3>1, <3>2
  <2>. QED BY <2>4, <2>5
<1>6. Line'
  BY <1>1, <1>2 DEF LineInv, Line, Active, Up
<1>. QED BY <1>3, <1>4, <1>5, <1>6 DEF LineInv

\* A process of the line goes on to its next stage.
LEMMA MoveLine ==
  ASSUME TypeOK, LineInv, NEW p \in Proc, NEW s,
         \/ status[p] = "waiting" /\ s = "handedOff"
         \/ status[p] = "handedOff" /\ s = "closed"
         \/ status[p] = "acked" /\ s = "serving" /\ status[parent[p]] # "waiting"
         \/ status[p] = "boot" /\ s = "acked",
         status' = [status EXCEPT ![p] = s],
         UNCHANGED <<parent, child, captured, crashed>>,
         \A q \in Proc \ {p} : mail'[q] = mail[q] /\ sessions'[q] = sessions[q] /\ fds'[q] = fds[q],
         status[p] # "boot" => mail'[p] = mail[p],
         fds'[p] \subseteq fds[p],
         sessions'[p] \subseteq sessions[p] \/ (status[p] = "boot" /\ sessions'[p] \subseteq captured[p])
  PROVE  LineInv'
<1>. USE Types
<1>1. status'[p] = s /\ \A q \in Proc \ {p} : status'[q] = status[q]
  OBVIOUS
<1>2. Started'
  BY <1>1 DEF LineInv, Started
<1>3. Parents'
  BY <1>1 DEF LineInv, Parents, Winding
<1>4. Waits'
  <2>. SUFFICES ASSUME NEW q \in Proc, status'[q] = "waiting"
                PROVE  /\ status'[child[q]] \in {"boot", "acked", "dead"}
                       /\ \A r \in Proc : child[q] < r => status'[r] = "off"
                       /\ mail'[child[q]] = "ack" /\ ~crashed => status'[child[q]] = "acked"
    BY DEF Waits
  <2>1. status[q] = "waiting" /\ child[q] \in Proc /\ q # p /\ parent[child[q]] = q
    BY <1>1 DEF LineInv, Parents, Winding
  <2>2. /\ status[child[q]] \in {"boot", "acked", "dead"}
        /\ \A r \in Proc : child[q] < r => status[r] = "off"
        /\ mail[child[q]] = "ack" /\ ~crashed => status[child[q]] = "acked"
    BY <2>1 DEF LineInv, Waits
  <2>3. \A r \in Proc : child[q] < r => status'[r] = "off"
    BY <1>1, <2>2
  <2>4. CASE child[q] # p
    BY <1>1, <2>1, <2>2, <2>3, <2>4
  <2>5. CASE child[q] = p
    BY <1>1, <2>1, <2>2, <2>3, <2>5
  <2>. QED BY <2>4, <2>5
<1>5. Line'
  <2>. SUFFICES ASSUME NEW a \in Proc, NEW b \in Proc, a < b, status'[a] \in Active, status'[b] \in Active
                PROVE  /\ status'[a] \in Winding /\ child[a] <= b
                       /\ sessions'[a] \cap (sessions'[b] \cup captured[b]) \subseteq captured[child[a]]
    BY DEF Line
  <2>1. status[a] \in Active /\ status[b] \in Active
    BY <1>1 DEF Active, Up
  <2>2. /\ status[a] \in Winding /\ child[a] <= b
        /\ sessions[a] \cap (sessions[b] \cup captured[b]) \subseteq captured[child[a]]
    BY <2>1 DEF LineInv, Line
  <2>3. status'[a] \in Winding
    BY <1>1, <2>2 DEF Winding
  <2>4. a # p \/ status[a] # "boot"
    BY <2>2 DEF Winding
  <2>5. sessions'[a] \subseteq sessions[a] /\ sessions'[b] \subseteq sessions[b] \cup captured[b]
    BY <2>4
  <2>. QED BY <2>2, <2>3, <2>5
<1>. QED BY <1>2, <1>3, <1>4, <1>5 DEF LineInv

\* A handoff begins: the successor is the last of the line.
LEMMA PrepareLine ==
  ASSUME TypeOK, LineInv, NEW p \in Proc, NEW c \in Proc, Prepare(p, c)
  PROVE  LineInv'
<1>. USE Types
<1>1. /\ status[p] = "serving" /\ status[c] = "off" /\ p < c
      /\ \A q \in Proc : q < c => status[q] # "off"
  <2>1. status[p] = "serving" /\ status[c] = "off" /\ \A q \in Proc : q < c => status[q] # "off"
    BY DEF Prepare, MayPrepare
  <2>2. ~(c < p)
    BY <2>1 DEF LineInv, Started
  <2>. QED BY <2>1, <2>2 DEF Proc
<1>2. \A q \in Proc : c < q => status[q] = "off"
  BY <1>1 DEF LineInv, Started
<1>3. /\ status'[p] = "waiting" /\ status'[c] = "boot"
      /\ \A q \in Proc \ {p, c} : status'[q] = status[q]
      /\ parent'[c] = p /\ \A q \in Proc \ {c} : parent'[q] = parent[q]
      /\ child'[p] = c /\ \A q \in Proc \ {p} : child'[q] = child[q]
      /\ captured'[c] = sessions[p] /\ \A q \in Proc \ {c} : captured'[q] = captured[q]
      /\ \A q \in Proc \ {c} : fds'[q] = fds[q]
      /\ UNCHANGED <<mail, sessions, crashed>>
  <2>1. /\ status'[p] = "waiting" /\ status'[c] = "boot"
        /\ \A q \in Proc \ {p, c} : status'[q] = status[q]
    <3>1. status' = [status EXCEPT ![p] = "waiting", ![c] = "boot"] /\ p # c
      BY <1>1 DEF Prepare, Proc
    <3>. QED BY <3>1
  <2>2. parent'[c] = p /\ \A q \in Proc \ {c} : parent'[q] = parent[q]
    BY DEF Prepare
  <2>3. child'[p] = c /\ \A q \in Proc \ {p} : child'[q] = child[q]
    BY DEF Prepare
  <2>4. captured'[c] = sessions[p] /\ \A q \in Proc \ {c} : captured'[q] = captured[q]
    BY DEF Prepare, Sets
  <2>5. \A q \in Proc \ {c} : fds'[q] = fds[q]
    BY DEF Prepare, Sets
  <2>6. UNCHANGED <<mail, sessions, crashed>>
    BY DEF Prepare, histVars
  <2>. QED BY <2>1, <2>2, <2>3, <2>4, <2>5, <2>6
<1>4. Started'
  <2>1. \A q \in Proc : status'[q] = "off" => status[q] = "off" /\ q # c /\ q # p /\ c < q
    BY <1>1, <1>3 DEF Proc
  <2>2. \A q, r \in Proc : q < r /\ status'[q] = "off" => status'[r] = "off"
    <3>. SUFFICES ASSUME NEW q \in Proc, NEW r \in Proc, q < r, status'[q] = "off" PROVE status'[r] = "off"
      OBVIOUS
    <3>1. c < q /\ c < r /\ r # c /\ r # p /\ status[r] = "off"
      BY <1>1, <1>2, <2>1 DEF Proc
    <3>. QED BY <1>3, <3>1
  <2>3. \A q \in Proc : status'[q] \in {"off", "boot"} => status[q] \in {"off", "boot"}
    BY <1>1, <1>3
  <2>4. \A q \in Proc : status'[q] \in {"off", "boot"} => mail'[q] = "none" /\ sessions'[q] = {}
    BY <1>3, <2>3 DEF LineInv, Started
  <2>5. \A q \in Proc : status'[q] = "off" => fds'[q] = {} /\ captured'[q] = {}
    BY <1>3, <2>1 DEF LineInv, Started
  <2>. QED BY <2>2, <2>4, <2>5 DEF Started
<1>5. Parents'
  <2>. SUFFICES ASSUME NEW q \in Proc, status'[q] \in Winding
                PROVE  /\ child'[q] \in Proc /\ q < child'[q]
                       /\ parent'[child'[q]] = q /\ status'[child'[q]] # "off"
    BY DEF Parents
  <2>1. CASE q = p
    BY <1>1, <1>3, <2>1
  <2>2. CASE q # p
    <3>1. status[q] \in Winding /\ child'[q] = child[q] /\ q # c
      BY <1>3, <2>2 DEF Winding
    <3>2. child[q] \in Proc /\ q < child[q] /\ parent[child[q]] = q /\ status[child[q]] # "off"
      BY <3>1 DEF LineInv, Parents
    <3>. QED BY <1>1, <1>3, <3>1, <3>2
  <2>. QED BY <2>1, <2>2
<1>6. \A q \in Proc : p < q => status[q] \notin Active
  BY <1>1 DEF LineInv, Line, Active, Up, Winding
<1>7. \A q \in Proc : status[q] # "waiting"
  <2>. SUFFICES ASSUME NEW q \in Proc, status[q] = "waiting" PROVE FALSE
    OBVIOUS
  <2>1. q < p
    BY <1>1, <1>6 DEF Active, Up, Proc
  <2>2. child[q] <= p /\ child[q] \in Proc
    BY <1>1, <2>1 DEF LineInv, Line, Active, Up, Parents, Winding
  <2>3. status[child[q]] \in {"boot", "acked", "dead"} /\ \A r \in Proc : child[q] < r => status[r] = "off"
    BY DEF LineInv, Waits
  <2>4. child[q] # p
    BY <1>1, <2>3
  <2>5. child[q] < p
    BY <2>2, <2>4 DEF Proc
  <2>6. status[p] = "off"
    BY <2>3, <2>5
  <2>. QED BY <1>1, <2>6
<1>8. Waits'
  BY <1>1, <1>2, <1>3, <1>7 DEF Waits, LineInv, Started
<1>9. Line'
  <2>. SUFFICES ASSUME NEW a \in Proc, NEW b \in Proc, a < b, status'[a] \in Active, status'[b] \in Active
                PROVE  /\ status'[a] \in Winding /\ child'[a] <= b
                       /\ sessions[a] \cap (sessions[b] \cup captured'[b]) \subseteq captured'[child'[a]]
    BY <1>3 DEF Line
  <2>1. CASE a = p
    <3>1. b = c
      <4>. SUFFICES ASSUME b # c PROVE FALSE
        OBVIOUS
      <4>1. p < b /\ b # p
        BY <2>1 DEF Proc
      <4>2. status'[b] = status[b]
        BY <1>3, <4>1
      <4>3. status[b] \in Active
        BY <4>2
      <4>. QED BY <1>6, <4>1, <4>3
    <3>2. status'[a] = "waiting" /\ child'[a] = c /\ captured'[child'[a]] = sessions[a]
      BY <1>3, <2>1
    <3>3. status'[a] \in Winding
      BY <3>2 DEF Winding
    <3>4. child'[a] <= b
      BY <3>1, <3>2 DEF Proc
    <3>. QED BY <3>2, <3>3, <3>4
  <2>2. CASE a = c
    <3>1. c < b /\ b # c /\ b # p
      BY <1>1, <2>2 DEF Proc
    <3>2. status[b] = "off" /\ status'[b] = status[b]
      BY <1>2, <1>3, <3>1
    <3>. QED BY <3>2 DEF Active, Up
  <2>3. CASE a # p /\ a # c
    <3>1. status[a] \in Active /\ child'[a] = child[a] /\ a < p
      BY <1>1, <1>3, <1>6, <2>3 DEF Proc
    <3>2. /\ status[a] \in Winding /\ child[a] <= p
          /\ sessions[a] \cap sessions[p] \subseteq captured[child[a]]
      BY <1>1, <3>1 DEF LineInv, Line, Active, Up
    <3>3. child[a] \in Proc /\ child[a] # c
      BY <1>1, <3>2 DEF LineInv, Parents, Proc
    <3>4. CASE b = c
      <4>1. sessions[c] = {}
        BY <1>1 DEF LineInv, Started
      <4>2. status'[a] \in Winding /\ child'[a] = child[a] /\ child[a] <= c
        <5>1. status'[a] = status[a] /\ child'[a] = child[a]
          BY <1>3, <2>3
        <5>2. child[a] <= c
          BY <1>1, <3>2, <3>3 DEF Proc
        <5>. QED BY <3>2, <5>1, <5>2
      <4>3. captured'[child'[a]] = captured[child[a]] /\ captured'[b] = sessions[p]
        BY <1>3, <3>3, <3>4, <4>2
      <4>4. sessions[b] = {}
        BY <3>4, <4>1
      <4>. QED BY <3>2, <3>4, <4>2, <4>3, <4>4
    <3>5. CASE b # c
      <4>1. status[b] \in Active
        BY <1>1, <1>3, <3>5 DEF Active, Up
      <4>2. child[a] <= b /\ sessions[a] \cap (sessions[b] \cup captured[b]) \subseteq captured[child[a]]
        BY <3>1, <4>1 DEF LineInv, Line
      <4>. QED BY <1>3, <2>3, <3>1, <3>2, <3>3, <3>5, <4>2
    <3>. QED BY <3>4, <3>5
  <2>. QED BY <2>1, <2>2, <2>3
<1>. QED BY <1>4, <1>5, <1>8, <1>9 DEF LineInv

\* A handoff fails: its successor was the last of the line.
LEMMA FailLine ==
  ASSUME TypeOK, LineInv, NEW p \in Proc, FailHandoff(p)
  PROVE  LineInv'
<1>. DEFINE c == child[p]
<1>. USE Types
<1>1. /\ status[p] = "waiting" /\ c \in Proc /\ p < c /\ parent[c] = p
      /\ status[c] \in {"boot", "acked", "dead"}
      /\ \A q \in Proc : c < q => status[q] = "off"
  BY DEF FailHandoff, GivesUp, LineInv, Parents, Waits, Winding
<1>2. /\ status'[p] = "serving" /\ status'[c] = "dead"
      /\ \A q \in Proc \ {p, c} : status'[q] = status[q]
      /\ \A q \in Proc \ {p} : child'[q] = child[q]
      /\ UNCHANGED <<parent, mail, captured, crashed>>
  BY <1>1 DEF FailHandoff, Proc
<1>3. sessions'[c] = {} /\ fds'[c] = {} /\ \A q \in Proc : sessions'[q] \subseteq sessions[q] /\ fds'[q] \subseteq fds[q]
  BY <1>1, GoneType DEF FailHandoff
<1>. HIDE DEF c
<1>4. \A q \in Proc : p < q /\ q # c => status[q] \notin Active
  <2>. SUFFICES ASSUME NEW q \in Proc, p < q, q # c, status[q] \in Active PROVE FALSE
    OBVIOUS
  <2>1. c <= q
    BY <1>1 DEF LineInv, Line, Active, Up, c
  <2>. QED BY <1>1, <2>1 DEF Active, Up, Proc
<1>5. Started'
  BY <1>1, <1>2, <1>3 DEF LineInv, Started
<1>6. \A q \in Proc : status'[q] \in Winding => q # p /\ q # c /\ status[q] \in Winding
  BY <1>1, <1>2 DEF Winding
<1>7. Parents'
  BY <1>1, <1>2, <1>6 DEF LineInv, Parents
<1>8. \A q \in Proc : status'[q] # "waiting"
  <2>. SUFFICES ASSUME NEW q \in Proc, status[q] = "waiting", q # p, q # c PROVE FALSE
    BY <1>2, <1>6 DEF Winding
  <2>1. q < p
    BY <1>4 DEF Active, Up, Proc
  <2>2. child[q] <= p /\ child[q] \in Proc
    BY <1>1, <2>1 DEF LineInv, Line, Active, Up, Parents, Winding
  <2>3. status[child[q]] \in {"boot", "acked", "dead"} /\ \A r \in Proc : child[q] < r => status[r] = "off"
    BY DEF LineInv, Waits
  <2>4. child[q] # p
    BY <1>1, <2>3
  <2>5. child[q] < p
    BY <2>2, <2>4 DEF Proc
  <2>. QED BY <1>1, <2>3, <2>5
<1>9. Waits'
  BY <1>8 DEF Waits
<1>10. Line'
  <2>. SUFFICES ASSUME NEW a \in Proc, NEW b \in Proc, a < b, status'[a] \in Active, status'[b] \in Active
                PROVE  /\ status'[a] \in Winding /\ child'[a] <= b
                       /\ sessions'[a] \cap (sessions'[b] \cup captured[b]) \subseteq captured[child'[a]]
    BY <1>2 DEF Line
  <2>1. a # c /\ b # c /\ status[a] \in Active /\ status[b] \in Active
    BY <1>1, <1>2 DEF Active, Up
  <2>2. a # p
    BY <1>4, <2>1
  <2>3. /\ status[a] \in Winding /\ child[a] <= b
        /\ sessions[a] \cap (sessions[b] \cup captured[b]) \subseteq captured[child[a]]
    BY <2>1 DEF LineInv, Line
  <2>. QED BY <1>2, <1>3, <2>1, <2>2, <2>3
<1>. QED BY <1>5, <1>7, <1>9, <1>10 DEF LineInv

\* Every step keeps the line.
LEMMA StepLine == TypeOK /\ LineInv /\ Masters /\ [Next]_vars => LineInv'
<1>. SUFFICES ASSUME TypeOK, LineInv, Masters, [Next]_vars PROVE LineInv'
  OBVIOUS
<1>. USE Types
<1>1. ASSUME NEW p \in Proc, NEW i \in Id, Open(p, i) PROVE LineInv'
  <2>1. UNCHANGED <<status, parent, child, mail, captured, crashed>> /\ status[p] \in {"serving", "waiting"}
    BY <1>1 DEF Open, procVars
  <2>2. /\ \A q \in Proc \ {p} : sessions'[q] = sessions[q] /\ fds'[q] = fds[q]
        /\ sessions'[p] = sessions[p] \cup {i}
    BY <1>1 DEF Open, Sets
  <2>3. \A q \in Proc : i \notin sessions[q] \cup captured[q]
    BY <1>1 DEF Open, Masters
  <2>4. Started'
    BY <2>1, <2>2 DEF LineInv, Started
  <2>5. Parents' /\ Waits'
    BY <2>1 DEF LineInv, Parents, Waits
  <2>6. Line'
    <3>. SUFFICES ASSUME NEW a \in Proc, NEW b \in Proc, a < b, status[a] \in Active, status[b] \in Active
                  PROVE  /\ status[a] \in Winding /\ child[a] <= b
                         /\ sessions'[a] \cap (sessions'[b] \cup captured[b]) \subseteq captured[child[a]]
      BY <2>1 DEF Line
    <3>1. /\ status[a] \in Winding /\ child[a] <= b
          /\ sessions[a] \cap (sessions[b] \cup captured[b]) \subseteq captured[child[a]]
      BY DEF LineInv, Line
    <3>2. a # b
      BY DEF Proc
    <3>3. sessions'[a] \cap (sessions'[b] \cup captured[b]) \subseteq sessions[a] \cap (sessions[b] \cup captured[b])
      <4>1. CASE a = p
        BY <2>2, <2>3, <3>2, <4>1
      <4>2. CASE a # p
        BY <2>2, <2>3, <4>2
      <4>. QED BY <4>1, <4>2
    <3>. QED BY <3>1, <3>3
  <2>. QED BY <2>4, <2>5, <2>6 DEF LineInv
<1>2. ASSUME NEW i \in Id, Produce(i) \/ ShellExit(i) PROVE LineInv'
  BY <1>2, QuietLine DEF Produce, ShellExit, sessVars, histVars
<1>3. ASSUME NEW p \in Proc, NEW i \in Id, Read(p, i) \/ ReadWhilePaused(p, i) PROVE LineInv'
  BY <1>3, QuietLine DEF Read, ReadWhilePaused
<1>4. ASSUME NEW p \in Proc, NEW i \in Id, NoticeExit(p, i) PROVE LineInv'
  <2>1. \A q \in Proc : sessions'[q] \subseteq sessions[q] /\ fds'[q] \subseteq fds[q]
    BY <1>4 DEF NoticeExit, Sets
  <2>. QED BY <1>4, <2>1, QuietLine DEF NoticeExit, histVars
<1>5. ASSUME NEW p \in Proc, DrainConn(p) \/ PrepareFails(p) PROVE LineInv'
  BY <1>5, QuietLine DEF DrainConn, PrepareFails, histVars
<1>6. ASSUME NEW p \in Proc, NEW c \in Proc, Prepare(p, c) PROVE LineInv'
  BY <1>6, PrepareLine
<1>7. ASSUME NEW p \in Proc, FailHandoff(p) PROVE LineInv'
  BY <1>7, FailLine
<1>8. ASSUME NEW p \in Proc, Commit(p) PROVE LineInv'
  <2>1. fds'[p] \subseteq fds[p] /\ \A q \in Proc \ {p} : fds'[q] = fds[q]
    BY <1>8 DEF Commit, Sets
  <2>. QED BY <1>8, <2>1, MoveLine DEF Commit, histVars
<1>9. ASSUME NEW p \in Proc, CloseConns(p) PROVE LineInv'
  BY <1>9, MoveLine DEF CloseConns
<1>10. ASSUME NEW p \in Proc, ExitOld(p) PROVE LineInv'
  BY <1>10, DeathLine DEF ExitOld, histVars, Active, Up
<1>11. ASSUME NEW p \in Proc, Shutdown(p) PROVE LineInv'
  BY <1>11, DeathLine DEF Shutdown, histVars, Active, Up
<1>12. ASSUME NEW p \in Proc, Adopt(p) PROVE LineInv'
  <2>1. sessions'[p] = captured[p] /\ \A q \in Proc \ {p} : sessions'[q] = sessions[q] /\ mail'[q] = mail[q]
    BY <1>12 DEF Adopt, Sets
  <2>. QED BY <1>12, <2>1, MoveLine DEF Adopt, histVars
<1>13. ASSUME NEW p \in Proc, Nak(p) PROVE LineInv'
  BY <1>13, DeathLine DEF Nak, histVars, Active, Up
<1>14. ASSUME NEW p \in Proc, Bind(p) PROVE LineInv'
  BY <1>14, MoveLine DEF Bind, sessVars, histVars
<1>15. ASSUME NEW p \in Proc, Crash(p) PROVE LineInv'
  <2>1. crashed'
    BY <1>15, Zenon DEF Crash
  <2>. QED BY <1>15, <2>1, DeathLine DEF Crash, Active, Up
<1>16. CASE UNCHANGED vars
  BY <1>16, QuietLine DEF vars, procVars, sessVars, histVars
<1>. QED
  BY <1>1, <1>2, <1>3, <1>4, <1>5, <1>6, <1>7, <1>8, <1>9, <1>10, <1>11, <1>12, <1>13,
     <1>14, <1>15, <1>16 DEF Next
-----------------------------------------------------------------------------
(* Terminals and their masters.                                              *)

\* What opens no terminal keeps every running one open.
LEMMA KeepMasters ==
  ASSUME TypeOK, Masters, 
         \A i \in Id : shell'[i] = "none" => shell[i] = "none" /\ made'[i] = made[i],
         \A i \in Id : shell'[i] = "running" => shell[i] = "running",
         \A q \in Proc : /\ captured'[q] = captured[q] /\ fds'[q] \subseteq fds[q]
                         /\ sessions'[q] \subseteq sessions[q] \cup captured[q],
         \A q \in Proc :
           \/ status'[q] = status[q] /\ sessions'[q] = sessions[q] /\ fds'[q] = fds[q]
           \/ status'[q] \notin Active
           \/ /\ status'[q] \in {"handedOff", "closed"} /\ status[q] \in Winding
              /\ sessions'[q] = sessions[q]
           \/ /\ status'[q] = "serving" /\ status[q] \in {"acked", "waiting"}
              /\ sessions'[q] = sessions[q] /\ fds'[q] = fds[q]
           \/ /\ status'[q] = "acked" /\ status[q] = "boot"
              /\ sessions'[q] = captured[q] /\ fds'[q] = fds[q]
  PROVE  Masters'
<1>1. \A i \in Id : shell'[i] = "none" =>
        made'[i] = 0 /\ \A p \in Proc : i \notin sessions'[p] \cup captured'[p] \cup fds'[p]
  BY DEF Masters
<1>2. \A q \in Proc : status'[q] \in Active => status[q] \in Active
  BY DEF Active, Up, Winding
<1>3. \A q \in Proc : status'[q] \in Active => fds'[q] \subseteq Own(q)'
  <2>. SUFFICES ASSUME NEW q \in Proc, status'[q] \in Active PROVE fds'[q] \subseteq Own(q)'
    OBVIOUS
  <2>1. fds[q] \subseteq Own(q) /\ fds'[q] \subseteq fds[q] /\ captured'[q] = captured[q]
    BY <1>2 DEF Masters
  <2>. QED BY <2>1 DEF Own, Winding
<1>4. \A q \in Proc : status'[q] \in Keeps =>
        \A i \in Wants(q)' : shell'[i] = "running" => i \in fds'[q]
  <2>. SUFFICES ASSUME NEW q \in Proc, status'[q] \in Keeps
                PROVE  \A i \in Wants(q)' : shell'[i] = "running" => i \in fds'[q]
    OBVIOUS
  <2>1. status[q] \in Keeps /\ fds'[q] = fds[q] /\ Wants(q)' \subseteq Wants(q)
    BY DEF Wants, Keeps, Masters, Active, Up
  <2>2. \A i \in Wants(q) : shell[i] = "running" => i \in fds[q]
    BY <2>1 DEF Masters
  <2>3. Wants(q) \subseteq Id
    BY Types DEF Wants, Sets
  <2>. QED BY <2>1, <2>2, <2>3
<1>5. \A q \in Proc : status'[q] = "acked" => sessions'[q] \subseteq captured'[q]
  BY DEF Masters, Active, Up
<1>. QED BY <1>1, <1>3, <1>4, <1>5 DEF Masters

\* A hangup opens no terminal.
LEMMA HangUpRuns ==
  ASSUME TypeOK, NEW open
  PROVE  \A i \in Id : /\ HangUp(open)[i] = "none" => shell[i] = "none"
                       /\ HangUp(open)[i] = "running" => shell[i] = "running"
  BY HangUpType

\* Every step keeps a master of every running terminal with those who serve it.
LEMMA StepMasters == TypeOK /\ LineInv /\ Masters /\ [Next]_vars => Masters'
<1>. SUFFICES ASSUME TypeOK, LineInv, Masters, [Next]_vars PROVE Masters'
  OBVIOUS
<1>. USE Types
<1>1. ASSUME NEW p \in Proc, NEW i \in Id, Open(p, i) PROVE Masters'
  <2>1. /\ UNCHANGED <<status, captured, made>> /\ status[p] \in {"serving", "waiting"}
        /\ shell[i] = "none"
    BY <1>1 DEF Open, procVars
  <2>2. /\ sessions'[p] = sessions[p] \cup {i} /\ fds'[p] = fds[p] \cup {i}
        /\ \A q \in Proc \ {p} : sessions'[q] = sessions[q] /\ fds'[q] = fds[q]
    BY <1>1 DEF Open, Sets
  <2>3. shell'[i] = "running" /\ \A j \in Id \ {i} : shell'[j] = shell[j]
    BY <1>1 DEF Open
  <2>4. \A q \in Proc : i \notin sessions[q] \cup captured[q] \cup fds[q]
    BY <2>1 DEF Masters
  <2>5. \A j \in Id : shell'[j] = "none" =>
          made'[j] = 0 /\ \A q \in Proc : j \notin sessions'[q] \cup captured'[q] \cup fds'[q]
    BY <2>1, <2>2, <2>3 DEF Masters
  <2>6. \A q \in Proc : Own(q)' = IF q = p THEN Own(q) \cup {i} ELSE Own(q)
    BY <2>1, <2>2 DEF Own
  <2>8. \A q \in Proc : status'[q] \in Active => fds'[q] \subseteq Own(q)'
    BY <2>1, <2>2, <2>6 DEF Masters
  <2>9. \A q \in Proc : status'[q] \in Keeps =>
          \A j \in Wants(q)' : shell'[j] = "running" => j \in fds'[q]
    <3>. SUFFICES ASSUME NEW q \in Proc, status[q] \in Keeps
                  PROVE  \A j \in Wants(q)' : shell'[j] = "running" => j \in fds'[q]
      BY <2>1
    <3>1. \A j \in Wants(q) : shell[j] = "running" => j \in fds[q]
      BY DEF Masters
    <3>2. CASE q = p
      <4>1. Wants(q) = sessions[p]
        BY <2>1, <3>2 DEF Wants
      <4>2. Wants(q)' = sessions[p] \cup {i}
        BY <2>1, <2>2, <3>2 DEF Wants
      <4>3. sessions[p] \subseteq Id
        BY DEF Sets
      <4>. QED BY <2>2, <2>3, <3>1, <3>2, <4>1, <4>2, <4>3
    <3>3. CASE q # p
      <4>1. Wants(q)' = Wants(q)
        BY <2>1, <2>2, <3>3 DEF Wants
      <4>2. i \notin Wants(q)
        BY <2>4 DEF Wants
      <4>3. Wants(q) \subseteq Id
        BY DEF Wants, Sets
      <4>4. fds'[q] = fds[q]
        BY <2>2, <3>3
      <4>. QED BY <2>3, <3>1, <4>1, <4>2, <4>3, <4>4
    <3>. QED BY <3>2, <3>3
  <2>10. \A q \in Proc : status'[q] = "acked" => sessions'[q] \subseteq captured'[q]
    BY <2>1, <2>2 DEF Masters
  <2>. QED BY <2>5, <2>8, <2>9, <2>10 DEF Masters
<1>2. ASSUME NEW i \in Id, Produce(i) \/ ShellExit(i) PROVE Masters'
  BY <1>2, KeepMasters DEF Produce, ShellExit, procVars, sessVars
<1>3. ASSUME NEW p \in Proc, NEW i \in Id, Read(p, i) \/ ReadWhilePaused(p, i) PROVE Masters'
  <2>1. UNCHANGED <<shell, made, status, captured, sessions, fds>>
    BY <1>3 DEF Read, ReadWhilePaused, procVars
  <2>. QED BY <2>1, KeepMasters
<1>4. ASSUME NEW p \in Proc, NEW i \in Id, NoticeExit(p, i) PROVE Masters'
  <2>1. UNCHANGED <<shell, made, status, captured>> /\ shell[i] # "running" /\ status[p] \in Up
    BY <1>4 DEF NoticeExit, procVars, termVars
  <2>2. /\ sessions'[p] = sessions[p] \ {i} /\ fds'[p] = fds[p] \ {i}
        /\ \A q \in Proc \ {p} : sessions'[q] = sessions[q] /\ fds'[q] = fds[q]
    BY <1>4 DEF NoticeExit, Sets
  <2>3. \A j \in Id : shell'[j] = "none" =>
          made'[j] = 0 /\ \A q \in Proc : j \notin sessions'[q] \cup captured'[q] \cup fds'[q]
    BY <2>1, <2>2 DEF Masters
  <2>4. \A q \in Proc : Own(q)' = IF q = p THEN Own(q) \ {i} ELSE Own(q)
    BY <2>1, <2>2 DEF Own, Up
  <2>5. \A q \in Proc : status'[q] \in Active => fds'[q] \subseteq Own(q)'
    BY <2>1, <2>2, <2>4 DEF Masters
  <2>6. \A q \in Proc : status'[q] \in Keeps =>
          \A j \in Wants(q)' : shell'[j] = "running" => j \in fds'[q]
    <3>1. \A q \in Proc : Wants(q)' \subseteq Wants(q) /\ Wants(q) \subseteq Id
      BY <2>1, <2>2 DEF Wants, Sets
    <3>. QED BY <2>1, <2>2, <3>1 DEF Masters
  <2>7. \A q \in Proc : status'[q] = "acked" => sessions'[q] \subseteq captured'[q]
    BY <2>1, <2>2 DEF Masters
  <2>. QED BY <2>3, <2>5, <2>6, <2>7 DEF Masters
<1>5. ASSUME NEW p \in Proc, DrainConn(p) \/ PrepareFails(p) PROVE Masters'
  <2>1. UNCHANGED <<shell, made, status, captured, sessions, fds>>
    BY <1>5 DEF DrainConn, PrepareFails, procVars, termVars
  <2>. QED BY <2>1, KeepMasters
<1>6. ASSUME NEW p \in Proc, NEW c \in Proc, Prepare(p, c) PROVE Masters'
  <2>1. status[p] = "serving" /\ status[c] = "off" /\ p # c /\ UNCHANGED <<shell, made, sessions>>
    BY <1>6 DEF Prepare, MayPrepare, termVars
  <2>2. /\ status'[p] = "waiting" /\ status'[c] = "boot"
        /\ \A q \in Proc \ {p, c} : status'[q] = status[q]
    BY <1>6, <2>1 DEF Prepare
  <2>3. /\ captured'[c] = sessions[p] /\ fds'[c] = fds[p] \cap sessions[p]
        /\ \A q \in Proc \ {c} : captured'[q] = captured[q] /\ fds'[q] = fds[q]
    BY <1>6 DEF Prepare, Sets, Inherited
  <2>4. \A j \in Id : shell'[j] = "none" =>
          made'[j] = 0 /\ \A q \in Proc : j \notin sessions'[q] \cup captured'[q] \cup fds'[q]
    BY <2>1, <2>3 DEF Masters
  <2>5. Own(c)' = sessions[p] /\ Wants(c)' = sessions[p] /\ Own(p) = sessions[p] /\ Wants(p) = sessions[p]
    BY <2>1, <2>2, <2>3 DEF Own, Wants
  <2>6. \A q \in Proc \ {c} : Own(q)' = Own(q) /\ Wants(q)' = Wants(q) /\ (status'[q] \in Active <=> status[q] \in Active)
    BY <2>1, <2>2, <2>3 DEF Own, Wants, Active, Up
  <2>7. \A q \in Proc : status'[q] \in Active => fds'[q] \subseteq Own(q)'
    BY <2>3, <2>5, <2>6 DEF Masters
  <2>8. \A j \in sessions[p] : shell[j] = "running" => j \in fds[p]
    BY <2>1, <2>5 DEF Masters, Keeps
  <2>9. \A q \in Proc : status'[q] \in Keeps =>
          \A j \in Wants(q)' : shell'[j] = "running" => j \in fds'[q]
    <3>. SUFFICES ASSUME NEW q \in Proc, status'[q] \in Keeps
                  PROVE  \A j \in Wants(q)' : shell'[j] = "running" => j \in fds'[q]
      OBVIOUS
    <3>1. CASE q = c
      BY <2>1, <2>3, <2>5, <2>8, <3>1
    <3>2. CASE q # c
      <4>1. status[q] \in Keeps
        BY <2>1, <2>2, <3>2 DEF Keeps
      <4>2. \A j \in Wants(q) : shell[j] = "running" => j \in fds[q]
        BY <4>1 DEF Masters
      <4>. QED BY <2>1, <2>3, <2>6, <3>2, <4>2
    <3>. QED BY <3>1, <3>2
  <2>10. \A q \in Proc : status'[q] = "acked" => sessions'[q] \subseteq captured'[q]
    BY <2>1, <2>2, <2>3 DEF Masters
  <2>. QED BY <2>4, <2>7, <2>9, <2>10 DEF Masters
<1>7. ASSUME NEW p \in Proc, FailHandoff(p) PROVE Masters'
  <2>. DEFINE c == child[p]
  <2>1. c \in Proc /\ p # c /\ status[p] = "waiting"
    BY <1>7 DEF FailHandoff, GivesUp, LineInv, Parents, Winding, Proc
  <2>2. status' = [status EXCEPT ![p] = "serving", ![c] = "dead"] /\ Gone(c) /\ UNCHANGED <<shell, made, captured>>
    BY <1>7 DEF FailHandoff, termVars
  <2>3. /\ sessions'[c] = {} /\ fds'[c] = {}
        /\ \A q \in Proc \ {c} : sessions'[q] = sessions[q] /\ fds'[q] = fds[q]
    BY <2>1, <2>2, GoneType
  <2>. HIDE DEF c
  <2>4. status'[p] = "serving" /\ status'[c] = "dead" /\ \A q \in Proc \ {p, c} : status'[q] = status[q]
    BY <2>1, <2>2
  <2>. QED BY <2>1, <2>2, <2>3, <2>4, KeepMasters DEF Active, Up
<1>8. ASSUME NEW p \in Proc, Commit(p) PROVE Masters'
  <2>1. fds'[p] \subseteq fds[p] /\ \A q \in Proc \ {p} : fds'[q] = fds[q]
    BY <1>8 DEF Commit, Sets
  <2>2. status[p] = "waiting" /\ status'[p] = "handedOff" /\ \A q \in Proc \ {p} : status'[q] = status[q]
    BY <1>8 DEF Commit
  <2>. QED BY <1>8, <2>1, <2>2, HangUpRuns, KeepMasters DEF Commit, Winding
<1>9. ASSUME NEW p \in Proc, CloseConns(p) PROVE Masters'
  <2>1. status[p] = "handedOff" /\ status'[p] = "closed" /\ \A q \in Proc \ {p} : status'[q] = status[q]
    BY <1>9 DEF CloseConns
  <2>2. UNCHANGED <<shell, made, sessions, fds, captured>>
    BY <1>9 DEF CloseConns, termVars
  <2>. QED BY <2>1, <2>2, KeepMasters DEF Winding
<1>10. ASSUME NEW p \in Proc, ExitOld(p) \/ Nak(p) \/ Crash(p) \/ Shutdown(p) PROVE Masters'
  <2>1. status'[p] = "dead" /\ (\A q \in Proc \ {p} : status'[q] = status[q]) /\ Gone(p) /\ UNCHANGED <<made, captured>>
    BY <1>10 DEF ExitOld, Nak, Crash, Shutdown
  <2>2. \A i \in Id : /\ shell'[i] = "none" => shell[i] = "none"
                      /\ shell'[i] = "running" => shell[i] = "running"
    <3>1. CASE shell' = HangUp(fds')
      BY <3>1, HangUpRuns
    <3>2. CASE Shutdown(p)
      <4>1. \A i \in Id : shell'[i] \in {"killed", HangUp(fds')[i]}
        BY <3>2 DEF Shutdown
      <4>. QED BY <4>1, HangUpRuns
    <3>. QED BY <1>10, <3>1, <3>2 DEF ExitOld, Nak, Crash
  <2>3. /\ sessions'[p] = {} /\ fds'[p] = {}
        /\ \A q \in Proc \ {p} : sessions'[q] = sessions[q] /\ fds'[q] = fds[q]
    BY <2>1, GoneType
  <2>. QED BY <2>1, <2>2, <2>3, KeepMasters DEF Active, Up
<1>11. ASSUME NEW p \in Proc, Adopt(p) PROVE Masters'
  <2>1. /\ status[p] = "boot" /\ status'[p] = "acked" /\ \A q \in Proc \ {p} : status'[q] = status[q]
        /\ sessions'[p] = captured[p] /\ \A q \in Proc \ {p} : sessions'[q] = sessions[q]
        /\ UNCHANGED <<shell, made, captured, fds>>
    BY <1>11 DEF Adopt, Sets, termVars
  <2>. QED BY <2>1, KeepMasters
<1>12. ASSUME NEW p \in Proc, Bind(p) PROVE Masters'
  <2>1. /\ status[p] = "acked" /\ status'[p] = "serving" /\ \A q \in Proc \ {p} : status'[q] = status[q]
        /\ UNCHANGED <<shell, made, sessions, captured, fds>>
    BY <1>12 DEF Bind, termVars, sessVars
  <2>. QED BY <2>1, KeepMasters
<1>13. CASE UNCHANGED vars
  <2>1. UNCHANGED <<shell, made, status, captured, sessions, fds>>
    BY <1>13 DEF vars, termVars, procVars, sessVars
  <2>. QED BY <2>1, KeepMasters
<1>. QED
  BY <1>1, <1>2, <1>3, <1>4, <1>5, <1>6, <1>7, <1>8, <1>9, <1>10, <1>11, <1>12, <1>13 DEF Next
-----------------------------------------------------------------------------
(* Freezes.                                                                  *)

\* What leaves a handoff's snapshot and its freeze alone.
LEMMA KeepWinding ==
  ASSUME Freezes, Lates, late \subseteq late',
         \A q \in Proc : status'[q] \in Winding =>
           /\ status[q] \in Winding /\ child'[q] = child[q]
           /\ captured'[child[q]] = captured[child[q]]
           /\ sessions'[q] \subseteq sessions[q] \cup (late' \ captured[child[q]])
           /\ \A i \in sessions'[q] \cap captured[child[q]] :
                i \in frozen[q] \cup thawed[q] => i \in frozen'[q] \cup thawed'[q]
  PROVE  Freezes' /\ Lates'
<1>. SUFFICES ASSUME NEW q \in Proc, status'[q] \in Winding
              PROVE  /\ sessions'[q] \cap captured'[child'[q]] \subseteq frozen'[q] \cup thawed'[q]
                     /\ sessions'[q] \subseteq captured'[child'[q]] \cup late'
  BY DEF Freezes, Lates
<1>1. /\ status[q] \in Winding /\ captured'[child'[q]] = captured[child[q]]
      /\ sessions'[q] \subseteq sessions[q] \cup (late' \ captured[child[q]])
      /\ \A i \in sessions'[q] \cap captured[child[q]] :
           i \in frozen[q] \cup thawed[q] => i \in frozen'[q] \cup thawed'[q]
  OBVIOUS
<1>2. sessions[q] \cap captured[child[q]] \subseteq frozen[q] \cup thawed[q]
  BY <1>1 DEF Freezes
<1>3. sessions[q] \subseteq captured[child[q]] \cup late
  BY <1>1 DEF Lates
<1>. QED BY <1>1, <1>2, <1>3

\* The freeze holds, but for what resumePaused thaws, and only a terminal
\* opened during the wait is in no snapshot.
LEMMA StepWinding ==
  TypeOK /\ LineInv /\ Masters /\ Freezes /\ Lates /\ [Next]_vars => Freezes' /\ Lates'
<1>. SUFFICES ASSUME TypeOK, LineInv, Masters, Freezes, Lates, [Next]_vars PROVE Freezes' /\ Lates'
  OBVIOUS
<1>. USE Types
<1>0. \A q \in Proc : status[q] \in Winding =>
        child[q] \in Proc /\ child[q] # q /\ status[child[q]] # "off"
  BY DEF LineInv, Parents, Proc
<1>1. ASSUME NEW p \in Proc, NEW i \in Id, Open(p, i) PROVE Freezes' /\ Lates'
  <2>1. /\ UNCHANGED <<status, child, captured, frozen, thawed>>
        /\ status[p] \in {"serving", "waiting"}
        /\ late' = IF status[p] = "waiting" THEN late \cup {i} ELSE late
    BY <1>1 DEF Open, procVars
  <2>2. sessions'[p] = sessions[p] \cup {i} /\ \A q \in Proc \ {p} : sessions'[q] = sessions[q]
    BY <1>1 DEF Open, Sets
  <2>3. \A q \in Proc : i \notin captured[q]
    BY <1>1 DEF Open, Masters
  <2>4. \A q \in Proc : status[q] \in Winding =>
          sessions'[q] \subseteq sessions[q] \cup (late' \ captured[child[q]])
    BY <1>0, <2>1, <2>2, <2>3 DEF Winding
  <2>. QED BY <2>1, <2>4, KeepWinding
<1>2. ASSUME NEW i \in Id, Produce(i) \/ ShellExit(i) PROVE Freezes' /\ Lates'
  <2>1. UNCHANGED <<status, child, captured, sessions, frozen, thawed, late>>
    BY <1>2 DEF Produce, ShellExit, procVars, sessVars, histVars
  <2>. QED BY <2>1, KeepWinding
<1>3. ASSUME NEW p \in Proc, NEW i \in Id, Read(p, i) PROVE Freezes' /\ Lates'
  <2>1. UNCHANGED <<status, child, captured, sessions, thawed, late>>
    BY <1>3 DEF Read, procVars
  <2>2. \A q \in Proc : frozen[q] \subseteq frozen'[q]
    BY <1>3 DEF Read, Sets
  <2>. QED BY <2>1, <2>2, KeepWinding
<1>4. ASSUME NEW p \in Proc, NEW i \in Id, ReadWhilePaused(p, i) PROVE Freezes' /\ Lates'
  <2>1. UNCHANGED <<status, child, captured, sessions, frozen, thawed, late>>
    BY <1>4 DEF ReadWhilePaused, procVars
  <2>. QED BY <2>1, KeepWinding
<1>5. ASSUME NEW p \in Proc, NEW i \in Id, NoticeExit(p, i) PROVE Freezes' /\ Lates'
  <2>1. UNCHANGED <<status, child, captured, thawed, late>>
    BY <1>5 DEF NoticeExit, procVars, histVars
  <2>2. /\ sessions'[p] = sessions[p] \ {i} /\ \A q \in Proc \ {p} : sessions'[q] = sessions[q]
        /\ frozen'[p] = frozen[p] \ {i} /\ \A q \in Proc \ {p} : frozen'[q] = frozen[q]
    BY <1>5 DEF NoticeExit, Sets
  <2>. QED BY <2>1, <2>2, KeepWinding
<1>6. ASSUME NEW p \in Proc, ResumePaused(p), child[p] \in Proc
      PROVE  /\ frozen[p] \cap captured[child[p]] \subseteq frozen'[p] \cup thawed'[p]
             /\ thawed[p] \subseteq thawed'[p]
             /\ \A q \in Proc \ {p} : frozen'[q] = frozen[q] /\ thawed'[q] = thawed[q]
  <2>1. /\ frozen'[p] = frozen[p] \ held[p]
        /\ \A q \in Proc \ {p} : frozen'[q] = frozen[q]
    BY <1>6, ResumeType DEF ResumePaused
  <2>2. thawed' = [thawed EXCEPT ![p] = @ \cup (held[p] \cap captured[child[p]])]
    BY <1>6 DEF ResumePaused, Proc
  <2>. QED BY <2>1, <2>2 DEF Sets
<1>7. ASSUME NEW p \in Proc, DrainConn(p) PROVE Freezes' /\ Lates'
  <2>1. UNCHANGED <<status, child, captured, sessions, late>> /\ ResumePaused(p)
    BY <1>7 DEF DrainConn, procVars
  <2>2. \A q \in Proc \ {p} : frozen'[q] = frozen[q] /\ thawed'[q] = thawed[q]
    <3>1. thawed' = thawed \/ thawed' = [thawed EXCEPT ![p] = @ \cup (held[p] \cap captured[child[p]])]
      BY <2>1 DEF ResumePaused
    <3>. QED BY <2>1, <3>1, ResumeType DEF ResumePaused, Sets
  <2>. QED BY <1>0, <1>6, <2>1, <2>2, KeepWinding
<1>8. ASSUME NEW p \in Proc, PrepareFails(p) PROVE Freezes' /\ Lates'
  <2>1. /\ UNCHANGED <<status, child, captured, sessions, thawed, late>>
        /\ status[p] = "serving" /\ Resume(p, sessions[p])
    BY <1>8 DEF PrepareFails, MayPrepare, procVars, histVars
  <2>. QED BY <2>1, ResumeType, KeepWinding DEF Winding
<1>9. ASSUME NEW p \in Proc, NEW c \in Proc, Prepare(p, c) PROVE Freezes' /\ Lates'
  <2>1. status[p] = "serving" /\ status[c] = "off" /\ p # c /\ UNCHANGED <<sessions, thawed, late>>
    BY <1>9 DEF Prepare, MayPrepare, histVars
  <2>2. /\ status'[p] = "waiting" /\ status'[c] = "boot"
        /\ \A q \in Proc \ {p, c} : status'[q] = status[q]
    BY <1>9, <2>1 DEF Prepare
  <2>3. /\ child'[p] = c /\ \A q \in Proc \ {p} : child'[q] = child[q]
        /\ captured'[c] = sessions[p] /\ \A q \in Proc \ {c} : captured'[q] = captured[q]
        /\ sessions[p] \subseteq frozen'[p] /\ \A q \in Proc \ {p} : frozen'[q] = frozen[q]
    BY <1>9 DEF Prepare, Frozen, Sets
  <2>. SUFFICES ASSUME NEW q \in Proc, status'[q] \in Winding
                PROVE  /\ sessions'[q] \cap captured'[child'[q]] \subseteq frozen'[q] \cup thawed'[q]
                       /\ sessions'[q] \subseteq captured'[child'[q]] \cup late'
    BY DEF Freezes, Lates
  <2>4. CASE q = p
    BY <2>1, <2>3, <2>4
  <2>5. CASE q # p
    <3>1. q # c /\ status[q] \in Winding
      BY <2>2, <2>5 DEF Winding
    <3>2. child[q] \in Proc /\ child[q] # c
      BY <1>0, <2>1, <3>1
    <3>3. child'[q] = child[q] /\ captured'[child[q]] = captured[child[q]] /\ frozen'[q] = frozen[q]
      BY <2>3, <2>5, <3>2
    <3>. QED BY <2>1, <3>1, <3>3 DEF Freezes, Lates
  <2>. QED BY <2>4, <2>5
<1>10. ASSUME NEW p \in Proc, FailHandoff(p) PROVE Freezes' /\ Lates'
  <2>. DEFINE c == child[p]
  <2>1. c \in Proc /\ p # c /\ status[p] = "waiting"
    BY <1>0, <1>10 DEF FailHandoff, GivesUp, Winding
  <2>2. /\ status' = [status EXCEPT ![p] = "serving", ![c] = "dead"] /\ Gone(c)
        /\ Resume(p, captured[c] \cap sessions[p]) /\ UNCHANGED <<captured, late>>
        /\ child' = [child EXCEPT ![p] = 0] /\ thawed' = [thawed EXCEPT ![p] = {}]
    BY <1>10 DEF FailHandoff, Rollback
  <2>. HIDE DEF c
  <2>3. status'[p] = "serving" /\ status'[c] = "dead" /\ \A q \in Proc \ {p, c} : status'[q] = status[q]
    BY <2>1, <2>2
  <2>4. \A q \in Proc \ {p, c} : /\ child'[q] = child[q] /\ thawed'[q] = thawed[q]
                                /\ sessions'[q] = sessions[q] /\ frozen'[q] = frozen[q]
    BY <2>1, <2>2, GoneType, ResumeType DEF Sets
  <2>. QED BY <2>2, <2>3, <2>4, KeepWinding DEF Winding
<1>11. ASSUME NEW p \in Proc, Commit(p) PROVE Freezes' /\ Lates'
  <2>1. /\ UNCHANGED <<child, captured, sessions, frozen, thawed, late>> /\ status[p] = "waiting"
        /\ \A q \in Proc \ {p} : status'[q] = status[q]
    BY <1>11 DEF Commit, histVars
  <2>. QED BY <2>1, KeepWinding DEF Winding
<1>12. ASSUME NEW p \in Proc, CloseConns(p) PROVE Freezes' /\ Lates'
  <2>1. /\ UNCHANGED <<child, captured, sessions, late>> /\ ResumePaused(p)
        /\ status[p] = "handedOff" /\ \A q \in Proc \ {p} : status'[q] = status[q]
    BY <1>12 DEF CloseConns
  <2>. QED BY <1>0, <1>6, <2>1, KeepWinding DEF Winding
<1>13. ASSUME NEW p \in Proc, ExitOld(p) \/ Nak(p) \/ Crash(p) \/ Shutdown(p) PROVE Freezes' /\ Lates'
  <2>1. /\ status'[p] = "dead" /\ (\A q \in Proc \ {p} : status'[q] = status[q]) /\ Gone(p)
        /\ UNCHANGED <<child, captured, frozen, thawed, late>>
    BY <1>13 DEF ExitOld, Nak, Crash, Shutdown, histVars
  <2>2. \A q \in Proc \ {p} : sessions'[q] = sessions[q]
    BY <2>1, GoneType
  <2>. QED BY <2>1, <2>2, KeepWinding DEF Winding
<1>14. ASSUME NEW p \in Proc, Adopt(p) \/ Bind(p) PROVE Freezes' /\ Lates'
  <2>1. /\ UNCHANGED <<child, captured, frozen, thawed, late>> /\ status'[p] \notin Winding
        /\ \A q \in Proc \ {p} : status'[q] = status[q] /\ sessions'[q] = sessions[q]
    BY <1>14 DEF Adopt, Bind, sessVars, histVars, Winding, Sets
  <2>. QED BY <2>1, KeepWinding
<1>15. CASE UNCHANGED vars
  <2>1. UNCHANGED <<status, child, captured, sessions, frozen, thawed, late>>
    BY <1>15 DEF vars, procVars, sessVars, histVars
  <2>. QED BY <2>1, KeepWinding
<1>. QED
  BY <1>1, <1>2, <1>3, <1>4, <1>5, <1>7, <1>8, <1>9, <1>10, <1>11, <1>12, <1>13, <1>14, <1>15 DEF Next

\* Two processes hold a terminal only along the line, and there the freeze is on.
LEMMA LineReads == TypeOK /\ LineInv /\ Freezes => OneReader
<1>. SUFFICES ASSUME TypeOK, LineInv, Freezes PROVE OneReader
  OBVIOUS
<1>1. ASSUME NEW i \in Id, NEW p \in Proc, NEW q \in Proc, Reads(p, i), Reads(q, i), p < q
      PROVE  i \in thawed[p]
  <2>1. status[p] \in Active /\ status[q] \in Active /\ i \in sessions[p] /\ i \in sessions[q] /\ i \notin frozen[p]
    BY <1>1 DEF Reads, Active
  <2>2. status[p] \in Winding /\ sessions[p] \cap (sessions[q] \cup captured[q]) \subseteq captured[child[p]]
    BY <1>1, <2>1 DEF LineInv, Line
  <2>. QED BY <2>1, <2>2 DEF Freezes
<1>. QED BY <1>1 DEF OneReader, Proc
-----------------------------------------------------------------------------
(* Who keeps a terminal open.                                                *)

Passed == {"handedOff", "closed", "dead"}

\* A front process stays one unless it dies, or hands off.
LEMMA KeepFront ==
  ASSUME NEW f \in Proc, Front(f), parent'[f] = parent[f],
         \/ status'[f] = status[f]
         \/ status'[f] \in {"serving", "waiting"},
         \A r \in Proc : status[r] \in Passed => status'[r] \in Passed
  PROVE  Front(f)'
<1>1. CASE status'[f] \in {"serving", "waiting"}
  BY <1>1 DEF Front
<1>2. CASE status'[f] = status[f] /\ status[f] \notin {"serving", "waiting"}
  <2>1. status[f] = "acked" /\ parent[f] \in Proc /\ status[parent[f]] \in Passed
    BY <1>2 DEF Front, Passed
  <2>2. status'[parent[f]] \in Passed
    BY <2>1
  <2>. QED BY <1>2, <2>1, <2>2 DEF Front, Passed
<1>. QED BY <1>1, <1>2

\* Without a crash, what a front process holds open is killed by request, ends
\* on its own, or is held by a front process after the step.
LEMMA StepHolder ==
  ASSUME TypeOK, LineInv, Masters, Lates, [Next]_vars, ~crashed, ~crashed',
         NEW i \in Id, i \notin late, shell[i] = "running",
         NEW f \in Proc, Front(f), i \in fds[f]
  PROVE  shell'[i] \in {"exited", "killed"} \/ \E g \in Proc : Front(g)' /\ i \in fds'[g]
<1>. USE Types
<1>. DEFINE Goal == shell'[i] \in {"exited", "killed"} \/ \E g \in Proc : Front(g)' /\ i \in fds'[g]
<1>0. ASSUME parent'[f] = parent[f], i \in fds'[f],
             \/ status'[f] = status[f]
             \/ status'[f] \in {"serving", "waiting"},
             \A r \in Proc : status[r] \in Passed => status'[r] \in Passed
      PROVE  Goal
  BY <1>0, KeepFront
<1>1. ASSUME NEW p \in Proc, NEW j \in Id, Open(p, j) PROVE Goal
  <2>1. UNCHANGED <<status, parent>> /\ i \in fds'[f]
    BY <1>1 DEF Open, procVars, Sets
  <2>. QED BY <1>0, <2>1
<1>2. ASSUME NEW j \in Id, Produce(j) \/ ShellExit(j) PROVE Goal
  <2>1. UNCHANGED <<status, parent, fds>>
    BY <1>2 DEF Produce, ShellExit, procVars, sessVars
  <2>. QED BY <1>0, <2>1
<1>3. ASSUME NEW p \in Proc, NEW j \in Id, Read(p, j) \/ ReadWhilePaused(p, j) PROVE Goal
  <2>1. UNCHANGED <<status, parent, fds>>
    BY <1>3 DEF Read, ReadWhilePaused, procVars
  <2>. QED BY <1>0, <2>1
<1>4. ASSUME NEW p \in Proc, NEW j \in Id, NoticeExit(p, j) PROVE Goal
  <2>1. UNCHANGED <<status, parent>> /\ shell[j] # "running" /\ fds' = [fds EXCEPT ![p] = @ \ {j}]
    BY <1>4 DEF NoticeExit, procVars
  <2>2. i \in fds'[f]
    BY <2>1 DEF Sets
  <2>. QED BY <1>0, <2>1, <2>2
<1>5. ASSUME NEW p \in Proc, DrainConn(p) \/ PrepareFails(p) PROVE Goal
  <2>1. UNCHANGED <<status, parent, fds>>
    BY <1>5 DEF DrainConn, PrepareFails, procVars
  <2>. QED BY <1>0, <2>1
<1>6. ASSUME NEW p \in Proc, NEW c \in Proc, Prepare(p, c) PROVE Goal
  <2>1. status[p] = "serving" /\ status[c] = "off" /\ p # c
    BY <1>6 DEF Prepare, MayPrepare
  <2>2. /\ status'[p] = "waiting" /\ status'[c] = "boot"
        /\ \A q \in Proc \ {p, c} : status'[q] = status[q]
    BY <1>6, <2>1 DEF Prepare
  <2>3. \A q \in Proc \ {c} : parent'[q] = parent[q] /\ fds'[q] = fds[q]
    BY <1>6 DEF Prepare, Sets
  <2>4. f # c
    BY <2>1 DEF Front
  <2>5. \A r \in Proc : status[r] \in Passed => status'[r] \in Passed
    BY <2>1, <2>2 DEF Passed
  <2>. QED BY <1>0, <2>2, <2>3, <2>4, <2>5
<1>7. ASSUME NEW p \in Proc, FailHandoff(p) PROVE Goal
  <2>. DEFINE c == child[p]
  <2>1. c \in Proc /\ p # c /\ status[p] = "waiting" /\ parent[c] = p /\ status[c] \in {"boot", "acked", "dead"}
    BY <1>7 DEF FailHandoff, GivesUp, LineInv, Parents, Waits, Winding, Proc
  <2>2. status' = [status EXCEPT ![p] = "serving", ![c] = "dead"] /\ Gone(c) /\ UNCHANGED parent
    BY <1>7 DEF FailHandoff
  <2>. HIDE DEF c
  <2>3. status'[p] = "serving" /\ status'[c] = "dead" /\ \A q \in Proc \ {p, c} : status'[q] = status[q]
    BY <2>1, <2>2
  <2>4. f # c
    BY <2>1 DEF Front
  <2>5. i \in fds'[f]
    BY <2>1, <2>2, <2>4, GoneType
  <2>6. \A r \in Proc : status[r] \in Passed => status'[r] \in Passed
    BY <2>1, <2>3 DEF Passed
  <2>. QED BY <1>0, <2>2, <2>3, <2>4, <2>5, <2>6
<1>8. ASSUME NEW p \in Proc, Commit(p) PROVE Goal
  <2>0. PICK c \in Proc : c = child[p]
    BY <1>8 DEF Commit, LineInv, Parents, Winding
  <2>1. p # c /\ status[p] = "waiting" /\ parent[c] = p /\ status[c] = "acked"
    BY <1>8, <2>0 DEF Commit, LineInv, Parents, Waits, Winding, Proc
  <2>2. /\ status'[p] = "handedOff" /\ \A q \in Proc \ {p} : status'[q] = status[q]
        /\ \A q \in Proc \ {p} : fds'[q] = fds[q]
        /\ UNCHANGED parent
    BY <1>8 DEF Commit, Sets
  <2>3. \A r \in Proc : status[r] \in Passed => status'[r] \in Passed
    BY <2>1, <2>2 DEF Passed
  <2>4. CASE f # p
    BY <1>0, <2>2, <2>3, <2>4
  <2>5. CASE f = p
    <3>1. i \in sessions[p]
      <4>1. fds[p] \subseteq Own(p)
        BY <2>1 DEF Masters, Active, Up
      <4>. QED BY <2>1, <2>5, <4>1 DEF Own
    <3>2. i \in captured[c]
      BY <2>0, <2>1, <3>1 DEF Lates, Winding
    <3>3. i \in fds[c]
      <4>1. \A j \in Wants(c) : shell[j] = "running" => j \in fds[c]
        BY <2>1 DEF Masters, Keeps
      <4>2. Wants(c) = captured[c]
        BY <2>1 DEF Wants
      <4>. QED BY <3>2, <4>1, <4>2
    <3>4. Front(c)'
      BY <2>1, <2>2 DEF Front
    <3>. QED BY <2>1, <2>2, <3>3, <3>4
  <2>. QED BY <2>4, <2>5
<1>9. ASSUME NEW p \in Proc, CloseConns(p) PROVE Goal
  <2>1. /\ status[p] = "handedOff" /\ status'[p] = "closed" /\ \A q \in Proc \ {p} : status'[q] = status[q]
        /\ UNCHANGED <<parent, fds>>
    BY <1>9 DEF CloseConns
  <2>2. f # p
    BY <2>1 DEF Front
  <2>. QED BY <1>0, <2>1, <2>2 DEF Passed
<1>10. ASSUME NEW p \in Proc, f # p, ExitOld(p) \/ Nak(p) \/ Shutdown(p) PROVE Goal
  <2>1. /\ status'[p] = "dead" /\ (\A q \in Proc \ {p} : status'[q] = status[q]) /\ Gone(p)
        /\ UNCHANGED parent
    BY <1>10 DEF ExitOld, Nak, Shutdown
  <2>2. fds'[f] = fds[f]
    BY <1>10, <2>1, GoneType
  <2>. QED BY <1>0, <1>10, <2>1, <2>2 DEF Passed
<1>11. ASSUME NEW p \in Proc, ExitOld(p) \/ Nak(p) PROVE Goal
  <2>1. f # p
    BY <1>11 DEF ExitOld, Nak, Front
  <2>. QED BY <1>10, <1>11, <2>1
<1>12. ASSUME NEW p \in Proc, Shutdown(p) PROVE Goal
  <2>1. CASE f # p
    BY <1>10, <1>12, <2>1
  <2>2. CASE f = p
    <3>1. status[p] \in {"serving", "waiting"}
      BY <1>12, <2>2 DEF Shutdown, Front
    <3>2. fds[p] \subseteq sessions[p]
      BY <3>1 DEF Masters, Active, Up, Own
    <3>3. i \in Kills(p)
      BY <2>2, <3>1, <3>2 DEF Kills
    <3>4. shell'[i] = "killed"
      BY <1>12, <3>3 DEF Shutdown
    <3>. QED BY <3>4
  <2>. QED BY <2>1, <2>2
<1>13. ASSUME NEW p \in Proc, Adopt(p) PROVE Goal
  <2>1. /\ status[p] = "boot" /\ status'[p] = "acked" /\ \A q \in Proc \ {p} : status'[q] = status[q]
        /\ UNCHANGED <<parent, fds>>
    BY <1>13 DEF Adopt
  <2>2. f # p
    BY <2>1 DEF Front
  <2>. QED BY <1>0, <2>1, <2>2 DEF Passed
<1>14. ASSUME NEW p \in Proc, Bind(p) PROVE Goal
  <2>1. /\ status[p] = "acked" /\ status'[p] = "serving" /\ \A q \in Proc \ {p} : status'[q] = status[q]
        /\ UNCHANGED <<parent, fds>>
    BY <1>14 DEF Bind, sessVars
  <2>. QED BY <1>0, <2>1 DEF Passed
<1>15. ASSUME NEW p \in Proc, Crash(p) PROVE Goal
  BY <1>15 DEF Crash
<1>16. CASE UNCHANGED vars
  <2>1. UNCHANGED <<status, parent, fds>>
    BY <1>16 DEF vars, procVars, sessVars
  <2>. QED BY <1>0, <2>1
<1>. QED
  BY <1>1, <1>2, <1>3, <1>4, <1>5, <1>6, <1>7, <1>8, <1>9, <1>11, <1>12, <1>13, <1>14, <1>15, <1>16 DEF Next

\* What a step does to the shells and to the histories.
LEMMA StepShell ==
  ASSUME TypeOK, [Next]_vars
  PROVE  /\ late \subseteq late' /\ (crashed => crashed')
         /\ \A i \in Id : shell'[i] = "hungup" =>
              shell[i] = "hungup" \/ (shell[i] = "running" /\ \A q \in Proc : i \notin fds'[q])
         /\ \A i \in Id : shell'[i] = "running" /\ i \notin late' =>
              \/ shell[i] = "running"
              \/ \E p \in Proc : status'[p] = "serving" /\ i \in fds'[p]
<1>. USE Types
<1>. DEFINE A == /\ late \subseteq late' /\ (crashed => crashed')
         B == \A i \in Id : shell'[i] = "hungup" =>
              shell[i] = "hungup" \/ (shell[i] = "running" /\ \A q \in Proc : i \notin fds'[q])
         C == \A i \in Id : shell'[i] = "running" /\ i \notin late' =>
              \/ shell[i] = "running"
              \/ \E p \in Proc : status'[p] = "serving" /\ i \in fds'[p]
<1>1. ASSUME NEW p \in Proc, NEW i \in Id, Open(p, i) PROVE A /\ B /\ C
  <2>1. /\ UNCHANGED <<status, crashed>> /\ status[p] \in {"serving", "waiting"}
        /\ late' = IF status[p] = "waiting" THEN late \cup {i} ELSE late
        /\ shell' = [shell EXCEPT ![i] = "running"] /\ i \in fds'[p]
    BY <1>1 DEF Open, procVars, Sets
  <2>. QED BY <2>1
<1>2. ASSUME shell' = shell, UNCHANGED <<late, crashed>> PROVE A /\ B /\ C
  BY <1>2
<1>3. ASSUME NEW i \in Id, ShellExit(i) PROVE A /\ B /\ C
  BY <1>3 DEF ShellExit, histVars
<1>4. ASSUME NEW open, open = fds', shell' = HangUp(open), late' = late, crashed => crashed' PROVE A /\ B /\ C
  BY <1>4, HangUpType
<1>5. ASSUME NEW p \in Proc, Shutdown(p) PROVE A /\ B /\ C
  <2>1. \A i \in Id : shell'[i] = "killed" \/ shell'[i] = HangUp(fds')[i]
    BY <1>5 DEF Shutdown
  <2>2. UNCHANGED <<late, crashed>>
    BY <1>5 DEF Shutdown, histVars
  <2>3. B /\ C
    BY <2>1, HangUpType
  <2>. QED BY <2>2, <2>3
<1>6. ASSUME NEW p \in Proc, Commit(p) \/ ExitOld(p) \/ Nak(p) \/ Crash(p) PROVE A /\ B /\ C
  <2>1. shell' = HangUp(fds') /\ late' = late
    BY <1>6 DEF Commit, ExitOld, Nak, Crash, histVars
  <2>2. crashed => crashed'
    BY <1>6, Zenon DEF Commit, ExitOld, Nak, Crash, histVars
  <2>. QED BY <1>4, <2>1, <2>2
<1>7. ASSUME NEW p \in Proc, NEW i \in Id, Read(p, i) \/ ReadWhilePaused(p, i) \/ NoticeExit(p, i) PROVE A /\ B /\ C
  BY <1>2, <1>7 DEF Read, ReadWhilePaused, NoticeExit, termVars, histVars
<1>8. ASSUME NEW i \in Id, Produce(i) PROVE A /\ B /\ C
  BY <1>2, <1>8 DEF Produce, histVars
<1>9. ASSUME NEW p \in Proc, NEW c \in Proc, Prepare(p, c) PROVE A /\ B /\ C
  BY <1>2, <1>9 DEF Prepare, termVars, histVars
<1>10. ASSUME NEW p \in Proc, \/ DrainConn(p) \/ PrepareFails(p) \/ FailHandoff(p)
                              \/ CloseConns(p) \/ Adopt(p) \/ Bind(p)
       PROVE A /\ B /\ C
  BY <1>2, <1>10 DEF DrainConn, PrepareFails, FailHandoff, CloseConns, Adopt, Bind, termVars, histVars
<1>11. CASE UNCHANGED vars
  BY <1>2, <1>11 DEF vars, termVars, histVars
<1>. QED BY <1>1, <1>3, <1>5, <1>6, <1>7, <1>8, <1>9, <1>10, <1>11 DEF Next

\* Every step leaves a front process holding each terminal that must survive.
LEMMA StepOpen ==
  TypeOK /\ LineInv /\ Masters /\ Lates /\ Open1 /\ CapturedSurvive /\ [Next]_vars
    => Open1' /\ CapturedSurvive'
<1>. SUFFICES ASSUME TypeOK, LineInv, Masters, Lates, Open1, CapturedSurvive, [Next]_vars
              PROVE  Open1' /\ CapturedSurvive'
  OBVIOUS
<1>1. ASSUME ~crashed', NEW i \in Id, i \notin late', shell[i] = "running"
      PROVE  shell'[i] \in {"exited", "killed"} \/ \E g \in Proc : Front(g)' /\ i \in fds'[g]
  <2>1. ~crashed /\ i \notin late
    BY <1>1, StepShell
  <2>2. PICK f \in Proc : Front(f) /\ i \in fds[f]
    BY <1>1, <2>1 DEF Open1
  <2>. QED BY <1>1, <2>1, <2>2, StepHolder
<1>2. Open1'
  <2>. SUFFICES ASSUME ~crashed', NEW i \in Id, i \notin late', shell'[i] = "running"
                PROVE  \E g \in Proc : Front(g)' /\ i \in fds'[g]
    BY DEF Open1
  <2>1. CASE shell[i] = "running"
    BY <1>1, <2>1
  <2>2. CASE shell[i] # "running"
    <3>1. PICK p \in Proc : status'[p] = "serving" /\ i \in fds'[p]
      BY <2>2, StepShell
    <3>2. Front(p)'
      BY <3>1 DEF Front
    <3>. QED BY <3>1, <3>2
  <2>. QED BY <2>1, <2>2
<1>3. CapturedSurvive'
  <2>. SUFFICES ASSUME NEW i \in Id, shell'[i] = "hungup", i \notin late', ~crashed' PROVE FALSE
    BY DEF CapturedSurvive
  <2>1. i \notin late /\ ~crashed
    BY StepShell
  <2>2. shell[i] # "hungup"
    BY <2>1 DEF CapturedSurvive
  <2>3. shell[i] = "running" /\ \A q \in Proc : i \notin fds'[q]
    BY <2>2, StepShell
  <2>. QED BY <1>1, <2>3
<1>. QED BY <1>2, <1>3
-----------------------------------------------------------------------------
(* What was read.                                                            *)

\* What loses no unit of anyone, and moves processes on, leaves no gap.
LEMMA KeepGaps ==
  ASSUME TypeOK, Masters, Gaps, taken' = taken,
         \A q \in Proc : \A i \in Id : Has(q, i) \subseteq Has(q, i)',
         \A q \in Proc :
           \/ status'[q] \notin Keeps
           \/ /\ status'[q] = status[q] /\ captured'[q] = captured[q]
              /\ sessions'[q] \subseteq sessions[q] \/ status[q] \in {"boot", "acked"}
              /\ status[q] = "waiting" => /\ child'[q] = child[q]
                                          /\ \A i \in Id : ring[child[q]][i] \subseteq ring'[child[q]][i]
           \/ status[q] = "boot" /\ status'[q] = "acked" /\ captured'[q] = captured[q]
           \/ status[q] = "acked" /\ status'[q] = "serving" /\ sessions'[q] = sessions[q]
  PROVE  Gaps'
<1>. SUFFICES ASSUME NEW q \in Proc, status'[q] \in Keeps, NEW i \in Wants(q)'
              PROVE  1..taken'[i] \subseteq Known(q, i)'
  BY DEF Gaps
<1>1. status[q] \in Keeps
  BY DEF Keeps
<1>2. i \in Wants(q)
  BY DEF Wants, Masters, Keeps
<1>3. i \in Id
  BY <1>2, Types DEF Wants, Sets
<1>4. 1..taken[i] \subseteq Known(q, i)
  BY <1>1, <1>2 DEF Gaps
<1>5. Has(q, i) \subseteq Has(q, i)'
  BY <1>3
<1>6. CASE status[q] = "waiting"
  <2>1. status'[q] = "waiting" /\ child'[q] = child[q] /\ ring[child[q]][i] \subseteq ring'[child[q]][i]
    BY <1>3, <1>6 DEF Keeps
  <2>. QED BY <1>4, <1>5, <1>6, <2>1 DEF Known
<1>7. CASE status[q] # "waiting"
  BY <1>4, <1>5, <1>7 DEF Known
<1>. QED BY <1>6, <1>7

\* A terminal that is in a process below and in its reader above is thawed there.
LEMMA ReadBelow ==
  ASSUME TypeOK, LineInv, Freezes, NEW q \in Proc, NEW i \in Id,
         status[q] \in Up, i \in sessions[q], i \notin frozen[q],
         NEW p \in Proc, q < p, status[p] \in Active, i \in sessions[p] \cup captured[p]
  PROVE  i \in thawed[q]
<1>1. status[q] \in Winding /\ sessions[q] \cap (sessions[p] \cup captured[p]) \subseteq captured[child[q]]
  BY DEF LineInv, Line, Active
<1>. QED BY <1>1 DEF Freezes

\* Every step keeps what was read with those who show it.
LEMMA StepGaps ==
  TypeOK /\ LineInv /\ Masters /\ Freezes /\ Streams /\ Gaps /\ [Next]_vars => Streams' /\ Gaps'
<1>. SUFFICES ASSUME TypeOK, LineInv, Masters, Freezes, Streams, Gaps, [Next]_vars PROVE Streams' /\ Gaps'
  OBVIOUS
<1>. USE Types
<1>0. \A q \in Proc : status[q] = "waiting" => child[q] \in Proc /\ q < child[q] /\ status[child[q]] # "off"
  BY DEF LineInv, Parents, Winding
<1>1. ASSUME NEW p \in Proc, NEW i \in Id, Open(p, i) PROVE Streams' /\ Gaps'
  <2>1. /\ UNCHANGED <<status, child, captured, taken, ring, stream, spoiled, leaked>>
        /\ status[p] \in {"serving", "waiting"} /\ shell[i] = "none"
    BY <1>1 DEF Open, procVars
  <2>2. sessions'[p] = sessions[p] \cup {i} /\ \A q \in Proc \ {p} : sessions'[q] = sessions[q]
    BY <1>1 DEF Open, Sets
  <2>3. 1..taken[i] = {}
    <3>1. made[i] = 0 /\ taken[i] \in 0..MaxOut /\ taken[i] <= made[i] /\ made[i] \in 0..MaxOut
      BY <2>1 DEF Masters
    <3>. QED BY <3>1, HandoffAssumption
  <2>4. Gaps'
    <3>. SUFFICES ASSUME NEW q \in Proc, status[q] \in Keeps, NEW j \in Wants(q)'
                  PROVE  1..taken[j] \subseteq Known(q, j)'
      BY <2>1 DEF Gaps
    <3>1. Known(q, j)' = Known(q, j)
      BY <2>1 DEF Known, Has
    <3>2. j = i \/ j \in Wants(q)
      BY <2>1, <2>2 DEF Wants
    <3>. QED BY <2>3, <3>1, <3>2 DEF Gaps
  <2>. QED BY <2>1, <2>4 DEF Streams
<1>2. ASSUME UNCHANGED <<status, child, captured, sessions, taken, ring, stream, spoiled, leaked>>
      PROVE  Streams' /\ Gaps'
  <2>1. \A q \in Proc : \A i \in Id : Has(q, i)' = Has(q, i)
    BY <1>2 DEF Has
  <2>2. Gaps'
    BY <1>2, <2>1, KeepGaps
  <2>. QED BY <1>2, <2>2 DEF Streams
<1>3. ASSUME NEW i \in Id, Produce(i) \/ ShellExit(i) PROVE Streams' /\ Gaps'
  BY <1>2, <1>3 DEF Produce, ShellExit, procVars, sessVars, histVars
<1>4. ASSUME NEW p \in Proc, NEW i \in Id, Read(p, i) PROVE Streams' /\ Gaps'
  <2>. DEFINE u == taken[i] + 1
  <2>1. /\ UNCHANGED <<status, child, captured, sessions, stream, spoiled>>
        /\ status[p] \in Up /\ i \in sessions[p] /\ i \notin frozen[p]
    BY <1>4 DEF Read, procVars
  <2>2. /\ taken'[i] = u /\ \A j \in Id \ {i} : taken'[j] = taken[j]
        /\ taken[i] \in Nat
    BY <1>4, HandoffAssumption DEF Read
  <2>3. ring' = [ring EXCEPT ![p][i] = @ \cup {u}]
    BY <1>4 DEF Read
  <2>4. u \in ring'[p][i] /\ \A q \in Proc : \A j \in Id : ring[q][j] \subseteq ring'[q][j]
    BY <2>3 DEF Units
  <2>5. /\ i \in thawed[p] => u \in leaked'[i]
        /\ \A j \in Id : leaked[j] \subseteq leaked'[j]
    BY <1>4 DEF Read
  <2>. HIDE DEF u
  <2>6. \A q \in Proc : \A j \in Id : Has(q, j) \subseteq Has(q, j)'
    BY <2>1, <2>4, <2>5 DEF Has
  <2>7. \A q \in Proc : \A j \in Id : status[q] \in Keeps /\ j \in Wants(q) => Known(q, j) \subseteq Known(q, j)'
    BY <1>0, <2>1, <2>4, <2>6 DEF Known
  <2>8. ASSUME NEW q \in Proc, status[q] \in Keeps, i \in Wants(q) PROVE u \in Known(q, i)'
    <3>0. i \in sessions[q] \cup captured[q] /\ status[q] \in Active /\ status[p] \in Active
      BY <2>1, <2>8 DEF Wants, Keeps, Active, Up
    <3>1. CASE q = p
      BY <2>4, <3>1 DEF Known, Has
    <3>2. CASE p < q
      <4>1. i \in thawed[p]
        BY <2>1, <3>0, <3>2, ReadBelow
      <4>. QED BY <2>5, <4>1 DEF Known, Has
    <3>3. CASE q < p
      <4>1. status[q] \in Winding /\ child[q] <= p
        BY <3>0, <3>3 DEF LineInv, Line
      <4>2. status[q] = "waiting"
        BY <2>8, <4>1 DEF Keeps, Winding
      <4>3. ~(child[q] < p)
        BY <2>1, <4>2 DEF LineInv, Waits, Up
      <4>4. child[q] = p
        BY <1>0, <4>1, <4>2, <4>3 DEF Proc
      <4>. QED BY <2>1, <2>4, <4>2, <4>4 DEF Known
    <3>. QED BY <3>1, <3>2, <3>3 DEF Proc
  <2>9. Gaps'
    <3>. SUFFICES ASSUME NEW q \in Proc, status[q] \in Keeps, NEW j \in Wants(q)
                  PROVE  1..taken'[j] \subseteq Known(q, j)'
      BY <2>1 DEF Gaps, Wants
    <3>1. j \in Id
      BY DEF Wants, Sets
    <3>2. 1..taken[j] \subseteq Known(q, j)'
      BY <2>7, <3>1 DEF Gaps
    <3>3. CASE j # i
      BY <2>2, <3>1, <3>2, <3>3
    <3>4. CASE j = i
      <4>1. 1..taken'[i] \subseteq (1..taken[i]) \cup {u}
        BY <2>2 DEF u
      <4>. QED BY <2>8, <3>2, <3>4, <4>1
    <3>. QED BY <3>3, <3>4
  <2>10. Streams'
    BY <2>1, <2>5 DEF Streams
  <2>. QED BY <2>9, <2>10
<1>5. ASSUME NEW p \in Proc, NEW i \in Id, ReadWhilePaused(p, i) PROVE Streams' /\ Gaps'
  <2>. DEFINE u == taken[i] + 1
  <2>1. UNCHANGED <<status, child, captured, sessions, ring, spoiled>>
    BY <1>5 DEF ReadWhilePaused, procVars
  <2>2. /\ taken'[i] = u /\ \A j \in Id \ {i} : taken'[j] = taken[j]
        /\ taken[i] \in Nat
    BY <1>5, HandoffAssumption DEF ReadWhilePaused
  <2>3. u \in leaked'[i] /\ \A j \in Id : leaked[j] \subseteq leaked'[j]
    BY <1>5 DEF ReadWhilePaused
  <2>4. \A q \in Proc : \A j \in Id : stream'[q][j] = IF q = p /\ j = i THEN {u} ELSE stream[q][j]
    BY <1>5 DEF ReadWhilePaused, Units
  <2>5. stream[p][i] = {}
    BY <1>5 DEF ReadWhilePaused
  <2>. HIDE DEF u
  <2>6. \A q \in Proc : \A j \in Id : Has(q, j) \subseteq Has(q, j)'
    BY <2>1, <2>3, <2>4, <2>5 DEF Has
  <2>7. \A q \in Proc : \A j \in Id : Known(q, j) \subseteq Known(q, j)'
    BY <2>1, <2>6 DEF Known
  <2>8. Gaps'
    <3>. SUFFICES ASSUME NEW q \in Proc, status[q] \in Keeps, NEW j \in Wants(q)
                  PROVE  1..taken'[j] \subseteq Known(q, j)'
      BY <2>1 DEF Gaps, Wants
    <3>1. j \in Id
      BY DEF Wants, Sets
    <3>2. 1..taken[j] \subseteq Known(q, j)'
      BY <2>7, <3>1 DEF Gaps
    <3>3. CASE j # i
      BY <2>2, <3>1, <3>2, <3>3
    <3>4. CASE j = i
      <4>1. 1..taken'[i] \subseteq (1..taken[i]) \cup {u}
        BY <2>2 DEF u
      <4>2. u \in Known(q, i)'
        BY <2>3 DEF Known, Has
      <4>. QED BY <3>2, <3>4, <4>1, <4>2
    <3>. QED BY <3>3, <3>4
  <2>9. Streams'
    BY <2>3, <2>4 DEF Streams
  <2>. QED BY <2>8, <2>9
<1>6. ASSUME NEW p \in Proc, NEW i \in Id, NoticeExit(p, i) PROVE Streams' /\ Gaps'
  <2>1. UNCHANGED <<status, child, captured, taken, ring, stream, spoiled, leaked>>
    BY <1>6 DEF NoticeExit, procVars, termVars, histVars
  <2>2. \A q \in Proc : sessions'[q] \subseteq sessions[q]
    BY <1>6 DEF NoticeExit, Sets
  <2>3. \A q \in Proc : \A j \in Id : Has(q, j)' = Has(q, j)
    BY <2>1 DEF Has
  <2>4. Gaps'
    BY <2>1, <2>2, <2>3, KeepGaps
  <2>. QED BY <2>1, <2>4 DEF Streams
<1>7. ASSUME NEW p \in Proc, NEW S, Resume(p, S), \A i \in Id : spoiled[i] \subseteq spoiled'[i], leaked' = leaked
      PROVE  /\ Streams'
             /\ \A q \in Proc : \A i \in Id : Has(q, i) \subseteq Has(q, i)' /\ ring[q][i] \subseteq ring'[q][i]
  <2>1. \A i \in Id : /\ ring[p][i] \subseteq ring'[p][i] /\ stream'[p][i] \subseteq stream[p][i]
                      /\ ring[p][i] \cup stream[p][i] \subseteq ring'[p][i] \cup stream'[p][i]
    BY <1>7, ResumeType
  <2>2. \A q \in Proc \ {p} : ring'[q] = ring[q] /\ stream'[q] = stream[q]
    BY <1>7, ResumeType
  <2>3. Streams'
    BY <1>7, <2>1, <2>2 DEF Streams
  <2>4. \A q \in Proc : \A i \in Id : ring[q][i] \subseteq ring'[q][i] /\ ring[q][i] \cup stream[q][i] \subseteq ring'[q][i] \cup stream'[q][i]
    BY <2>1, <2>2
  <2>5. \A q \in Proc : \A i \in Id : Has(q, i) \subseteq Has(q, i)'
    BY <1>7, <2>4 DEF Has
  <2>. QED BY <2>3, <2>4, <2>5
<1>8. ASSUME NEW p \in Proc, DrainConn(p) \/ PrepareFails(p) PROVE Streams' /\ Gaps'
  <2>1. /\ UNCHANGED <<status, child, captured, sessions, taken, spoiled, leaked>>
        /\ Resume(p, held[p]) \/ Resume(p, sessions[p])
    BY <1>8 DEF DrainConn, PrepareFails, ResumePaused, procVars, termVars, histVars
  <2>2. /\ Streams'
        /\ \A q \in Proc : \A i \in Id : Has(q, i) \subseteq Has(q, i)' /\ ring[q][i] \subseteq ring'[q][i]
    BY <1>7, <2>1
  <2>3. Gaps'
    BY <1>0, <2>1, <2>2, KeepGaps
  <2>. QED BY <2>2, <2>3
<1>9. ASSUME NEW p \in Proc, NEW c \in Proc, Prepare(p, c) PROVE Streams' /\ Gaps'
  <2>1. /\ status[p] = "serving" /\ status[c] = "off" /\ p # c
        /\ UNCHANGED <<sessions, taken, stream, spoiled, leaked>>
    BY <1>9 DEF Prepare, MayPrepare, termVars, histVars
  <2>2. /\ status'[p] = "waiting" /\ status'[c] = "boot"
        /\ \A q \in Proc \ {p, c} : status'[q] = status[q]
    BY <1>9, <2>1 DEF Prepare
  <2>3. /\ child'[p] = c /\ \A q \in Proc \ {p} : child'[q] = child[q]
        /\ captured'[c] = sessions[p] /\ \A q \in Proc \ {c} : captured'[q] = captured[q]
    BY <1>9 DEF Prepare, Sets
  <2>4. /\ \A j \in Id : j \in sessions[p] => ring'[c][j] = ring[p][j]
        /\ \A q \in Proc \ {c} : ring'[q] = ring[q]
    BY <1>9 DEF Prepare, Units
  <2>5. \A q \in Proc \ {c} : \A j \in Id : Has(q, j)' = Has(q, j)
    BY <2>1, <2>4 DEF Has
  <2>6. \A j \in sessions[p] : 1..taken[j] \subseteq Has(p, j)
    BY <2>1 DEF Gaps, Keeps, Wants, Known
  <2>7. Gaps'
    <3>. SUFFICES ASSUME NEW q \in Proc, status'[q] \in Keeps, NEW j \in Wants(q)'
                  PROVE  1..taken[j] \subseteq Known(q, j)'
      BY <2>1 DEF Gaps
    <3>1. CASE q = p
      <4>1. j \in sessions[p] /\ j \in Id
        BY <2>1, <2>2, <3>1 DEF Wants, Sets
      <4>2. Has(p, j)' = Has(p, j)
        BY <2>1, <2>5, <4>1
      <4>. QED BY <2>6, <3>1, <4>1, <4>2 DEF Known
    <3>2. CASE q = c
      <4>1. j \in sessions[p] /\ j \in Id
        BY <2>2, <2>3, <3>2 DEF Wants, Sets
      <4>2. stream[p][j] \subseteq leaked[j]
        BY <4>1 DEF Streams
      <4>3. Has(p, j) \subseteq Has(c, j)'
        BY <2>1, <2>4, <4>1, <4>2 DEF Has
      <4>. QED BY <2>6, <3>2, <4>1, <4>3 DEF Known
    <3>3. CASE q # p /\ q # c
      <4>1. status'[q] = status[q] /\ j \in Wants(q)
        BY <2>1, <2>2, <2>3, <3>3 DEF Wants
      <4>2. j \in Id
        BY <4>1 DEF Wants, Sets
      <4>3. 1..taken[j] \subseteq Known(q, j)
        BY <4>1 DEF Gaps
      <4>4. Has(q, j)' = Has(q, j)
        BY <2>5, <3>3, <4>2
      <4>5. status[q] = "waiting" => child'[q] = child[q] /\ ring'[child[q]] = ring[child[q]]
        <5>1. status[q] = "waiting" => child[q] \in Proc \ {c}
          BY <1>0, <2>1
        <5>. QED BY <2>3, <2>4, <3>3, <5>1
      <4>. QED BY <4>1, <4>3, <4>4, <4>5 DEF Known
    <3>. QED BY <3>1, <3>2, <3>3
  <2>. QED BY <2>1, <2>7 DEF Streams
<1>10. ASSUME NEW p \in Proc, FailHandoff(p) PROVE Streams' /\ Gaps'
  <2>0. PICK c \in Proc : c = child[p] /\ p # c
    BY <1>0, <1>10 DEF FailHandoff, GivesUp, Proc
  <2>1. /\ status' = [status EXCEPT ![p] = "serving", ![c] = "dead"] /\ Gone(c)
        /\ Resume(p, captured[c] \cap sessions[p]) /\ status[p] = "waiting"
        /\ UNCHANGED <<captured, taken, leaked>>
        /\ child' = [child EXCEPT ![p] = 0]
        /\ \A i \in Id : spoiled'[i] = spoiled[i] \cup (ring[c][i] \ ring[p][i])
    BY <1>10, <2>0 DEF FailHandoff, Rollback, GivesUp, termVars
  <2>2. status'[p] = "serving" /\ status'[c] = "dead" /\ \A q \in Proc \ {p, c} : status'[q] = status[q]
    BY <2>0, <2>1
  <2>3. \A q \in Proc \ {c} : sessions'[q] = sessions[q]
    BY <2>1, GoneType
  <2>4. /\ Streams'
        /\ \A q \in Proc : \A i \in Id : Has(q, i) \subseteq Has(q, i)' /\ ring[q][i] \subseteq ring'[q][i]
    BY <1>7, <2>1
  <2>5. \A q \in Proc \ {p} : child'[q] = child[q]
    BY <2>1
  <2>6. Gaps'
    <3>. SUFFICES ASSUME NEW q \in Proc, status'[q] \in Keeps, NEW j \in Wants(q)'
                  PROVE  1..taken[j] \subseteq Known(q, j)'
      BY <2>1 DEF Gaps
    <3>0. q # c
      BY <2>2 DEF Keeps
    <3>1. CASE q = p
      <4>1. j \in sessions[p] /\ j \in Id
        BY <2>0, <2>2, <2>3, <3>1 DEF Wants, Sets
      <4>2. 1..taken[j] \subseteq Has(p, j) \cup ring[c][j]
        BY <2>0, <2>1, <4>1 DEF Gaps, Keeps, Wants, Known
      <4>3. ring[c][j] \subseteq spoiled'[j] \cup ring[p][j]
        BY <2>1, <4>1
      <4>4. ring[p][j] \subseteq ring'[p][j] /\ Has(p, j) \subseteq Has(p, j)'
        BY <2>4, <4>1
      <4>5. spoiled'[j] \cup ring'[p][j] \subseteq Has(p, j)'
        BY DEF Has
      <4>. QED BY <3>1, <4>2, <4>3, <4>4, <4>5 DEF Known
    <3>2. CASE q # p
      <4>1. status'[q] = status[q] /\ j \in Wants(q)
        BY <2>1, <2>2, <2>3, <3>0, <3>2 DEF Wants
      <4>2. j \in Id
        BY <4>1 DEF Wants, Sets
      <4>3. 1..taken[j] \subseteq Known(q, j)
        BY <4>1 DEF Gaps
      <4>4. Has(q, j) \subseteq Has(q, j)'
        BY <2>4, <4>2
      <4>5. status[q] = "waiting" => child'[q] = child[q] /\ ring[child[q]][j] \subseteq ring'[child[q]][j]
        BY <1>0, <2>4, <2>5, <3>2, <4>2
      <4>. QED BY <4>1, <4>3, <4>4, <4>5 DEF Known
    <3>. QED BY <3>1, <3>2
  <2>. QED BY <2>4, <2>6
<1>11. ASSUME NEW p \in Proc, CloseConns(p) PROVE Streams' /\ Gaps'
  <2>1. /\ UNCHANGED <<child, captured, sessions, taken, spoiled, leaked>> /\ Resume(p, held[p])
        /\ status'[p] = "closed" /\ \A q \in Proc \ {p} : status'[q] = status[q]
    BY <1>11 DEF CloseConns, ResumePaused, termVars
  <2>2. /\ Streams'
        /\ \A q \in Proc : \A i \in Id : Has(q, i) \subseteq Has(q, i)' /\ ring[q][i] \subseteq ring'[q][i]
    BY <1>7, <2>1
  <2>3. Gaps'
    BY <1>0, <2>1, <2>2, KeepGaps DEF Keeps
  <2>. QED BY <2>2, <2>3
<1>12. ASSUME NEW p \in Proc, NEW s, s \notin Keeps, status' = [status EXCEPT ![p] = s],
              UNCHANGED <<child, captured, taken, ring, stream, spoiled, leaked>>,
              \A q \in Proc \ {p} : sessions'[q] = sessions[q]
       PROVE  Streams' /\ Gaps'
  <2>1. status'[p] = s /\ \A q \in Proc \ {p} : status'[q] = status[q]
    BY <1>12
  <2>2. \A q \in Proc : \A j \in Id : Has(q, j)' = Has(q, j)
    BY <1>12 DEF Has
  <2>3. Gaps'
    BY <1>12, <2>1, <2>2, KeepGaps
  <2>. QED BY <1>12, <2>3 DEF Streams
<1>13. ASSUME NEW p \in Proc, Commit(p) PROVE Streams' /\ Gaps'
  BY <1>12, <1>13 DEF Commit, histVars, Keeps
<1>14. ASSUME NEW p \in Proc, ExitOld(p) \/ Nak(p) \/ Crash(p) \/ Shutdown(p) PROVE Streams' /\ Gaps'
  <2>1. /\ status' = [status EXCEPT ![p] = "dead"] /\ Gone(p)
        /\ UNCHANGED <<child, captured, taken, ring, stream, spoiled, leaked>>
    BY <1>14 DEF ExitOld, Nak, Crash, Shutdown, histVars
  <2>2. \A q \in Proc \ {p} : sessions'[q] = sessions[q]
    BY <2>1, GoneType
  <2>. QED BY <1>12, <2>1, <2>2 DEF Keeps
<1>15. ASSUME NEW p \in Proc, Adopt(p) \/ Bind(p) PROVE Streams' /\ Gaps'
  <2>1. /\ UNCHANGED <<child, captured, taken, ring, stream, spoiled, leaked>>
        /\ \A q \in Proc \ {p} : status'[q] = status[q] /\ sessions'[q] = sessions[q]
        /\ \/ status[p] = "boot" /\ status'[p] = "acked"
           \/ status[p] = "acked" /\ status'[p] = "serving" /\ sessions'[p] = sessions[p]
    BY <1>15 DEF Adopt, Bind, termVars, sessVars, histVars, Sets
  <2>2. \A q \in Proc : \A j \in Id : Has(q, j)' = Has(q, j)
    BY <2>1 DEF Has
  <2>3. Gaps'
    BY <2>1, <2>2, KeepGaps
  <2>. QED BY <2>1, <2>3 DEF Streams
<1>16. CASE UNCHANGED vars
  BY <1>2, <1>16 DEF vars, termVars, procVars, sessVars, histVars
<1>. QED
  BY <1>1, <1>3, <1>4, <1>5, <1>6, <1>8, <1>9, <1>10, <1>11, <1>13, <1>14, <1>15, <1>16 DEF Next

\* Who serves a terminal knows what was read from it.
LEMMA ServesAll == TypeOK /\ Gaps => NoGap
<1>. SUFFICES ASSUME TypeOK, Gaps, NEW p \in Proc, NEW i \in sessions[p], status[p] = "serving"
              PROVE  Missing(p, i) \subseteq spoiled[i] \cup leaked[i]
  BY DEF NoGap
<1>1. 1..taken[i] \subseteq Has(p, i)
  BY DEF Gaps, Keeps, Wants, Known
<1>. QED BY <1>1 DEF Missing, Has
-----------------------------------------------------------------------------
(* The theorems.                                                             *)

IInv ==
  /\ TypeOK /\ LineInv /\ Masters
  /\ Freezes /\ Lates
  /\ Open1 /\ CapturedSurvive
  /\ Streams /\ Gaps

\* It holds at the start.
LEMMA InitIInv == Init => IInv
<1>. SUFFICES ASSUME Init PROVE IInv
  OBVIOUS
<1>. USE HandoffAssumption
<1>1. \A p \in Proc : status[p] = IF p = 1 THEN "serving" ELSE "off"
  BY DEF Init
<1>2. \A i \in Id : shell[i] = "none" /\ made[i] = 0 /\ taken[i] = 0
  BY DEF Init
<1>3. \A p \in Proc : /\ sessions[p] = {} /\ captured[p] = {} /\ fds[p] = {} /\ mail[p] = "none"
  BY DEF Init
<1>4. TypeOK
  <2>1. /\ shell \in [Id -> Shell] /\ made \in [Id -> 0..MaxOut] /\ taken \in [Id -> 0..MaxOut]
        /\ \A i \in Id : taken[i] <= made[i]
    BY <1>2 DEF Init, Shell
  <2>2. status \in [Proc -> Status] /\ parent \in [Proc -> 0..N] /\ child \in [Proc -> 0..N]
        /\ mail \in [Proc -> {"none", "ack", "nak"}]
    BY DEF Init, Status
  <2>3. /\ sessions \in Sets /\ fds \in Sets /\ adopted \in Sets /\ frozen \in Sets
        /\ held \in Sets /\ captured \in Sets /\ thawed \in Sets
    BY DEF Init, Sets
  <2>4. /\ ring \in Units /\ stream \in Units
        /\ leaked \in [Id -> SUBSET Unit] /\ spoiled \in [Id -> SUBSET Unit]
    BY DEF Init, Units
  <2>5. late \in SUBSET Id
    BY DEF Init
  <2>6. linger \in BOOLEAN /\ crashed \in BOOLEAN /\ deaf \in SUBSET Proc
    BY Zenon DEF Init
  <2>. QED BY <2>1, <2>2, <2>3, <2>4, <2>5, <2>6, Types
<1>5. LineInv
  <2>1. Started
    BY <1>1, <1>3 DEF Started, Proc
  <2>2. Parents /\ Waits
    BY <1>1 DEF Parents, Waits, Winding
  <2>3. Line
    BY <1>1 DEF Line, Active, Up, Proc
  <2>. QED BY <2>1, <2>2, <2>3 DEF LineInv
<1>6. Masters
  BY <1>1, <1>2, <1>3 DEF Masters, Own, Wants
<1>7. Freezes /\ Lates
  BY <1>1 DEF Freezes, Lates, Winding
<1>8. Open1 /\ CapturedSurvive
  BY <1>2 DEF Open1, CapturedSurvive
<1>9. Streams
  BY DEF Init, Streams
<1>10. Gaps
  BY <1>1, <1>3 DEF Gaps, Wants, Keeps
<1>. QED BY <1>4, <1>5, <1>6, <1>7, <1>8, <1>9, <1>10 DEF IInv

\* The inductive invariant holds in every reachable state, whatever the number
\* of daemons that succeed each other, of terminals and of units they print.
THEOREM HandoffAlways == Spec => []IInv
<1>1. IInv /\ [Next]_vars => IInv'
  <2>. SUFFICES ASSUME IInv, [Next]_vars PROVE IInv'
    OBVIOUS
  <2>. USE DEF IInv
  <2>1. TypeOK' /\ LineInv'
    <3>1. Parents
      BY DEF LineInv
    <3>. QED BY <3>1, StepType, StepLine
  <2>2. Masters' /\ Freezes' /\ Lates'
    BY StepMasters, StepWinding
  <2>3. Open1' /\ CapturedSurvive'
    BY StepOpen
  <2>4. Streams' /\ Gaps'
    BY StepGaps
  <2>. QED BY <2>1, <2>2, <2>3, <2>4
<1>. QED BY InitIInv, <1>1, PTL DEF Spec

\* Type correctness of the handoff's state.
THEOREM HandoffTypeCorrect == Spec => []TypeOK
<1>1. IInv => TypeOK
  BY DEF IInv
<1>. QED BY HandoffAlways, <1>1, PTL

\* No two daemons read the same terminal, but one that resumePaused thawed
\* (server.ts:396, 521).
THEOREM NoSplitBrain == Spec => []OneReader
<1>1. IInv => OneReader
  BY LineReads DEF IInv
<1>. QED BY HandoffAlways, <1>1, PTL

\* A daemon that serves a terminal has every byte read from it, by itself or by
\* whoever served it before, but those that leaked or a failed successor took.
THEOREM NoOutputLost == Spec => []NoGap
<1>1. IInv => NoGap
  BY ServesAll DEF IInv
<1>. QED BY HandoffAlways, <1>1, PTL

\* Without a crash, a handoff that commits, fails or is cut short hangs up no
\* terminal of its snapshot.
THEOREM HandoffHangsUpNothing == Spec => []CapturedSurvive
<1>1. IInv => CapturedSurvive
  BY DEF IInv
<1>. QED BY HandoffAlways, <1>1, PTL

\* A stop signal that lands in the wind-down kills no session the successor
\* serves (close, server.ts:120).
THEOREM WindDownIsHarmless == Spec => WindDownKillsNothing
<1>1. ASSUME TypeOK, [Next]_vars, NEW p \in Proc, status[p] \in {"handedOff", "closed"}, status'[p] = "dead",
             NEW i \in Id, shell'[i] = "killed", shell[i] # "killed"
      PROVE  FALSE
  <2>. USE Types
  <2>1. ASSUME shell' = shell PROVE FALSE
    BY <1>1, <2>1
  <2>2. ASSUME status' = status PROVE FALSE
    BY <1>1, <2>2
  <2>3. ASSUME NEW open, shell' = HangUp(open) PROVE FALSE
    BY <1>1, <2>3, HangUpType
  <2>4. ASSUME NEW q \in Proc, Shutdown(q) PROVE FALSE
    <3>1. q = p
      BY <1>1, <2>4 DEF Shutdown
    <3>2. Kills(q) = {}
      BY <1>1, <3>1 DEF Kills
    <3>3. shell'[i] = HangUp(fds')[i]
      BY <2>4, <3>2 DEF Shutdown
    <3>. QED BY <1>1, <3>3, HangUpType
  <2>5. ASSUME NEW q \in Proc, Commit(q) \/ ExitOld(q) \/ Nak(q) \/ Crash(q) PROVE FALSE
    <3>1. shell' = HangUp(fds')
      BY <2>5 DEF Commit, ExitOld, Nak, Crash
    <3>. QED BY <2>3, <3>1
  <2>6. ASSUME NEW q \in Proc, NEW j \in Id, Open(q, j) \/ Read(q, j) \/ ReadWhilePaused(q, j) \/ NoticeExit(q, j)
        PROVE  FALSE
    BY <2>2, <2>6 DEF Open, Read, ReadWhilePaused, NoticeExit, procVars
  <2>7. ASSUME NEW j \in Id, Produce(j) \/ ShellExit(j) PROVE FALSE
    BY <2>2, <2>7 DEF Produce, ShellExit, procVars
  <2>8. ASSUME NEW q \in Proc, NEW c \in Proc, Prepare(q, c) PROVE FALSE
    BY <2>1, <2>8 DEF Prepare, termVars
  <2>9. ASSUME NEW q \in Proc, \/ DrainConn(q) \/ PrepareFails(q) \/ FailHandoff(q)
                               \/ CloseConns(q) \/ Adopt(q) \/ Bind(q)
        PROVE  FALSE
    BY <2>1, <2>9 DEF DrainConn, PrepareFails, FailHandoff, CloseConns, Adopt, Bind, termVars
  <2>10. CASE UNCHANGED vars
    BY <2>1, <2>10 DEF vars, termVars
  <2>. QED BY <1>1, <2>4, <2>5, <2>6, <2>7, <2>8, <2>9, <2>10 DEF Next
<1>2. TypeOK /\ [Next]_vars =>
        [\A p \in Proc : status[p] \in {"handedOff", "closed"} /\ status'[p] = "dead" =>
           \A i \in Id : shell'[i] = "killed" => shell[i] = "killed"]_vars
  BY <1>1
<1>. QED BY HandoffTypeCorrect, <1>2, PTL DEF Spec, WindDownKillsNothing
=============================================================================

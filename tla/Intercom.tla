------------------------------ MODULE Intercom ------------------------------
(***************************************************************************)
(* The intercom's durable inbox and its escalations                        *)
(* (packages/server/src/services/intercomStore.ts), driven by the routes   *)
(* and by the three clients that read it: the prompt hook of a tab         *)
(* (hooks/claude-status-hook.mjs: peek, claim, print, confirm; the Stop    *)
(* hook acknowledges), the inbox tool (hooks/mcp/intercom.mjs: pull,       *)
(* acknowledge, return) and an asker that polls its question.              *)
(*                                                                         *)
(* Each store operation is one SQLite transaction and so one action.  A    *)
(* client's steps interleave with everything else, and a client can die    *)
(* between any two of them: its answer, print or request is then lost.     *)
(* The server may restart at any time: its state is the database, so a     *)
(* restart is the loss of the requests in flight.                          *)
(*                                                                         *)
(* Time: the deadlines (redelivery 5 min, asks at most 10 min, retention   *)
(* 7 days, a message's own expiry) pass by actions of their own.  A send   *)
(* that an idempotency key replays changes nothing and is a stutter.       *)
(***************************************************************************)
EXTENDS Integers, Sequences, FiniteSets

CONSTANTS Agent,    (* tabs that may register (canonical agent ids)          *)
          Hooked,   (* those whose harness runs the prompt and Stop hooks    *)
          Human,    (* HUMAN_AGENT_ID                                        *)
          Kind,     (* kinds a tab sends besides replies; a message is       *)
                    (* treated as a request that is never answered           *)
          Cap,      (* SCOPE_CAP: unsettled messages of the workspace        *)
          Limit,    (* HOOK_PULL_LIMIT / the limit of a pull                 *)
          MaxMsg,   (* bound: messages ever sent                             *)
          MaxEsc    (* bound: escalations ever opened                        *)

ASSUME IntercomAssumption ==
  /\ Human \notin Agent /\ Hooked \subseteq Agent
  /\ Kind \subseteq {"message", "request"}
  /\ Cap \in Nat \ {0} /\ Limit \in Nat \ {0}
  /\ MaxMsg \in Nat /\ MaxEsc \in Nat

VARIABLES
  msgs,   (* messages, oldest first; ids order them by age                   *)
  escs,   (* escalations, oldest first                                       *)
  alive,  (* agents with a registered execution                              *)
  hook,   (* the prompt hook of the agent's tab                              *)
  tool,   (* the inbox or ask tool call of the agent's tab                   *)
  seen    (* history: messages shown to the execution that is its agent's    *)
          (* current one, or was when the message was settled                *)

vars == <<msgs, escs, alive, hook, tool, seen>>

Message(from, to, kind, replyTo, esc) ==
  [from |-> from, to |-> to, kind |-> kind, replyTo |-> replyTo, esc |-> esc,
   state |-> "queued", mine |-> FALSE, batch |-> "none", due |-> FALSE,
   overdue |-> FALSE]

Idle == [stage |-> "idle", ids |-> {}, mine |-> FALSE]

Init ==
  /\ msgs = <<>> /\ escs = <<>>
  /\ alive = {}
  /\ hook = [a \in Agent |-> Idle] /\ tool = [a \in Agent |-> Idle]
  /\ seen = {}
-----------------------------------------------------------------------------
Live(m)     == msgs[m].state \in {"queued", "delivered"}
PeerAsk(e)  == escs[e].status = "open" /\ escs[e].to # Human

\* Sends are refused at the cap; a row past its expiry does not count, swept
\* or not.
HasRoom ==
  /\ Cardinality({m \in DOMAIN msgs : Live(m) /\ ~msgs[m].overdue}) < Cap
  /\ Len(msgs) < MaxMsg

Replied(m) ==
  \E k \in DOMAIN msgs : msgs[k].kind = "reply" /\ msgs[k].replyTo = m
                         /\ msgs[k].state # "purged"

\* insertMessage's checks of a reply.
MayReply(from, to, m) ==
  /\ m \in DOMAIN msgs /\ msgs[m].kind = "request"
  /\ msgs[m].to = from /\ msgs[m].from = to
  /\ msgs[m].state \notin {"expired", "purged"}
  /\ ~Replied(m)

\* Mutant of Resolved: the answer's message is not recorded.
ResolvedAlone(e, m) == [escs EXCEPT ![e].status = "resolved", ![e].overdue = FALSE]

\* escResolve: the answer by's message m carries.
Resolved(e, m) == [escs EXCEPT ![e].status = "resolved", ![e].reply = m,
                               ![e].overdue = FALSE]

\* send of a message or a request by a tab to a peer.
Send(a, to, kind) ==
  /\ a \in alive /\ to \in alive \ {a} /\ HasRoom
  /\ msgs' = Append(msgs, Message(a, to, kind, 0, 0))
  /\ UNCHANGED <<escs, alive, hook, tool, seen>>

\* Mutant of AnsweredBy: a reply never settles the question.
AnsweredByNone(a, m) == {}

\* Mutant of AnsweredBy: a late reply settles a question the human now holds.
AnsweredByLate(a, m) ==
  {e \in DOMAIN escs : escs[e].ask = m /\ escs[e].status = "open"}

\* The open question that the reply of a to m answers: only while a is still
\* its target.
AnsweredBy(a, m) ==
  {e \in DOMAIN escs : /\ escs[e].ask = m /\ escs[e].status = "open"
                       /\ escs[e].to = a}

\* send of a reply: if it answers an open question it settles it in the same
\* transaction.
Reply(a, m) ==
  /\ a \in alive /\ m \in seen /\ MayReply(a, msgs[m].from, m) /\ HasRoom
  /\ msgs' = Append(msgs, Message(a, msgs[m].from, "reply", m, 0))
  /\ escs' = IF AnsweredBy(a, m) = {} THEN escs
             ELSE Resolved(CHOOSE e \in AnsweredBy(a, m) : TRUE, Len(msgs) + 1)
  /\ UNCHANGED <<alive, hook, tool, seen>>
-----------------------------------------------------------------------------
(* Delivery: peek, claim, pull, confirm, ackAll, ack.                        *)

Deliverable(m) ==
  /\ ~msgs[m].overdue
  /\ msgs[m].state = "queued" \/ (msgs[m].state = "delivered" /\ msgs[m].due)

Inbox(a) == {m \in DOMAIN msgs : msgs[m].to = a /\ Deliverable(m)}

\* What a reader may be handed: the oldest ones, at most Limit.
Oldest(S) == {P \in {{m \in S : m <= k} : k \in S} : Cardinality(P) <= Limit}

\* Mutant of Claimed: the state is not looked at again.
ClaimedBlindly(ids, mine, b) ==
  [m \in DOMAIN msgs |->
     IF m \in ids /\ Live(m)
     THEN [msgs[m] EXCEPT !.state = "delivered", !.mine = mine, !.batch = b, !.due = FALSE]
     ELSE msgs[m]]

\* claimOne on each id: those still deliverable become one unconfirmed batch,
\* delivered to the agent's current execution or to one that is gone (mine).
Claimed(ids, mine, b) ==
  [m \in DOMAIN msgs |->
     IF m \in ids /\ Deliverable(m)
     THEN [msgs[m] EXCEPT !.state = "delivered", !.mine = mine, !.batch = b, !.due = FALSE]
     ELSE msgs[m]]

\* What the delivery of a settled row was is never read again.
Settled(m, state) ==
  [msgs[m] EXCEPT !.state = state, !.mine = FALSE, !.batch = "none", !.due = FALSE,
                  !.overdue = FALSE]

Acked(S) == [m \in DOMAIN msgs |-> IF m \in S THEN Settled(m, "acknowledged") ELSE msgs[m]]

\* The rows that wait for a's hook to confirm them.
Pending(a) == {m \in DOMAIN msgs : msgs[m].to = a /\ msgs[m].batch = "pending"}

\* A hook that goes away leaves its batch to nobody.
Unhooked(S) == [m \in DOMAIN msgs |->
                  IF msgs[m].to \in S /\ msgs[m].batch = "pending"
                  THEN [msgs[m] EXCEPT !.batch = "none"] ELSE msgs[m]]

\* The hook route reads the inbox and chooses what fits the budget...
Peek(a) ==
  /\ a \in alive /\ hook[a].stage = "idle"
  /\ \E ids \in Oldest(Inbox(a)) :
       hook' = [hook EXCEPT ![a] = [stage |-> "peeked", ids |-> ids, mine |-> TRUE]]
  /\ UNCHANGED <<msgs, escs, alive, tool, seen>>

\* ... and claims that after an await, for the execution that asked: others may
\* have taken some meanwhile, and nobody may be there to read the response.
Claim(a) ==
  /\ hook[a].stage = "peeked"
  /\ LET b   == IF hook[a].mine THEN "pending" ELSE "none"
         got == {m \in hook[a].ids : msgs'[m] # msgs[m]}
     IN  /\ msgs' = Claimed(hook[a].ids, hook[a].mine, b)
         /\ hook' = [hook EXCEPT ![a] =
                       IF got = {} \/ ~@.mine THEN Idle
                       ELSE [@ EXCEPT !.stage = "claimed", !.ids = got]]
  /\ UNCHANGED <<escs, alive, tool, seen>>

\* The hook's write to its stdout completed: the text is in the context.
Write(a) ==
  /\ hook[a].stage = "claimed"
  /\ seen' = seen \cup hook[a].ids
  /\ hook' = [hook EXCEPT ![a].stage = "printed"]
  /\ UNCHANGED <<msgs, escs, alive, tool>>

\* Mutant of Batch: confirms whatever this execution has in delivery.
BatchAny(a) ==
  {m \in DOMAIN msgs : msgs[m].to = a /\ msgs[m].mine /\ msgs[m].state = "delivered"}

\* The rows confirmBatch marks.
Batch(a) == {m \in Pending(a) : msgs[m].mine /\ msgs[m].state = "delivered"}

Confirm(a) ==
  /\ hook[a].stage = "printed"
  /\ msgs' = [m \in DOMAIN msgs |->
                IF m \in Batch(a) THEN [msgs[m] EXCEPT !.batch = "confirmed"] ELSE msgs[m]]
  /\ hook' = [hook EXCEPT ![a] = Idle]
  /\ UNCHANGED <<escs, alive, tool, seen>>

Received(a) ==
  {m \in DOMAIN msgs : msgs[m].to = a /\ msgs[m].mine /\ msgs[m].batch = "confirmed"}

\* The Stop hook: ackAll.  It may be late: the next prompt's hook can be
\* anywhere in its steps.
Stop(a) ==
  /\ a \in alive /\ Received(a) # {}
  /\ msgs' = Acked(Received(a))
  /\ UNCHANGED <<escs, alive, hook, tool, seen>>

\* The inbox tool pulls: peek and claim in one transaction...
Pull(a) ==
  /\ a \in alive /\ tool[a].stage = "idle"
  /\ \E ids \in Oldest(Inbox(a)) :
       /\ msgs' = Claimed(ids, TRUE, "none")
       /\ tool' = [tool EXCEPT ![a] = [Idle EXCEPT !.stage = "pulled", !.ids = ids]]
  /\ UNCHANGED <<escs, alive, hook, seen>>

\* ... acknowledges one by one (refused once the message expired)...
InboxAck(a) ==
  /\ tool[a].stage = "pulled"
  /\ \E m \in tool[a].ids : Live(m) /\ msgs' = Acked({m})
  /\ UNCHANGED <<escs, alive, hook, tool, seen>>

\* ... and returns the text, keeping what it did not or could not acknowledge.
\* A poll returns the answer the same way.
Return(a) ==
  /\ tool[a].stage # "idle"
  /\ seen' = seen \cup tool[a].ids
  /\ tool' = [tool EXCEPT ![a] = Idle]
  /\ UNCHANGED <<msgs, escs, alive, hook>>

\* A client dies, times out or is interrupted; the server restarts.
HookDies(a) ==
  /\ hook[a].stage # "idle" /\ hook' = [hook EXCEPT ![a] = Idle]
  /\ msgs' = Unhooked({a})
  /\ UNCHANGED <<escs, alive, tool, seen>>

ToolDies(a) ==
  /\ tool[a].stage # "idle" /\ tool' = [tool EXCEPT ![a] = Idle]
  /\ UNCHANGED <<msgs, escs, alive, hook, seen>>
-----------------------------------------------------------------------------
(* Escalations.                                                              *)

Escalation(from, to, ask) ==
  [from |-> from, to |-> to, ask |-> ask, status |-> "open", reply |-> 0,
   overdue |-> FALSE]

\* createEscalation: a peer gets the question as a request in the same
\* transaction.
AskHuman(a) ==
  /\ a \in alive /\ Len(escs) < MaxEsc
  /\ escs' = Append(escs, Escalation(a, Human, 0))
  /\ UNCHANGED <<msgs, alive, hook, tool, seen>>

AskPeer(a, to) ==
  /\ a \in alive /\ to \in alive \ {a} /\ Len(escs) < MaxEsc /\ HasRoom
  /\ msgs' = Append(msgs, Message(a, to, "request", 0, Len(escs) + 1))
  /\ escs' = Append(escs, Escalation(a, to, Len(msgs) + 1))
  /\ UNCHANGED <<alive, hook, tool, seen>>

\* resolveEscalation by the human: an ordinary message carries the answer.
ResolveByHuman(e) ==
  /\ escs[e].status = "open" /\ HasRoom
  /\ msgs' = Append(msgs, Message(Human, escs[e].from, "message", 0, e))
  /\ escs' = Resolved(e, Len(msgs) + 1)
  /\ UNCHANGED <<alive, hook, tool, seen>>

\* resolveEscalation by its target: a reply to the ask carries it.
ResolveByPeer(a, e) ==
  /\ a \in alive /\ escs[e].status = "open" /\ escs[e].to = a
  /\ MayReply(a, escs[e].from, escs[e].ask) /\ HasRoom
  /\ msgs' = Append(msgs, Message(a, escs[e].from, "reply", escs[e].ask, 0))
  /\ escs' = Resolved(e, Len(msgs) + 1)
  /\ UNCHANGED <<alive, hook, tool, seen>>

Dismiss(e) ==
  /\ escs[e].status = "open"
  /\ escs' = [escs EXCEPT ![e].status = "dismissed", ![e].overdue = FALSE]
  /\ UNCHANGED <<msgs, alive, hook, tool, seen>>

\* retargetInTx: the rows become the human's; the deadline is gone.
Retargeted(S) == [e \in DOMAIN escs |->
                    IF e \in S THEN [escs[e] EXCEPT !.to = Human, !.overdue = FALSE]
                    ELSE escs[e]]

\* pollEscalation by the asker: an overdue ask goes to the human; an answer is
\* acknowledged in the asker's inbox, since the poll itself hands it over.
PollRetargets(a, e) ==
  /\ a \in alive /\ escs[e].from = a /\ PeerAsk(e) /\ escs[e].overdue
  /\ escs' = Retargeted({e})
  /\ UNCHANGED <<msgs, alive, hook, tool, seen>>

PollAnswer(a, e) ==
  /\ a \in alive /\ escs[e].from = a /\ escs[e].status = "resolved"
  /\ tool[a].stage = "idle"
  /\ LET m == escs[e].reply IN
       /\ msgs' = IF Live(m) THEN Acked({m}) ELSE msgs
       /\ tool' = [tool EXCEPT ![a] = [Idle EXCEPT !.stage = "polled", !.ids = {m}]]
  /\ UNCHANGED <<escs, alive, hook, seen>>
-----------------------------------------------------------------------------
(* Deadlines, and the sweep (at boot, then hourly).                          *)

RedeliveryDue(m) ==
  /\ msgs[m].state = "delivered" /\ ~msgs[m].due
  /\ msgs' = [msgs EXCEPT ![m].due = TRUE]
  /\ UNCHANGED <<escs, alive, hook, tool, seen>>

\* ASK_TIMEOUT_MAX_MS.
AskLapses(e) ==
  /\ PeerAsk(e) /\ ~escs[e].overdue
  /\ escs' = [escs EXCEPT ![e].overdue = TRUE]
  /\ UNCHANGED <<msgs, alive, hook, tool, seen>>

\* A question's deadline (at most 10 min) passed long before the expiry or the
\* retention of its request (7 days).
PastAsk(m) == \A e \in DOMAIN escs : PeerAsk(e) /\ escs[e].ask = m => escs[e].overdue

MessageLapses(m) ==
  /\ Live(m) /\ ~msgs[m].overdue /\ PastAsk(m)
  /\ msgs' = [msgs EXCEPT ![m].overdue = TRUE]
  /\ UNCHANGED <<escs, alive, hook, tool, seen>>

\* Mutant of SweptAsks: only asks whose request was swept as expired.
SweptAsksExpired == {e \in DOMAIN escs : PeerAsk(e) /\ escs[e].overdue
                                         /\ msgs[escs[e].ask].overdue}

\* The asks a sweep hands to the human.
SweptAsks == {e \in DOMAIN escs : PeerAsk(e) /\ escs[e].overdue}

\* Rows settled for the retention time are deleted, oldest settlements first;
\* which ones those are is left open.  A reply outlives its request.
Swept(old) ==
  [m \in DOMAIN msgs |->
     IF m \in old THEN Settled(m, "purged")
     ELSE IF Live(m) /\ msgs[m].overdue THEN Settled(m, "expired")
     ELSE [msgs[m] EXCEPT !.replyTo = IF @ \in old THEN 0 ELSE @]]

Sweep(old, closed) ==
  /\ \A m \in old : msgs[m].state \in {"acknowledged", "expired"} /\ PastAsk(m)
  /\ \A e \in closed : escs[e].status \in {"resolved", "dismissed"}
  /\ msgs' = Swept(old)
  /\ escs' = [e \in DOMAIN escs |->
                IF e \in closed THEN [Retargeted(SweptAsks)[e] EXCEPT !.status = "purged"]
                ELSE Retargeted(SweptAsks)[e]]
  /\ seen' = {m \in seen : msgs'[m].state \notin {"expired", "purged"}}
  /\ UNCHANGED <<alive, hook, tool>>
-----------------------------------------------------------------------------
(* The tabs of the agents, as the registry reports them.                     *)

TabOpens(a) ==
  /\ a \notin alive
  /\ alive' = alive \cup {a}
  /\ UNCHANGED <<msgs, escs, hook, tool, seen>>

AsksTo(a) == {e \in DOMAIN escs : PeerAsk(e) /\ escs[e].to = a}

\* What was delivered to, or shown to, a's execution was not for the next one;
\* the hooks of S are gone.
Gone(a, S) ==
  /\ msgs' = [m \in DOMAIN msgs |-> IF msgs[m].to = a THEN [Unhooked(S)[m] EXCEPT !.mine = FALSE]
                                    ELSE Unhooked(S)[m]]
  /\ seen' = {m \in seen : msgs[m].to # a \/ ~Live(m)}

\* The execution is dropped: onDropped hands its agent's open questions to the
\* human.  A hook request the server already has is still served.
TabDies(a) ==
  /\ a \in alive /\ alive' = alive \ {a}
  /\ escs' = Retargeted(AsksTo(a))
  /\ Gone(a, {a})
  /\ hook' = [hook EXCEPT ![a] = IF @.stage = "peeked" THEN [@ EXCEPT !.mine = FALSE] ELSE Idle]
  /\ tool' = [tool EXCEPT ![a] = Idle]

\* The server dies after the drop was persisted and before onDropped ran: the
\* questions stay out to an agent that is gone.
DropUnnoticed(a) ==
  /\ a \in alive /\ alive' = alive \ {a}
  /\ Gone(a, Agent)
  /\ hook' = [b \in Agent |-> Idle] /\ tool' = [b \in Agent |-> Idle]
  /\ UNCHANGED escs
-----------------------------------------------------------------------------
Hook(a) == Peek(a) \/ Claim(a) \/ Write(a) \/ Confirm(a) \/ Stop(a) \/ HookDies(a)

Tool(a) == Pull(a) \/ InboxAck(a) \/ Return(a) \/ ToolDies(a)

Writer(a) ==
  \/ \E b \in Agent, kind \in Kind : Send(a, b, kind)
  \/ \E m \in DOMAIN msgs : Reply(a, m)
  \/ AskHuman(a)
  \/ \E b \in Agent : AskPeer(a, b)
  \/ \E e \in DOMAIN escs : ResolveByPeer(a, e) \/ PollRetargets(a, e) \/ PollAnswer(a, e)

Clock ==
  \/ \E m \in DOMAIN msgs : RedeliveryDue(m) \/ MessageLapses(m)
  \/ \E e \in DOMAIN escs : AskLapses(e)
  \/ \E old \in SUBSET DOMAIN msgs, closed \in SUBSET DOMAIN escs : Sweep(old, closed)

Next ==
  \/ \E a \in Hooked : Hook(a)
  \/ \E a \in Agent : Tool(a) \/ Writer(a) \/ TabOpens(a) \/ TabDies(a) \/ DropUnnoticed(a)
  \/ \E e \in DOMAIN escs : ResolveByHuman(e) \/ Dismiss(e)
  \/ Clock

Spec == Init /\ [][Next]_vars

\* Time passes, and the server sweeps every hour.
FairSpec ==
  /\ Spec
  /\ WF_vars(\E e \in DOMAIN escs : AskLapses(e))
  /\ WF_vars(Sweep({}, {}))
-----------------------------------------------------------------------------
TypeOK ==
  /\ msgs \in Seq([from : Agent \cup {Human}, to : Agent,
                   kind : {"message", "request", "reply"}, replyTo : 0..MaxMsg,
                   esc : 0..MaxEsc,
                   state : {"queued", "delivered", "acknowledged", "expired", "purged"},
                   mine : BOOLEAN, batch : {"none", "pending", "confirmed"},
                   due : BOOLEAN, overdue : BOOLEAN])
  /\ Len(msgs) <= MaxMsg
  /\ escs \in Seq([from : Agent, to : Agent \cup {Human}, ask : 0..MaxMsg,
                   status : {"open", "resolved", "dismissed", "purged"},
                   reply : 0..MaxMsg, overdue : BOOLEAN])
  /\ Len(escs) <= MaxEsc
  /\ \A m \in DOMAIN msgs : msgs[m].batch # "none" \/ msgs[m].due => msgs[m].state = "delivered"
  /\ \A e \in DOMAIN escs :
       /\ escs[e].to \in Agent => escs[e].ask \in DOMAIN msgs
       /\ escs[e].status = "resolved" =>
            escs[e].reply \in DOMAIN msgs /\ msgs[escs[e].reply].to = escs[e].from
  /\ alive \subseteq Agent
  /\ hook \in [Agent -> [stage : {"idle", "peeked", "claimed", "printed"},
                         ids : SUBSET (1..MaxMsg), mine : BOOLEAN]]
  /\ tool \in [Agent -> [stage : {"idle", "pulled", "polled"},
                         ids : SUBSET (1..MaxMsg), mine : {FALSE}]]
  /\ seen \subseteq DOMAIN msgs

\* A message is only ever settled for a reader that was shown it or is about
\* to be handed it: no Stop, confirmation or acknowledgement that arrives late,
\* from an older turn or for another batch, settles what its recipient's
\* current execution never had (confirmBatch, ackAll, ack, consumeAnswer).
SettledByReader ==
  [][\A m \in DOMAIN msgs :
       Live(m) /\ msgs'[m].state = "acknowledged" =>
         m \in seen \/ m \in tool'[msgs[m].to].ids]_vars

InHook(a) == IF hook[a].stage \in {"claimed", "printed"} THEN hook[a].ids ELSE {}
InTool(a) == IF tool[a].stage = "pulled" THEN tool[a].ids ELSE {}

\* However the prompt hook's peek and claim interleave with the inbox tool's
\* pull, nobody is handed a message that someone else was handed within the
\* redelivery time.
HandedOutOnce ==
  [][\A a \in Agent :
       \A m \in (InHook(a)' \ InHook(a)) \cup (InTool(a)' \ InTool(a)) : Deliverable(m)]_vars

\* A question still out to a peer is neither answered nor beyond answering: its
\* request exists, and no reply to it was accepted without settling it.
OpenAskIsUnanswered ==
  \A e \in DOMAIN escs : PeerAsk(e) =>
    ~Replied(escs[e].ask) /\ msgs[escs[e].ask].state \notin {"expired", "purged"}

\* Once the human was told the question is theirs (deadline, dead peer), only
\* the human settles it: the peer's late reply is a plain message.
LateReplyIsPlain ==
  [][\A e \in DOMAIN escs :
       escs[e].status = "open" /\ escs[e].to = Human /\ escs'[e].status = "resolved" =>
         msgs'[escs'[e].reply].from = Human]_vars

\* Every question to a peer is answered, dismissed or becomes the human's, even
\* when nobody polls it, its peer is gone and its request was read.
AskSettles ==
  \A e \in 1..MaxEsc :
    (e \in DOMAIN escs /\ PeerAsk(e)) ~> ~(e \in DOMAIN escs /\ PeerAsk(e))
=============================================================================

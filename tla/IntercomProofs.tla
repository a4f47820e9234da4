--------------------------- MODULE IntercomProofs ---------------------------
(***************************************************************************)
(* Proofs about the intercom's store (Intercom), for any agents, cap,      *)
(* limit and bounds.  Each store operation is one of five changes of the   *)
(* two tables (StepTables): rows and questions are rewritten, a message is *)
(* sent, a question is answered, a peer or the human is asked.  The        *)
(* inductive invariant relates a question to its request (AskInv,          *)
(* LapseInv), a client to the rows it holds (HandInv) and an unconfirmed   *)
(* batch to the hook that printed it (BatchInv).                           *)
(***************************************************************************)
EXTENDS Intercom, TLAPS

(* The rows of the two tables.                                               *)
Row ==
  [from : Agent \cup {Human}, to : Agent, kind : {"message", "request", "reply"},
   replyTo : 0..MaxMsg, esc : 0..MaxEsc,
   state : {"queued", "delivered", "acknowledged", "expired", "purged"},
   mine : BOOLEAN, batch : {"none", "pending", "confirmed"},
   due : BOOLEAN, overdue : BOOLEAN]

Question ==
  [from : Agent, to : Agent \cup {Human}, ask : 0..MaxMsg,
   status : {"open", "resolved", "dismissed", "purged"},
   reply : 0..MaxMsg, overdue : BOOLEAN]

\* Only a tab asks, and a reply is younger than what it replies to.
RowInv ==
  \A m \in DOMAIN msgs :
    /\ msgs[m].kind = "request" => msgs[m].from \in Agent
    /\ msgs[m].replyTo <= Len(msgs)

\* A question a peer was asked and its request name each other.
AskInv ==
  \A e \in DOMAIN escs : escs[e].to \in Agent =>
    LET m == escs[e].ask IN
      /\ m \in DOMAIN msgs
      /\ msgs[m].kind = "request" /\ msgs[m].esc = e
      /\ msgs[m].from = escs[e].from /\ msgs[m].to = escs[e].to

\* A request lapses after its question.
LapseInv == \A m \in DOMAIN msgs : msgs[m].overdue => PastAsk(m)

\* Clients hold messages of their agent's.
HandInv ==
  \A a \in Agent : \A m \in hook[a].ids \cup tool[a].ids :
    m \in DOMAIN msgs /\ msgs[m].to = a

\* An unconfirmed batch is the one its hook printed, or is about to; a
\* confirmed one was shown.
Batched(m) ==
  LET a == msgs[m].to IN
    /\ msgs[m].batch = "pending" =>
         /\ msgs[m].mine /\ m \in hook[a].ids
         /\ hook[a].stage = "claimed" \/ (hook[a].stage = "printed" /\ m \in seen)
    /\ msgs[m].batch = "confirmed" /\ msgs[m].mine => m \in seen

\* Every row is in such a state.
BatchInv == \A m \in DOMAIN msgs : Batched(m)

\* The inductive invariant.
IInv == TypeOK /\ RowInv /\ AskInv /\ LapseInv /\ HandInv /\ BatchInv /\ OpenAskIsUnanswered
-----------------------------------------------------------------------------
(* Rows.                                                                     *)

\* What never changes of a row; a swept request is forgotten by its reply.
Kept(r, s) ==
  /\ s.from = r.from /\ s.to = r.to /\ s.kind = r.kind /\ s.esc = r.esc
  /\ s.replyTo = r.replyTo \/ s.replyTo = 0

\* A row that is not in delivery has no batch and no deadline.
Tidy(r) == r.batch # "none" \/ r.due => r.state = "delivered"

\* The types, one by one.
LEMMA Types ==
  TypeOK <=>
    /\ msgs \in Seq(Row) /\ Len(msgs) <= MaxMsg
    /\ escs \in Seq(Question) /\ Len(escs) <= MaxEsc
    /\ \A m \in DOMAIN msgs : Tidy(msgs[m])
    /\ \A e \in DOMAIN escs :
         /\ escs[e].to \in Agent => escs[e].ask \in DOMAIN msgs
         /\ escs[e].status = "resolved" =>
              escs[e].reply \in DOMAIN msgs /\ msgs[escs[e].reply].to = escs[e].from
    /\ alive \subseteq Agent
    /\ hook \in [Agent -> [stage : {"idle", "peeked", "claimed", "printed"},
                           ids : SUBSET (1..MaxMsg), mine : BOOLEAN]]
    /\ tool \in [Agent -> [stage : {"idle", "pulled", "polled"},
                           ids : SUBSET (1..MaxMsg), mine : {FALSE}]]
    /\ seen \subseteq DOMAIN msgs
  BY DEF TypeOK, Row, Question, Tidy

\* A table whose rows are rewritten one by one.
LEMMA Rewritten ==
  ASSUME NEW S, NEW s \in Seq(S), NEW g, g = [m \in DOMAIN s |-> g[m]], \A m \in DOMAIN s : g[m] \in S
  PROVE  g \in Seq(S) /\ Len(g) = Len(s) /\ DOMAIN g = DOMAIN s
<1>1. Len(s) \in Nat /\ DOMAIN s = 1..Len(s)
  OBVIOUS
<1>2. g \in [1..Len(s) -> S]
  BY <1>1
<1>. QED BY <1>1, <1>2

\* A row that is appended comes last.
LEMMA Appended ==
  ASSUME NEW S, NEW s \in Seq(S), NEW x \in S
  PROVE  /\ Append(s, x) \in Seq(S) /\ Len(Append(s, x)) = Len(s) + 1
         /\ DOMAIN Append(s, x) = DOMAIN s \cup {Len(s) + 1} /\ Len(s) + 1 \notin DOMAIN s
         /\ Append(s, x)[Len(s) + 1] = x
         /\ \A m \in DOMAIN s : Append(s, x)[m] = s[m]
  OBVIOUS

\* Settling a row keeps what it is.
LEMMA SettledRow ==
  ASSUME TypeOK, NEW m \in DOMAIN msgs, NEW st \in {"acknowledged", "expired", "purged"}
  PROVE  /\ Settled(m, st) \in Row /\ Kept(msgs[m], Settled(m, st)) /\ Tidy(Settled(m, st))
         /\ Settled(m, st).state = st /\ Settled(m, st).batch = "none" /\ ~Settled(m, st).mine
         /\ ~Settled(m, st).overdue
<1>1. msgs[m] \in Row
  BY Types
<1>. QED BY <1>1 DEF Settled, Row, Kept, Tidy

\* The table g is msgs with rows rewritten, or with one more row.
Rewrites(g) ==
  /\ g \in Seq(Row) /\ Len(g) = Len(msgs) /\ DOMAIN g = DOMAIN msgs
  /\ \A m \in DOMAIN msgs : Kept(msgs[m], g[m]) /\ Tidy(g[m])

Adds(g, r) ==
  /\ g \in Seq(Row) /\ Len(g) = Len(msgs) + 1 /\ Len(g) <= MaxMsg
  /\ DOMAIN g = DOMAIN msgs \cup {Len(msgs) + 1} /\ Len(msgs) + 1 \notin DOMAIN msgs
  /\ \A m \in DOMAIN msgs : g[m] = msgs[m]
  /\ g[Len(msgs) + 1] = r

\* A table whose rows are each rewritten well is rewritten well.
LEMMA RewriteRows ==
  ASSUME TypeOK, NEW g, g = [m \in DOMAIN msgs |-> g[m]],
         \A m \in DOMAIN msgs : g[m] \in Row /\ Kept(msgs[m], g[m]) /\ Tidy(g[m])
  PROVE  Rewrites(g)
<1>1. msgs \in Seq(Row)
  BY Types
<1>. QED BY <1>1, Rewritten DEF Rewrites

\* A claim changes the deliverable rows among ids, and each of them.
LEMMA ClaimedRows ==
  ASSUME TypeOK, NEW ids, NEW mine \in BOOLEAN, NEW b \in {"none", "pending"}
  PROVE  /\ Rewrites(Claimed(ids, mine, b))
         /\ \A m \in DOMAIN msgs :
              IF m \in ids /\ Deliverable(m)
              THEN /\ Claimed(ids, mine, b)[m] =
                        [msgs[m] EXCEPT !.state = "delivered", !.mine = mine, !.batch = b, !.due = FALSE]
                   /\ Claimed(ids, mine, b)[m] # msgs[m]
              ELSE Claimed(ids, mine, b)[m] = msgs[m]
<1>. DEFINE g == Claimed(ids, mine, b)
<1>1. g = [m \in DOMAIN msgs |-> g[m]]
  BY DEF Claimed
<1>2. ASSUME NEW m \in DOMAIN msgs
      PROVE  /\ g[m] \in Row /\ Kept(msgs[m], g[m]) /\ Tidy(g[m])
             /\ IF m \in ids /\ Deliverable(m)
                THEN /\ g[m] = [msgs[m] EXCEPT !.state = "delivered", !.mine = mine, !.batch = b, !.due = FALSE]
                     /\ g[m] # msgs[m]
                ELSE g[m] = msgs[m]
  <2>1. msgs[m] \in Row /\ Tidy(msgs[m])
    BY Types
  <2>2. CASE m \in ids /\ Deliverable(m)
    <3>1. g[m] = [msgs[m] EXCEPT !.state = "delivered", !.mine = mine, !.batch = b, !.due = FALSE]
      BY <2>2 DEF Claimed
    <3>2. g[m].state = "delivered" /\ g[m].due = FALSE
      BY <2>1, <3>1 DEF Row
    <3>3. msgs[m].state = "queued" \/ msgs[m].due = TRUE
      BY <2>1, <2>2 DEF Deliverable, Row
    <3>4. g[m] # msgs[m]
      BY <3>2, <3>3
    <3>5. g[m] \in Row /\ Kept(msgs[m], g[m]) /\ Tidy(g[m])
      BY <2>1, <3>1 DEF Row, Kept, Tidy
    <3>. QED BY <2>2, <3>1, <3>4, <3>5
  <2>3. CASE ~(m \in ids /\ Deliverable(m))
    <3>1. g[m] = msgs[m]
      BY <2>3 DEF Claimed
    <3>. QED BY <2>1, <2>3, <3>1 DEF Kept
  <2>. QED BY <2>2, <2>3
<1>. HIDE DEF g
<1>3. Rewrites(g)
  BY <1>1, <1>2, RewriteRows
<1>. QED BY <1>2, <1>3 DEF g

\* An acknowledgement settles the rows of S.
LEMMA AckedRows ==
  ASSUME TypeOK, NEW S
  PROVE  /\ Rewrites(Acked(S))
         /\ \A m \in DOMAIN msgs :
              Acked(S)[m] = IF m \in S THEN Settled(m, "acknowledged") ELSE msgs[m]
<1>. DEFINE g == Acked(S)
<1>1. g = [m \in DOMAIN msgs |-> g[m]]
  BY DEF Acked
<1>2. ASSUME NEW m \in DOMAIN msgs
      PROVE  /\ g[m] \in Row /\ Kept(msgs[m], g[m]) /\ Tidy(g[m])
             /\ g[m] = IF m \in S THEN Settled(m, "acknowledged") ELSE msgs[m]
  <2>1. msgs[m] \in Row /\ Tidy(msgs[m])
    BY Types
  <2>2. g[m] = IF m \in S THEN Settled(m, "acknowledged") ELSE msgs[m]
    BY DEF Acked
  <2>. QED BY <2>1, <2>2, SettledRow DEF Kept
<1>. HIDE DEF g
<1>3. Rewrites(g)
  BY <1>1, <1>2, RewriteRows
<1>. QED BY <1>2, <1>3 DEF g

\* A hook that goes leaves its unconfirmed rows to nobody.
LEMMA UnhookedRows ==
  ASSUME TypeOK, NEW S
  PROVE  /\ Rewrites(Unhooked(S))
         /\ \A m \in DOMAIN msgs :
              Unhooked(S)[m] = IF msgs[m].to \in S /\ msgs[m].batch = "pending"
                               THEN [msgs[m] EXCEPT !.batch = "none"] ELSE msgs[m]
<1>. DEFINE g == Unhooked(S)
<1>1. g = [m \in DOMAIN msgs |-> g[m]]
  BY DEF Unhooked
<1>2. ASSUME NEW m \in DOMAIN msgs
      PROVE  /\ g[m] \in Row /\ Kept(msgs[m], g[m]) /\ Tidy(g[m])
             /\ g[m] = IF msgs[m].to \in S /\ msgs[m].batch = "pending"
                       THEN [msgs[m] EXCEPT !.batch = "none"] ELSE msgs[m]
  <2>1. msgs[m] \in Row /\ Tidy(msgs[m])
    BY Types
  <2>2. g[m] = IF msgs[m].to \in S /\ msgs[m].batch = "pending"
               THEN [msgs[m] EXCEPT !.batch = "none"] ELSE msgs[m]
    BY DEF Unhooked
  <2>3. g[m] \in Row /\ Kept(msgs[m], g[m]) /\ Tidy(g[m])
    BY <2>1, <2>2 DEF Row, Kept, Tidy
  <2>. QED BY <2>2, <2>3
<1>. HIDE DEF g
<1>3. Rewrites(g)
  BY <1>1, <1>2, RewriteRows
<1>. QED BY <1>2, <1>3 DEF g

\* A tab that goes leaves rows that are not its successor's.
LEMMA GoneRows ==
  ASSUME TypeOK, NEW a, NEW S, Gone(a, S)
  PROVE  /\ Rewrites(msgs')
         /\ \A m \in DOMAIN msgs :
              msgs'[m] = IF msgs[m].to = a THEN [Unhooked(S)[m] EXCEPT !.mine = FALSE] ELSE Unhooked(S)[m]
<1>1. msgs' = [m \in DOMAIN msgs |-> msgs'[m]]
  BY DEF Gone
<1>2. ASSUME NEW m \in DOMAIN msgs
      PROVE  /\ msgs'[m] \in Row /\ Kept(msgs[m], msgs'[m]) /\ Tidy(msgs'[m])
             /\ msgs'[m] = IF msgs[m].to = a THEN [Unhooked(S)[m] EXCEPT !.mine = FALSE] ELSE Unhooked(S)[m]
  <2>1. Unhooked(S)[m] \in Row /\ Kept(msgs[m], Unhooked(S)[m]) /\ Tidy(Unhooked(S)[m])
    BY UnhookedRows DEF Rewrites
  <2>2. msgs'[m] = IF msgs[m].to = a THEN [Unhooked(S)[m] EXCEPT !.mine = FALSE] ELSE Unhooked(S)[m]
    BY DEF Gone
  <2>3. msgs'[m] \in Row /\ Kept(msgs[m], msgs'[m]) /\ Tidy(msgs'[m])
    BY <2>1, <2>2 DEF Row, Kept, Tidy
  <2>. QED BY <2>2, <2>3
<1>3. Rewrites(msgs')
  BY <1>1, <1>2, RewriteRows
<1>. QED BY <1>2, <1>3

\* A confirmation marks its batch.
LEMMA ConfirmRows ==
  ASSUME TypeOK, NEW a, Confirm(a)
  PROVE  /\ Rewrites(msgs')
         /\ \A m \in DOMAIN msgs :
              msgs'[m] = IF m \in Batch(a) THEN [msgs[m] EXCEPT !.batch = "confirmed"] ELSE msgs[m]
<1>1. msgs' = [m \in DOMAIN msgs |-> msgs'[m]]
  BY DEF Confirm
<1>2. ASSUME NEW m \in DOMAIN msgs
      PROVE  /\ msgs'[m] \in Row /\ Kept(msgs[m], msgs'[m]) /\ Tidy(msgs'[m])
             /\ msgs'[m] = IF m \in Batch(a) THEN [msgs[m] EXCEPT !.batch = "confirmed"] ELSE msgs[m]
  <2>1. msgs[m] \in Row /\ Tidy(msgs[m])
    BY Types
  <2>2. msgs'[m] = IF m \in Batch(a) THEN [msgs[m] EXCEPT !.batch = "confirmed"] ELSE msgs[m]
    BY DEF Confirm
  <2>3. m \in Batch(a) => msgs[m].state = "delivered"
    BY DEF Batch
  <2>4. msgs'[m] \in Row /\ Kept(msgs[m], msgs'[m]) /\ Tidy(msgs'[m])
    BY <2>1, <2>2, <2>3 DEF Row, Kept, Tidy
  <2>. QED BY <2>2, <2>4
<1>3. Rewrites(msgs')
  BY <1>1, <1>2, RewriteRows
<1>. QED BY <1>2, <1>3

\* A sweep deletes old rows and expires the overdue ones.
LEMMA SweptRows ==
  ASSUME TypeOK, NEW old
  PROVE  /\ Rewrites(Swept(old))
         /\ \A m \in DOMAIN msgs :
              Swept(old)[m] = IF m \in old THEN Settled(m, "purged")
                              ELSE IF Live(m) /\ msgs[m].overdue THEN Settled(m, "expired")
                              ELSE [msgs[m] EXCEPT !.replyTo = IF @ \in old THEN 0 ELSE @]
<1>. DEFINE g == Swept(old)
<1>1. g = [m \in DOMAIN msgs |-> g[m]]
  BY DEF Swept
<1>2. ASSUME NEW m \in DOMAIN msgs
      PROVE  /\ g[m] \in Row /\ Kept(msgs[m], g[m]) /\ Tidy(g[m])
             /\ g[m] = IF m \in old THEN Settled(m, "purged")
                       ELSE IF Live(m) /\ msgs[m].overdue THEN Settled(m, "expired")
                       ELSE [msgs[m] EXCEPT !.replyTo = IF @ \in old THEN 0 ELSE @]
  <2>1. msgs[m] \in Row /\ Tidy(msgs[m])
    BY Types
  <2>2. g[m] = IF m \in old THEN Settled(m, "purged")
               ELSE IF Live(m) /\ msgs[m].overdue THEN Settled(m, "expired")
               ELSE [msgs[m] EXCEPT !.replyTo = IF @ \in old THEN 0 ELSE @]
    BY DEF Swept
  <2>. HIDE DEF g
  <2>3. ASSUME g[m] = [msgs[m] EXCEPT !.replyTo = IF @ \in old THEN 0 ELSE @]
        PROVE  g[m] \in Row /\ Kept(msgs[m], g[m]) /\ Tidy(g[m])
    <3>1. 0 \in 0..MaxMsg
      BY IntercomAssumption
    <3>. QED BY <2>1, <2>3, <3>1 DEF Row, Kept, Tidy
  <2>4. g[m] \in Row /\ Kept(msgs[m], g[m]) /\ Tidy(g[m])
    BY <2>2, <2>3, SettledRow
  <2>. QED BY <2>2, <2>4
<1>. HIDE DEF g
<1>3. Rewrites(g)
  BY <1>1, <1>2, RewriteRows
<1>. QED BY <1>2, <1>3 DEF g

\* A deadline marks one row.
LEMMA MarkedRows ==
  ASSUME TypeOK, NEW m \in DOMAIN msgs
  PROVE  /\ msgs[m].state = "delivered" => Rewrites([msgs EXCEPT ![m].due = TRUE])
         /\ Rewrites([msgs EXCEPT ![m].overdue = TRUE])
<1>1. ASSUME NEW g, g = [msgs EXCEPT ![m].overdue = TRUE] \/
                    (g = [msgs EXCEPT ![m].due = TRUE] /\ msgs[m].state = "delivered")
      PROVE  Rewrites(g)
  <2>0. \A k \in DOMAIN msgs : msgs[k] \in Row /\ Tidy(msgs[k])
    BY Types
  <2>1. g = [k \in DOMAIN msgs |-> g[k]]
    BY <1>1
  <2>2. \A k \in DOMAIN msgs : k # m => g[k] = msgs[k]
    BY <1>1
  <2>3. g[m] = [msgs[m] EXCEPT !.overdue = TRUE] \/
        (g[m] = [msgs[m] EXCEPT !.due = TRUE] /\ msgs[m].state = "delivered")
    BY <1>1
  <2>4. g[m] \in Row /\ Kept(msgs[m], g[m]) /\ Tidy(g[m])
    BY <2>0, <2>3 DEF Row, Kept, Tidy
  <2>5. \A k \in DOMAIN msgs : g[k] \in Row /\ Kept(msgs[k], g[k]) /\ Tidy(g[k])
    BY <2>0, <2>2, <2>4 DEF Kept
  <2>. QED BY <2>1, <2>5, RewriteRows
<1>. QED BY <1>1

\* A send adds one row.
LEMMA AppendedRow ==
  ASSUME TypeOK, HasRoom, NEW r \in Row
  PROVE  Adds(Append(msgs, r), r)
<1>1. msgs \in Seq(Row) /\ Len(msgs) \in Nat /\ Len(msgs) < MaxMsg
  BY Types DEF HasRoom
<1>. QED BY <1>1, Appended, IntercomAssumption DEF Adds

\* A message is a tidy row that nobody was handed.
LEMMA MessageRow ==
  ASSUME NEW from \in Agent \cup {Human}, NEW to \in Agent, NEW kind \in {"message", "request", "reply"},
         NEW replyTo \in 0..MaxMsg, NEW esc \in 0..MaxEsc
  PROVE  LET r == Message(from, to, kind, replyTo, esc) IN
           /\ r \in Row /\ Tidy(r)
           /\ r.from = from /\ r.to = to /\ r.kind = kind /\ r.replyTo = replyTo /\ r.esc = esc
           /\ r.state = "queued" /\ r.batch = "none" /\ ~r.overdue
  BY DEF Message, Row, Tidy
-----------------------------------------------------------------------------
(* Questions.                                                                *)

\* A question keeps its asker and its request, goes to the human at most, and
\* is neither opened nor answered by it.
Retold(q, r) ==
  /\ r.from = q.from /\ r.ask = q.ask
  /\ r.to = q.to \/ r.to = Human
  /\ r.status = "open" /\ r.to # Human =>
       q.status = "open" /\ r.to = q.to /\ (q.overdue => r.overdue)
  /\ r.status = "resolved" => q.status = "resolved" /\ r.reply = q.reply

\* The table g is escs with questions retold.
Retells(g) ==
  /\ g \in Seq(Question) /\ Len(g) = Len(escs) /\ DOMAIN g = DOMAIN escs
  /\ \A e \in DOMAIN escs : Retold(escs[e], g[e])

\* A table whose questions are each retold is retold.
LEMMA RetoldRows ==
  ASSUME TypeOK, NEW g, g = [e \in DOMAIN escs |-> g[e]],
         \A e \in DOMAIN escs : g[e] \in Question /\ Retold(escs[e], g[e])
  PROVE  Retells(g)
<1>1. escs \in Seq(Question)
  BY Types
<1>. QED BY <1>1, Rewritten DEF Retells

\* Questions that stand are retold.
LEMMA SameQuestions == TypeOK => Retells(escs)
<1>. SUFFICES ASSUME TypeOK PROVE Retells(escs)
  OBVIOUS
<1>1. escs \in Seq(Question) /\ escs = [e \in DOMAIN escs |-> escs[e]]
  BY Types
<1>. QED BY <1>1, RetoldRows DEF Retold

\* The questions of S become the human's.
LEMMA RetargetedRows ==
  ASSUME TypeOK, NEW S
  PROVE  /\ Retells(Retargeted(S))
         /\ \A e \in DOMAIN escs :
              Retargeted(S)[e] = IF e \in S THEN [escs[e] EXCEPT !.to = Human, !.overdue = FALSE] ELSE escs[e]
<1>. DEFINE g == Retargeted(S)
<1>1. g = [e \in DOMAIN escs |-> g[e]]
  BY DEF Retargeted
<1>2. ASSUME NEW e \in DOMAIN escs
      PROVE  /\ g[e] \in Question /\ Retold(escs[e], g[e])
             /\ g[e] = IF e \in S THEN [escs[e] EXCEPT !.to = Human, !.overdue = FALSE] ELSE escs[e]
  <2>1. escs[e] \in Question
    BY Types
  <2>2. g[e] = IF e \in S THEN [escs[e] EXCEPT !.to = Human, !.overdue = FALSE] ELSE escs[e]
    BY DEF Retargeted
  <2>. HIDE DEF g
  <2>3. g[e] \in Question
    <3>1. CASE e \in S
      <4>1. g[e] = [escs[e] EXCEPT !.to = Human, !.overdue = FALSE]
        BY <2>2, <3>1
      <4>. QED BY <2>1, <4>1 DEF Question
    <3>. QED BY <2>1, <2>2, <3>1
  <2>4. Retold(escs[e], g[e])
    <3>1. CASE e \in S
      <4>1. g[e].from = escs[e].from /\ g[e].ask = escs[e].ask /\ g[e].to = Human
            /\ g[e].status = escs[e].status /\ g[e].reply = escs[e].reply
        BY <2>1, <2>2, <3>1 DEF Question
      <4>. QED BY <4>1 DEF Retold
    <3>2. CASE e \notin S
      <4>1. g[e] = escs[e]
        BY <2>2, <3>2
      <4>. QED BY <4>1 DEF Retold
    <3>. QED BY <3>1, <3>2
  <2>. QED BY <2>2, <2>3, <2>4
<1>. HIDE DEF g
<1>3. Retells(g)
  BY <1>1, <1>2, RetoldRows
<1>. QED BY <1>2, <1>3 DEF g

\* A question is dismissed, or lapses.
LEMMA DismissedRows ==
  ASSUME TypeOK, NEW e \in DOMAIN escs
  PROVE  /\ Retells([escs EXCEPT ![e].status = "dismissed", ![e].overdue = FALSE])
         /\ Retells([escs EXCEPT ![e].overdue = TRUE])
<1>1. ASSUME NEW g, \/ g = [escs EXCEPT ![e].status = "dismissed", ![e].overdue = FALSE]
                    \/ g = [escs EXCEPT ![e].overdue = TRUE]
      PROVE  Retells(g)
  <2>0. \A k \in DOMAIN escs : escs[k] \in Question
    BY Types
  <2>1. g = [k \in DOMAIN escs |-> g[k]]
    BY <1>1
  <2>2. \A k \in DOMAIN escs : k # e => g[k] = escs[k]
    BY <1>1
  <2>3. \/ g[e] = [escs[e] EXCEPT !.status = "dismissed", !.overdue = FALSE]
        \/ g[e] = [escs[e] EXCEPT !.overdue = TRUE]
    BY <1>1
  <2>4. g[e] \in Question /\ Retold(escs[e], g[e])
    BY <2>0, <2>3 DEF Question, Retold
  <2>5. \A k \in DOMAIN escs : g[k] \in Question /\ Retold(escs[k], g[k])
    BY <2>0, <2>2, <2>4 DEF Retold
  <2>. QED BY <2>1, <2>5, RetoldRows
<1>. QED BY <1>1

\* A sweep hands the overdue questions to the human.
LEMMA SweptQuestions ==
  ASSUME TypeOK, NEW old, NEW closed, Sweep(old, closed)
  PROVE  /\ Retells(escs')
         /\ \A e \in SweptAsks : escs'[e].to = Human
<1>1. escs' = [e \in DOMAIN escs |-> escs'[e]]
  BY DEF Sweep
<1>2. ASSUME NEW e \in DOMAIN escs
      PROVE  /\ escs'[e] \in Question /\ Retold(escs[e], escs'[e])
             /\ e \in SweptAsks => escs'[e].to = Human
  <2>. DEFINE r == Retargeted(SweptAsks)[e]
  <2>1. r \in Question /\ Retold(escs[e], r)
    <3>1. Retells(Retargeted(SweptAsks))
      BY RetargetedRows
    <3>2. /\ Retargeted(SweptAsks) \in Seq(Question) /\ DOMAIN Retargeted(SweptAsks) = DOMAIN escs
          /\ Retold(escs[e], Retargeted(SweptAsks)[e])
      BY <3>1 DEF Retells
    <3>. QED BY <3>2
  <2>2. e \in SweptAsks => r.to = Human
    <3>1. escs[e] \in Question
      BY Types
    <3>2. ASSUME e \in SweptAsks
          PROVE  r = [escs[e] EXCEPT !.to = Human, !.overdue = FALSE]
      <4>1. r = IF e \in SweptAsks THEN [escs[e] EXCEPT !.to = Human, !.overdue = FALSE] ELSE escs[e]
        BY RetargetedRows
      <4>. QED BY <3>2, <4>1
    <3>. HIDE DEF r
    <3>. QED BY <3>1, <3>2 DEF Question
  <2>3. escs'[e] = IF e \in closed THEN [r EXCEPT !.status = "purged"] ELSE r
    BY DEF Sweep
  <2>. HIDE DEF r
  <2>4. escs'[e] \in Question /\ Retold(escs[e], escs'[e])
    BY <2>1, <2>3 DEF Question, Retold
  <2>. QED BY <2>1, <2>2, <2>3, <2>4 DEF Question
<1>3. SweptAsks \subseteq DOMAIN escs
  BY DEF SweptAsks
<1>. QED BY <1>1, <1>2, <1>3, RetoldRows

\* One question gets its answer.
LEMMA ResolvedRows ==
  ASSUME TypeOK, NEW e \in DOMAIN escs, NEW m \in 0..MaxMsg
  PROVE  LET g == Resolved(e, m) IN
           /\ g \in Seq(Question) /\ Len(g) = Len(escs) /\ DOMAIN g = DOMAIN escs
           /\ \A k \in DOMAIN escs \ {e} : g[k] = escs[k]
           /\ g[e].from = escs[e].from /\ g[e].to = escs[e].to /\ g[e].ask = escs[e].ask
           /\ g[e].status = "resolved" /\ g[e].reply = m
<1>. DEFINE g == Resolved(e, m)
<1>0. \A k \in DOMAIN escs : escs[k] \in Question
  BY Types
<1>1. g = [k \in DOMAIN escs |-> g[k]]
  BY DEF Resolved
<1>2. \A k \in DOMAIN escs \ {e} : g[k] = escs[k]
  BY DEF Resolved
<1>3. g[e] = [escs[e] EXCEPT !.status = "resolved", !.reply = m, !.overdue = FALSE]
  BY DEF Resolved
<1>. HIDE DEF g
<1>4. /\ g[e] \in Question /\ g[e].from = escs[e].from /\ g[e].to = escs[e].to /\ g[e].ask = escs[e].ask
      /\ g[e].status = "resolved" /\ g[e].reply = m
  BY <1>0, <1>3 DEF Question
<1>5. \A k \in DOMAIN escs : g[k] \in Question
  BY <1>0, <1>2, <1>4
<1>6. escs \in Seq(Question)
  BY Types
<1>. QED BY <1>1, <1>2, <1>4, <1>5, <1>6, Rewritten DEF g

\* One question is added, open.
LEMMA AskedRow ==
  ASSUME TypeOK, Len(escs) < MaxEsc, NEW from \in Agent, NEW to \in Agent \cup {Human}, NEW ask \in 0..MaxMsg
  PROVE  LET q == Escalation(from, to, ask)
             g == Append(escs, q)
         IN  /\ g \in Seq(Question) /\ Len(g) <= MaxEsc
             /\ DOMAIN g = DOMAIN escs \cup {Len(escs) + 1} /\ Len(escs) + 1 \notin DOMAIN escs
             /\ \A e \in DOMAIN escs : g[e] = escs[e]
             /\ g[Len(escs) + 1] = q
             /\ q.from = from /\ q.to = to /\ q.ask = ask /\ q.status = "open"
<1>. DEFINE q == Escalation(from, to, ask)
<1>1. q \in Question /\ q.from = from /\ q.to = to /\ q.ask = ask /\ q.status = "open"
  BY IntercomAssumption DEF Escalation, Question
<1>2. escs \in Seq(Question) /\ Len(escs) \in Nat
  BY Types
<1>. HIDE DEF q
<1>3. /\ Append(escs, q) \in Seq(Question) /\ Len(Append(escs, q)) = Len(escs) + 1
      /\ DOMAIN Append(escs, q) = DOMAIN escs \cup {Len(escs) + 1} /\ Len(escs) + 1 \notin DOMAIN escs
      /\ \A e \in DOMAIN escs : Append(escs, q)[e] = escs[e]
      /\ Append(escs, q)[Len(escs) + 1] = q
  BY <1>1, <1>2, Appended
<1>4. Len(escs) + 1 <= MaxEsc
  BY <1>2, IntercomAssumption
<1>. QED BY <1>1, <1>3, <1>4 DEF q
-----------------------------------------------------------------------------
(* What a step does to the tables.                                           *)

\* A row lapses after its question, and goes once nobody asks it.
Ages(m) ==
  /\ msgs'[m].overdue => msgs[m].overdue \/ PastAsk(m)
  /\ msgs[m].state = "purged" => msgs'[m].state = "purged"
  /\ msgs'[m].state \in {"expired", "purged"} =>
       \/ msgs[m].state \in {"expired", "purged"}
       \/ \A e \in DOMAIN escs : PeerAsk(e) /\ escs[e].ask = m => escs'[e].to = Human

\* Rows and questions are rewritten.
Turns == Rewrites(msgs') /\ Retells(escs') /\ \A m \in DOMAIN msgs : Ages(m)

\* A row as it is sent.
New(r) ==
  /\ r \in Row /\ Tidy(r) /\ r.state = "queued" /\ r.batch = "none" /\ ~r.overdue
  /\ r.kind = "request" => r.from \in Agent
  /\ r.replyTo <= Len(msgs)

\* A message is sent: if it is a reply, to what nobody asks.
Sends(r) ==
  /\ New(r) /\ Adds(msgs', r) /\ escs' = escs
  /\ r.kind = "reply" => \A e \in DOMAIN escs : PeerAsk(e) => escs[e].ask # r.replyTo

\* The answer of question e is sent.
Answers(r, e) ==
  /\ New(r) /\ Adds(msgs', r)
  /\ e \in DOMAIN escs /\ escs[e].status = "open" /\ escs' = Resolved(e, Len(msgs) + 1)
  /\ r.to = escs[e].from
  /\ r.kind = "reply" => r.replyTo = escs[e].ask /\ escs[e].to \in Agent
  /\ escs[e].to = Human => r.from = Human

\* A peer is asked.
Asks(r, a, to) ==
  /\ New(r) /\ Adds(msgs', r)
  /\ a \in Agent /\ to \in Agent /\ Len(escs) < MaxEsc
  /\ r.kind = "request" /\ r.from = a /\ r.to = to /\ r.esc = Len(escs) + 1
  /\ escs' = Append(escs, Escalation(a, to, Len(msgs) + 1))

\* The row of a rewritten table that stands as it was does not age.
LEMMA SameAges ==
  ASSUME NEW m, msgs'[m].overdue => msgs[m].overdue,
         msgs'[m].state \in {"expired", "purged"} \/ msgs[m].state = "purged" => msgs'[m].state = msgs[m].state
  PROVE  Ages(m)
  BY DEF Ages

\* Acknowledged rows were live.
LEMMA AckTurns ==
  ASSUME TypeOK, NEW S, \A m \in S : m \in DOMAIN msgs => Live(m), msgs' = Acked(S), escs' = escs
  PROVE  Turns
<1>1. Rewrites(msgs')
  BY AckedRows
<1>2. ASSUME NEW m \in DOMAIN msgs PROVE Ages(m)
  <2>1. CASE m \in S
    <3>1. msgs'[m] = Settled(m, "acknowledged") /\ Live(m)
      BY <2>1, AckedRows
    <3>2. msgs'[m].state = "acknowledged" /\ ~msgs'[m].overdue /\ msgs[m].state # "purged"
      BY <3>1, SettledRow DEF Live
    <3>. QED BY <3>2, SameAges
  <2>2. CASE m \notin S
    <3>1. msgs'[m] = msgs[m]
      BY <2>2, AckedRows
    <3>. QED BY <3>1, SameAges
  <2>. QED BY <2>1, <2>2
<1>. QED BY <1>1, <1>2, SameQuestions DEF Turns

\* Claimed rows were live.
LEMMA ClaimTurns ==
  ASSUME TypeOK, NEW ids, NEW mine \in BOOLEAN, NEW b \in {"none", "pending"},
         msgs' = Claimed(ids, mine, b), escs' = escs
  PROVE  Turns
<1>1. Rewrites(msgs')
  BY ClaimedRows
<1>2. ASSUME NEW m \in DOMAIN msgs PROVE Ages(m)
  <2>0. msgs[m] \in Row
    BY Types
  <2>1. CASE m \in ids /\ Deliverable(m)
    <3>0. Claimed(ids, mine, b)[m] =
            [msgs[m] EXCEPT !.state = "delivered", !.mine = mine, !.batch = b, !.due = FALSE]
      <4>1. IF m \in ids /\ Deliverable(m)
            THEN /\ Claimed(ids, mine, b)[m] =
                      [msgs[m] EXCEPT !.state = "delivered", !.mine = mine, !.batch = b, !.due = FALSE]
                 /\ Claimed(ids, mine, b)[m] # msgs[m]
            ELSE Claimed(ids, mine, b)[m] = msgs[m]
        BY ClaimedRows
      <4>. QED BY <2>1, <4>1
    <3>1. msgs'[m] = [msgs[m] EXCEPT !.state = "delivered", !.mine = mine, !.batch = b, !.due = FALSE]
      BY <3>0
    <3>2. msgs'[m].state = "delivered" /\ msgs'[m].overdue = msgs[m].overdue /\ msgs[m].state # "purged"
      BY <2>0, <2>1, <3>1 DEF Row, Deliverable
    <3>. QED BY <3>2, SameAges
  <2>2. CASE ~(m \in ids /\ Deliverable(m))
    <3>1. msgs'[m] = msgs[m]
      BY <2>2, ClaimedRows
    <3>. QED BY <3>1, SameAges
  <2>. QED BY <2>1, <2>2
<1>. QED BY <1>1, <1>2, SameQuestions DEF Turns

\* Rows that stay where they are.
LEMMA PlainTurns ==
  ASSUME TypeOK, Rewrites(msgs'), Retells(escs'),
         \A m \in DOMAIN msgs : msgs'[m].state = msgs[m].state /\ msgs'[m].overdue = msgs[m].overdue
  PROVE  Turns
  BY SameAges DEF Turns

\* Rows that are not touched.
LEMMA NoTurns ==
  ASSUME TypeOK, UNCHANGED msgs, Retells(escs')
  PROVE  Turns
<1>1. msgs \in Seq(Row) /\ msgs = [m \in DOMAIN msgs |-> msgs[m]]
  BY Types
<1>2. \A m \in DOMAIN msgs : msgs[m] \in Row /\ Kept(msgs[m], msgs[m]) /\ Tidy(msgs[m])
  BY Types DEF Kept
<1>3. Rewrites(msgs)
  BY <1>1, <1>2, RewriteRows
<1>. QED BY <1>3, PlainTurns

\* The hook's steps turn rows.
LEMMA HookTurns == ASSUME TypeOK, NEW a \in Agent, Hook(a) PROVE Turns
<1>. USE SameQuestions
<1>1. CASE Peek(a) \/ Write(a)
  BY <1>1, NoTurns DEF Peek, Write
<1>2. CASE Claim(a)
  <2>1. hook[a].mine \in BOOLEAN
    BY Types
  <2>2. PICK b \in {"none", "pending"} : msgs' = Claimed(hook[a].ids, hook[a].mine, b)
    BY <1>2 DEF Claim
  <2>3. escs' = escs
    BY <1>2 DEF Claim
  <2>. QED BY <2>1, <2>2, <2>3, ClaimTurns
<1>3. CASE Confirm(a)
  <2>1. \A m \in DOMAIN msgs : msgs'[m].state = msgs[m].state /\ msgs'[m].overdue = msgs[m].overdue
    <3>1. \A m \in DOMAIN msgs : msgs[m] \in Row
      BY Types
    <3>. QED BY <1>3, <3>1, ConfirmRows DEF Row
  <2>. QED BY <1>3, <2>1, ConfirmRows, PlainTurns DEF Confirm
<1>4. CASE Stop(a)
  <2>1. \A m \in Received(a) : m \in DOMAIN msgs => Live(m)
    BY Types DEF Received, Live, Tidy
  <2>. QED BY <1>4, <2>1, AckTurns DEF Stop
<1>5. CASE HookDies(a)
  <2>0. msgs' = Unhooked({a}) /\ escs' = escs
    BY <1>5 DEF HookDies
  <2>1. ASSUME NEW m \in DOMAIN msgs
        PROVE  msgs'[m].state = msgs[m].state /\ msgs'[m].overdue = msgs[m].overdue
    <3>1. msgs[m] \in Row
      BY Types
    <3>2. msgs'[m] = [msgs[m] EXCEPT !.batch = "none"] \/ msgs'[m] = msgs[m]
      BY <2>0, UnhookedRows
    <3>. QED BY <3>1, <3>2 DEF Row
  <2>. QED BY <2>0, <2>1, UnhookedRows, PlainTurns
<1>. QED BY <1>1, <1>2, <1>3, <1>4, <1>5 DEF Hook

\* The tools' steps turn rows.
LEMMA ToolTurns == ASSUME TypeOK, NEW a \in Agent, Tool(a) PROVE Turns
<1>. USE SameQuestions
<1>1. CASE Return(a) \/ ToolDies(a)
  BY <1>1, NoTurns DEF Return, ToolDies
<1>2. CASE Pull(a)
  <2>1. PICK ids : msgs' = Claimed(ids, TRUE, "none")
    BY <1>2 DEF Pull
  <2>. QED BY <1>2, <2>1, ClaimTurns DEF Pull
<1>3. CASE InboxAck(a)
  <2>1. PICK m : Live(m) /\ msgs' = Acked({m})
    BY <1>3 DEF InboxAck
  <2>. QED BY <1>3, <2>1, AckTurns DEF InboxAck
<1>. QED BY <1>1, <1>2, <1>3 DEF Tool

\* A tab that goes turns the rows that were delivered to it.
LEMMA GoneTurns ==
  ASSUME TypeOK, NEW a, NEW S, Gone(a, S), Retells(escs')
  PROVE  Turns
<1>1. Rewrites(msgs')
  BY GoneRows
<1>2. ASSUME NEW m \in DOMAIN msgs
      PROVE  msgs'[m].state = msgs[m].state /\ msgs'[m].overdue = msgs[m].overdue
  <2>1. msgs[m] \in Row
    BY Types
  <2>2. Unhooked(S)[m] = [msgs[m] EXCEPT !.batch = "none"] \/ Unhooked(S)[m] = msgs[m]
    BY UnhookedRows
  <2>3. Unhooked(S)[m] \in Row /\ Unhooked(S)[m].state = msgs[m].state /\ Unhooked(S)[m].overdue = msgs[m].overdue
    BY <2>1, <2>2 DEF Row
  <2>4. msgs'[m] = [Unhooked(S)[m] EXCEPT !.mine = FALSE] \/ msgs'[m] = Unhooked(S)[m]
    BY GoneRows
  <2>. QED BY <2>3, <2>4 DEF Row
<1>. QED BY <1>1, <1>2, PlainTurns

\* What is swept is past its question, which goes to the human.
LEMMA SweepTurns ==
  ASSUME TypeOK, LapseInv, NEW old, NEW closed, Sweep(old, closed)
  PROVE  Turns
<1>1. Rewrites(msgs') /\ Retells(escs')
  BY SweptRows, SweptQuestions DEF Sweep
<1>2. ASSUME NEW m \in DOMAIN msgs, PastAsk(m), NEW e \in DOMAIN escs, PeerAsk(e), escs[e].ask = m
      PROVE  escs'[e].to = Human
  <2>1. e \in SweptAsks
    BY <1>2 DEF PastAsk, SweptAsks
  <2>. QED BY <2>1, SweptQuestions
<1>3. ASSUME NEW m \in DOMAIN msgs PROVE Ages(m)
  <2>0. msgs[m] \in Row /\ msgs' = Swept(old)
    BY Types DEF Sweep
  <2>1. CASE m \in old
    <3>1. PastAsk(m) /\ msgs'[m] = Settled(m, "purged")
      BY <2>0, <2>1, SweptRows DEF Sweep
    <3>2. msgs'[m].state = "purged" /\ ~msgs'[m].overdue
      BY <3>1, SettledRow
    <3>. QED BY <1>2, <3>1, <3>2 DEF Ages
  <2>2. CASE m \notin old /\ Live(m) /\ msgs[m].overdue
    <3>1. PastAsk(m) /\ msgs'[m] = Settled(m, "expired") /\ msgs[m].state # "purged"
      BY <2>0, <2>2, SweptRows DEF LapseInv, Live
    <3>2. msgs'[m].state = "expired" /\ ~msgs'[m].overdue
      BY <3>1, SettledRow
    <3>. QED BY <1>2, <3>1, <3>2 DEF Ages
  <2>3. CASE m \notin old /\ ~(Live(m) /\ msgs[m].overdue)
    <3>1. msgs'[m] = [msgs[m] EXCEPT !.replyTo = IF @ \in old THEN 0 ELSE @]
      BY <2>0, <2>3, SweptRows
    <3>2. msgs'[m].state = msgs[m].state /\ msgs'[m].overdue = msgs[m].overdue
      BY <2>0, <3>1 DEF Row
    <3>. QED BY <3>2, SameAges
  <2>. QED BY <2>1, <2>2, <2>3
<1>. QED BY <1>1, <1>3 DEF Turns

\* The deadlines turn rows.
LEMMA ClockTurns == TypeOK /\ LapseInv /\ Clock => Turns
<1>. SUFFICES ASSUME TypeOK, LapseInv, Clock PROVE Turns
  OBVIOUS
<1>1. ASSUME NEW m \in DOMAIN msgs, RedeliveryDue(m) PROVE Turns
  <2>1. msgs' = [msgs EXCEPT ![m].due = TRUE] /\ escs' = escs /\ msgs[m].state = "delivered"
    BY <1>1 DEF RedeliveryDue
  <2>2. \A k \in DOMAIN msgs : msgs'[k].state = msgs[k].state /\ msgs'[k].overdue = msgs[k].overdue
    <3>1. msgs[m] \in Row
      BY Types
    <3>. QED BY <2>1, <3>1 DEF Row
  <2>. QED BY <2>1, <2>2, MarkedRows, SameQuestions, PlainTurns
<1>2. ASSUME NEW m \in DOMAIN msgs, MessageLapses(m) PROVE Turns
  <2>1. msgs' = [msgs EXCEPT ![m].overdue = TRUE] /\ escs' = escs /\ PastAsk(m)
    BY <1>2 DEF MessageLapses
  <2>2. ASSUME NEW k \in DOMAIN msgs PROVE Ages(k)
    <3>1. msgs[k] \in Row
      BY Types
    <3>2. msgs'[k].state = msgs[k].state /\ (k # m => msgs'[k].overdue = msgs[k].overdue)
      BY <2>1, <3>1 DEF Row
    <3>. QED BY <2>1, <3>2 DEF Ages
  <2>. QED BY <2>1, <2>2, MarkedRows, SameQuestions DEF Turns
<1>3. ASSUME NEW e \in DOMAIN escs, AskLapses(e) PROVE Turns
  BY <1>3, DismissedRows, NoTurns DEF AskLapses
<1>4. ASSUME NEW old \in SUBSET DOMAIN msgs, NEW closed \in SUBSET DOMAIN escs, Sweep(old, closed) PROVE Turns
  BY <1>4, SweepTurns
<1>. QED BY <1>1, <1>2, <1>3, <1>4 DEF Clock

\* What a tab writes.
LEMMA WriterTables ==
  ASSUME TypeOK, RowInv, AskInv, NEW a \in Agent, Writer(a)
  PROVE  \/ Turns
         \/ \E r \in Row : Sends(r) \/ \E e \in DOMAIN escs : Answers(r, e)
         \/ \E r \in Row, to \in Agent : Asks(r, a, to)
         \/ UNCHANGED msgs /\ Len(escs) < MaxEsc /\ escs' = Append(escs, Escalation(a, Human, 0))
<1>. USE IntercomAssumption
<1>0. /\ Len(msgs) \in Nat /\ DOMAIN msgs = 1..Len(msgs) /\ \A m \in DOMAIN msgs : msgs[m] \in Row
      /\ Len(escs) \in Nat /\ DOMAIN escs = 1..Len(escs) /\ \A e \in DOMAIN escs : escs[e] \in Question
      /\ Len(msgs) <= MaxMsg /\ Len(escs) <= MaxEsc
  BY Types
<1>1. ASSUME NEW b \in Agent, NEW kind \in Kind, Send(a, b, kind) PROVE \E r \in Row : Sends(r)
  <2>. DEFINE r == Message(a, b, kind, 0, 0)
  <2>1. kind \in {"message", "request"} /\ 0 \in 0..MaxMsg /\ 0 \in 0..MaxEsc
    OBVIOUS
  <2>2. /\ r \in Row /\ Tidy(r) /\ r.from = a /\ r.kind = kind /\ r.replyTo = 0
        /\ r.state = "queued" /\ r.batch = "none" /\ ~r.overdue
    BY <2>1, MessageRow
  <2>3. HasRoom /\ msgs' = Append(msgs, r) /\ escs' = escs
    BY <1>1 DEF Send
  <2>. HIDE DEF r
  <2>4. Adds(msgs', r)
    BY <2>2, <2>3, AppendedRow
  <2>5. New(r)
    BY <1>0, <2>2 DEF New
  <2>. QED BY <2>1, <2>2, <2>3, <2>4, <2>5 DEF Sends
<1>2. ASSUME NEW m \in DOMAIN msgs, MayReply(a, msgs[m].from, m)
      PROVE  /\ msgs[m].kind = "request" /\ msgs[m].to = a /\ msgs[m].from \in Agent
             /\ m \in 0..MaxMsg /\ m <= Len(msgs)
  BY <1>0, <1>2 DEF MayReply, RowInv
<1>3. ASSUME NEW to \in Agent, NEW m \in 0..MaxMsg, m <= Len(msgs), NEW r, r = Message(a, to, "reply", m, 0),
             HasRoom, msgs' = Append(msgs, r)
      PROVE  r \in Row /\ New(r) /\ Adds(msgs', r) /\ r.to = to /\ r.kind = "reply" /\ r.replyTo = m
  <2>1. 0 \in 0..MaxEsc
    OBVIOUS
  <2>2. /\ r \in Row /\ Tidy(r) /\ r.to = to /\ r.kind = "reply" /\ r.replyTo = m
        /\ r.state = "queued" /\ r.batch = "none" /\ ~r.overdue
    BY <1>3, <2>1, MessageRow
  <2>3. Adds(msgs', r)
    BY <1>3, <2>2, AppendedRow
  <2>. QED BY <1>3, <2>2, <2>3 DEF New
<1>4. ASSUME NEW m \in DOMAIN msgs, Reply(a, m)
      PROVE  \E r \in Row : Sends(r) \/ \E e \in DOMAIN escs : Answers(r, e)
  <2>1. MayReply(a, msgs[m].from, m) /\ HasRoom
    BY <1>4 DEF Reply
  <2>2. PICK r : r = Message(a, msgs[m].from, "reply", m, 0) /\ msgs' = Append(msgs, r)
    BY <1>4 DEF Reply
  <2>3. /\ msgs[m].kind = "request" /\ msgs[m].to = a /\ msgs[m].from \in Agent
        /\ m \in 0..MaxMsg /\ m <= Len(msgs)
    BY <1>2, <2>1
  <2>4. r \in Row /\ New(r) /\ Adds(msgs', r) /\ r.to = msgs[m].from /\ r.kind = "reply" /\ r.replyTo = m
    BY <1>3, <2>1, <2>2, <2>3
  <2>5. CASE AnsweredBy(a, m) = {}
    <3>1. escs' = escs
      BY <1>4, <2>5 DEF Reply
    <3>2. ASSUME NEW e \in DOMAIN escs, PeerAsk(e), escs[e].ask = m PROVE FALSE
      <4>1. escs[e].to \in Agent
        BY <1>0, <3>2 DEF PeerAsk, Question
      <4>2. escs[e].to = a
        BY <2>3, <3>2, <4>1 DEF AskInv
      <4>. QED BY <2>5, <3>2, <4>2 DEF AnsweredBy, PeerAsk
    <3>. QED BY <2>4, <3>1, <3>2 DEF Sends
  <2>6. CASE AnsweredBy(a, m) # {}
    <3>1. PICK e : e = CHOOSE x \in AnsweredBy(a, m) : TRUE
      OBVIOUS
    <3>2. e \in AnsweredBy(a, m)
      BY <2>6, <3>1
    <3>3. escs' = Resolved(e, Len(msgs) + 1)
      BY <1>4, <2>6, <3>1 DEF Reply
    <3>4. e \in DOMAIN escs /\ escs[e].ask = m /\ escs[e].status = "open" /\ escs[e].to = a
      BY <3>2 DEF AnsweredBy
    <3>5. msgs[m].from = escs[e].from
      BY <3>4 DEF AskInv
    <3>. QED BY <2>4, <3>3, <3>4, <3>5 DEF Answers
  <2>. QED BY <2>5, <2>6
<1>5. ASSUME NEW e \in DOMAIN escs, ResolveByPeer(a, e)
      PROVE  \E r \in Row : Answers(r, e)
  <2>1. /\ escs[e].status = "open" /\ escs[e].to = a /\ MayReply(a, escs[e].from, escs[e].ask) /\ HasRoom
        /\ escs' = Resolved(e, Len(msgs) + 1)
    BY <1>5 DEF ResolveByPeer
  <2>2. PICK r : r = Message(a, escs[e].from, "reply", escs[e].ask, 0) /\ msgs' = Append(msgs, r)
    BY <1>5 DEF ResolveByPeer
  <2>3. escs[e].from \in Agent /\ escs[e].ask \in DOMAIN msgs
    BY <1>0, <2>1 DEF Question, MayReply
  <2>4. escs[e].ask \in 0..MaxMsg /\ escs[e].ask <= Len(msgs)
    BY <1>0, <2>3
  <2>5. r \in Row /\ New(r) /\ Adds(msgs', r) /\ r.to = escs[e].from /\ r.kind = "reply" /\ r.replyTo = escs[e].ask
    BY <1>3, <2>1, <2>2, <2>3, <2>4
  <2>. QED BY <2>1, <2>5 DEF Answers
<1>6. ASSUME AskHuman(a)
      PROVE  UNCHANGED msgs /\ Len(escs) < MaxEsc /\ escs' = Append(escs, Escalation(a, Human, 0))
  BY <1>6 DEF AskHuman
<1>7. ASSUME NEW b \in Agent, AskPeer(a, b) PROVE \E r \in Row, to \in Agent : Asks(r, a, to)
  <2>1. PICK r : r = Message(a, b, "request", 0, Len(escs) + 1) /\ msgs' = Append(msgs, r)
    BY <1>7 DEF AskPeer
  <2>2. HasRoom /\ Len(escs) < MaxEsc /\ escs' = Append(escs, Escalation(a, b, Len(msgs) + 1))
    BY <1>7 DEF AskPeer
  <2>3. Len(escs) + 1 \in 0..MaxEsc /\ 0 \in 0..MaxMsg
    BY <1>0, <2>2
  <2>4. /\ r \in Row /\ Tidy(r) /\ r.from = a /\ r.to = b /\ r.kind = "request" /\ r.replyTo = 0 /\ r.esc = Len(escs) + 1
        /\ r.state = "queued" /\ r.batch = "none" /\ ~r.overdue
    BY <2>1, <2>3, MessageRow
  <2>5. Adds(msgs', r) /\ New(r)
    BY <1>0, <2>1, <2>2, <2>4, AppendedRow DEF New
  <2>. QED BY <2>2, <2>4, <2>5 DEF Asks
<1>8. ASSUME NEW e \in DOMAIN escs, PollRetargets(a, e) PROVE Turns
  BY <1>8, RetargetedRows, NoTurns DEF PollRetargets
<1>9. ASSUME NEW e \in DOMAIN escs, PollAnswer(a, e) PROVE Turns
  <2>1. escs' = escs /\ (msgs' = msgs \/ (Live(escs[e].reply) /\ msgs' = Acked({escs[e].reply})))
    BY <1>9 DEF PollAnswer
  <2>. QED BY <2>1, AckTurns, NoTurns, SameQuestions
<1>. QED BY <1>1, <1>4, <1>5, <1>6, <1>7, <1>8, <1>9 DEF Writer

\* The five ways a step changes the tables.
LEMMA StepTables ==
  ASSUME TypeOK, RowInv, AskInv, LapseInv, [Next]_vars
  PROVE  \/ Turns
         \/ \E r \in Row : Sends(r)
         \/ \E r \in Row, e \in DOMAIN escs : Answers(r, e)
         \/ \E r \in Row, a, to \in Agent : Asks(r, a, to)
         \/ \E a \in Agent : UNCHANGED msgs /\ Len(escs) < MaxEsc /\ escs' = Append(escs, Escalation(a, Human, 0))
<1>0. /\ Len(msgs) \in Nat /\ \A m \in DOMAIN msgs : msgs[m] \in Row
      /\ \A e \in DOMAIN escs : escs[e] \in Question
      /\ Len(msgs) <= MaxMsg
  BY Types
<1>1. ASSUME NEW a \in Hooked, Hook(a) PROVE Turns
  BY <1>1, HookTurns, IntercomAssumption
<1>2. ASSUME NEW a \in Agent, Tool(a) PROVE Turns
  BY <1>2, ToolTurns
<1>3. ASSUME NEW a \in Agent, TabOpens(a) PROVE Turns
  BY <1>3, NoTurns, SameQuestions DEF TabOpens
<1>4. ASSUME NEW a \in Agent, TabDies(a) PROVE Turns
  BY <1>4, GoneTurns, RetargetedRows DEF TabDies
<1>5. ASSUME NEW a \in Agent, DropUnnoticed(a) PROVE Turns
  BY <1>5, GoneTurns, SameQuestions DEF DropUnnoticed
<1>6. ASSUME NEW e \in DOMAIN escs, Dismiss(e) PROVE Turns
  BY <1>6, DismissedRows, NoTurns DEF Dismiss
<1>7. ASSUME NEW e \in DOMAIN escs, ResolveByHuman(e) PROVE \E r \in Row : Answers(r, e)
  <2>1. PICK r : r = Message(Human, escs[e].from, "message", 0, e) /\ msgs' = Append(msgs, r)
    BY <1>7 DEF ResolveByHuman
  <2>2. HasRoom /\ escs[e].status = "open" /\ escs' = Resolved(e, Len(msgs) + 1)
    BY <1>7 DEF ResolveByHuman
  <2>3. escs[e].from \in Agent /\ 0 \in 0..MaxMsg /\ e \in 0..MaxEsc
    BY <1>0, Types, IntercomAssumption DEF Question
  <2>4. /\ r \in Row /\ Tidy(r) /\ r.from = Human /\ r.to = escs[e].from /\ r.kind = "message" /\ r.replyTo = 0
        /\ r.state = "queued" /\ r.batch = "none" /\ ~r.overdue
    BY <2>1, <2>3, MessageRow
  <2>5. Adds(msgs', r) /\ New(r)
    BY <1>0, <2>1, <2>2, <2>4, AppendedRow DEF New
  <2>. QED BY <2>2, <2>4, <2>5 DEF Answers
<1>8. CASE UNCHANGED vars
  BY <1>8, NoTurns, SameQuestions DEF vars
<1>9. ASSUME NEW a \in Agent, Writer(a)
      PROVE  \/ Turns
             \/ \E r \in Row : Sends(r) \/ \E e \in DOMAIN escs : Answers(r, e)
             \/ \E r \in Row, to \in Agent : Asks(r, a, to)
             \/ UNCHANGED msgs /\ Len(escs) < MaxEsc /\ escs' = Append(escs, Escalation(a, Human, 0))
  BY <1>9, WriterTables
<1>. QED BY <1>1, <1>2, <1>3, <1>4, <1>5, <1>6, <1>7, <1>8, <1>9, ClockTurns DEF Next
-----------------------------------------------------------------------------
(* The tables.                                                               *)

\* The tables' share of TypeOK.
TablesOK ==
  /\ msgs \in Seq(Row) /\ Len(msgs) <= MaxMsg
  /\ escs \in Seq(Question) /\ Len(escs) <= MaxEsc
  /\ \A m \in DOMAIN msgs : Tidy(msgs[m])
  /\ \A e \in DOMAIN escs :
       /\ escs[e].to \in Agent => escs[e].ask \in DOMAIN msgs
       /\ escs[e].status = "resolved" =>
            escs[e].reply \in DOMAIN msgs /\ msgs[escs[e].reply].to = escs[e].from

\* The tables' share of the inductive invariant.
TablesInv == RowInv /\ AskInv /\ LapseInv /\ OpenAskIsUnanswered

\* Rewriting keeps the tables in order.
LEMMA TurnTables ==
  ASSUME TypeOK, TablesInv, Turns
  PROVE  TablesOK' /\ TablesInv'
<1>. USE Types, IntercomAssumption
<1>0. Human \notin Agent /\ \A e \in DOMAIN escs : escs[e] \in Question
  OBVIOUS
<1>1. /\ msgs' \in Seq(Row) /\ Len(msgs') = Len(msgs) /\ DOMAIN msgs' = DOMAIN msgs
      /\ \A m \in DOMAIN msgs : Kept(msgs[m], msgs'[m]) /\ Tidy(msgs'[m]) /\ Ages(m)
  BY DEF Turns, Rewrites
<1>2. /\ escs' \in Seq(Question) /\ Len(escs') = Len(escs) /\ DOMAIN escs' = DOMAIN escs
      /\ \A e \in DOMAIN escs : Retold(escs[e], escs'[e])
  BY DEF Turns, Retells
<1>3. ASSUME NEW e \in DOMAIN escs
      PROVE  /\ escs'[e].to \in Agent => escs[e].to \in Agent
             /\ escs'[e].ask = escs[e].ask /\ escs'[e].from = escs[e].from
             /\ escs'[e].to \in Agent => escs'[e].to = escs[e].to
  BY <1>0, <1>2 DEF Retold
<1>4. TablesOK'
  <2>1. ASSUME NEW e \in DOMAIN escs, escs'[e].status = "resolved"
        PROVE  escs'[e].reply \in DOMAIN msgs /\ msgs'[escs'[e].reply].to = escs'[e].from
    <3>1. escs[e].status = "resolved" /\ escs'[e].reply = escs[e].reply
      BY <1>2, <2>1 DEF Retold
    <3>2. escs[e].reply \in DOMAIN msgs /\ msgs[escs[e].reply].to = escs[e].from
      BY <3>1
    <3>. QED BY <1>1, <1>3, <3>1, <3>2 DEF Kept
  <2>. QED BY <1>1, <1>2, <1>3, <2>1 DEF TablesOK
<1>5. RowInv'
  <2>. SUFFICES ASSUME NEW m \in DOMAIN msgs
                PROVE  /\ msgs'[m].kind = "request" => msgs'[m].from \in Agent
                       /\ msgs'[m].replyTo <= Len(msgs)
    BY <1>1 DEF RowInv
  <2>1. Kept(msgs[m], msgs'[m]) /\ Len(msgs) \in Nat
    BY <1>1
  <2>. QED BY <2>1 DEF TablesInv, RowInv, Kept
<1>6. AskInv'
  <2>. SUFFICES ASSUME NEW e \in DOMAIN escs, escs'[e].to \in Agent
                PROVE  /\ escs'[e].ask \in DOMAIN msgs
                       /\ msgs'[escs'[e].ask].kind = "request" /\ msgs'[escs'[e].ask].esc = e
                       /\ msgs'[escs'[e].ask].from = escs'[e].from /\ msgs'[escs'[e].ask].to = escs'[e].to
    BY <1>1, <1>2 DEF AskInv
  <2>. DEFINE m == escs[e].ask
  <2>1. /\ m \in DOMAIN msgs /\ msgs[m].kind = "request" /\ msgs[m].esc = e
        /\ msgs[m].from = escs[e].from /\ msgs[m].to = escs[e].to
    BY <1>3 DEF TablesInv, AskInv
  <2>2. Kept(msgs[m], msgs'[m])
    BY <1>1, <2>1
  <2>. QED BY <1>3, <2>1, <2>2 DEF Kept
<1>7. ASSUME NEW e \in DOMAIN escs', PeerAsk(e)'
      PROVE  /\ e \in DOMAIN escs /\ PeerAsk(e) /\ escs'[e].ask = escs[e].ask /\ escs'[e].to # Human
             /\ escs[e].overdue => escs'[e].overdue
             /\ escs[e].ask \in DOMAIN msgs
  <2>1. e \in DOMAIN escs /\ escs'[e].status = "open" /\ escs'[e].to # Human
    BY <1>2, <1>7 DEF PeerAsk
  <2>2. PeerAsk(e) /\ escs'[e].ask = escs[e].ask /\ (escs[e].overdue => escs'[e].overdue)
    BY <1>2, <2>1 DEF PeerAsk, Retold
  <2>3. escs[e].to \in Agent
    BY <1>0, <2>1, <2>2 DEF PeerAsk, Question
  <2>. QED BY <2>1, <2>2, <2>3
<1>8. LapseInv'
  <2>. SUFFICES ASSUME NEW m \in DOMAIN msgs, msgs'[m].overdue,
                       NEW e \in DOMAIN escs', PeerAsk(e)', escs'[e].ask = m
                PROVE  escs'[e].overdue
    BY <1>1 DEF LapseInv, PastAsk
  <2>1. PastAsk(m)
    BY <1>1 DEF Ages, TablesInv, LapseInv
  <2>. QED BY <1>7, <2>1 DEF PastAsk
<1>9. OpenAskIsUnanswered'
  <2>. SUFFICES ASSUME NEW e \in DOMAIN escs', PeerAsk(e)'
                PROVE  ~Replied(escs[e].ask)' /\ msgs'[escs[e].ask].state \notin {"expired", "purged"}
    BY <1>7 DEF OpenAskIsUnanswered, Replied
  <2>. DEFINE m == escs[e].ask
  <2>1. e \in DOMAIN escs /\ PeerAsk(e) /\ m \in DOMAIN msgs /\ escs'[e].to # Human
    BY <1>7
  <2>2. ~Replied(m) /\ msgs[m].state \notin {"expired", "purged"}
    BY <2>1 DEF TablesInv, OpenAskIsUnanswered
  <2>3. msgs'[m].state \notin {"expired", "purged"}
    BY <1>1, <2>1, <2>2 DEF Ages
  <2>4. ASSUME NEW k \in DOMAIN msgs, msgs'[k].kind = "reply", msgs'[k].replyTo = m, msgs'[k].state # "purged"
        PROVE  FALSE
    <3>1. m # 0
      BY <2>1
    <3>2. msgs[k].kind = "reply" /\ msgs[k].replyTo = m
      BY <1>1, <2>4, <3>1 DEF Kept
    <3>3. msgs[k].state # "purged"
      BY <1>1, <2>4 DEF Ages
    <3>. QED BY <2>2, <3>2, <3>3 DEF Replied
  <2>5. m' = escs'[e].ask /\ escs'[e].ask = m
    BY <1>7
  <2>. QED BY <1>1, <2>3, <2>4, <2>5 DEF Replied
<1>. QED BY <1>4, <1>5, <1>6, <1>8, <1>9 DEF TablesInv

\* A new row, whatever becomes of the questions, keeps the rows in order.
LEMMA AddRows ==
  ASSUME TypeOK, TablesInv, NEW r, New(r), Adds(msgs', r)
  PROVE  /\ msgs' \in Seq(Row) /\ Len(msgs') <= MaxMsg /\ \A m \in DOMAIN msgs' : Tidy(msgs'[m])
         /\ DOMAIN msgs \subseteq DOMAIN msgs'
         /\ RowInv'
<1>. USE Types, IntercomAssumption
<1>1. /\ msgs' \in Seq(Row) /\ Len(msgs') = Len(msgs) + 1 /\ Len(msgs') <= MaxMsg
      /\ DOMAIN msgs' = DOMAIN msgs \cup {Len(msgs) + 1} /\ Len(msgs) + 1 \notin DOMAIN msgs
      /\ \A m \in DOMAIN msgs : msgs'[m] = msgs[m]
      /\ msgs'[Len(msgs) + 1] = r
  BY DEF Adds
<1>2. \A m \in DOMAIN msgs' : Tidy(msgs'[m])
  BY <1>1 DEF New
<1>3. RowInv'
  <2>. SUFFICES ASSUME NEW m \in DOMAIN msgs'
                PROVE  /\ msgs'[m].kind = "request" => msgs'[m].from \in Agent
                       /\ msgs'[m].replyTo <= Len(msgs')
    BY DEF RowInv
  <2>1. Len(msgs) \in Nat /\ msgs'[m] \in Row
    BY <1>1
  <2>2. CASE m \in DOMAIN msgs
    <3>1. msgs[m] \in Row /\ msgs'[m] = msgs[m]
      BY <1>1, <2>2
    <3>2. msgs[m].replyTo <= Len(msgs) /\ (msgs[m].kind = "request" => msgs[m].from \in Agent)
      BY <2>2 DEF TablesInv, RowInv
    <3>3. msgs[m].replyTo \in Int
      BY <3>1 DEF Row
    <3>. QED BY <1>1, <2>1, <3>1, <3>2, <3>3
  <2>3. CASE m = Len(msgs) + 1
    <3>1. r.replyTo <= Len(msgs) /\ (r.kind = "request" => r.from \in Agent) /\ r \in Row
      BY DEF New
    <3>2. r.replyTo \in Int
      BY <3>1 DEF Row
    <3>. QED BY <1>1, <2>1, <2>3, <3>1, <3>2
  <2>. QED BY <1>1, <2>2, <2>3
<1>. QED BY <1>1, <1>2, <1>3

\* A message keeps the tables in order.
LEMMA SendTables ==
  ASSUME TypeOK, TablesInv, NEW r, Sends(r)
  PROVE  TablesOK' /\ TablesInv'
<1>. USE Types, IntercomAssumption
<1>1. New(r) /\ Adds(msgs', r) /\ escs' = escs
  BY DEF Sends
<1>2. /\ DOMAIN msgs' = DOMAIN msgs \cup {Len(msgs) + 1} /\ Len(msgs) + 1 \notin DOMAIN msgs
      /\ \A m \in DOMAIN msgs : msgs'[m] = msgs[m]
      /\ msgs'[Len(msgs) + 1] = r
  BY <1>1 DEF Adds
<1>3. TablesOK'
  BY <1>1, <1>2, AddRows DEF TablesOK
<1>4. AskInv'
  BY <1>1, <1>2 DEF TablesInv, AskInv
<1>5. LapseInv'
  <2>1. \A m \in DOMAIN msgs : PastAsk(m)' <=> PastAsk(m)
    BY <1>1 DEF PastAsk, PeerAsk
  <2>2. ~msgs'[Len(msgs) + 1].overdue
    BY <1>1, <1>2 DEF New
  <2>. QED BY <1>2, <2>1, <2>2 DEF TablesInv, LapseInv
<1>6. OpenAskIsUnanswered'
  <2>. SUFFICES ASSUME NEW e \in DOMAIN escs, PeerAsk(e)
                PROVE  ~Replied(escs[e].ask)' /\ msgs'[escs[e].ask].state \notin {"expired", "purged"}
    BY <1>1 DEF OpenAskIsUnanswered, PeerAsk, Replied
  <2>1. escs[e].to \in Agent
    <3>1. escs[e] \in Question
      OBVIOUS
    <3>. QED BY <3>1 DEF PeerAsk, Question
  <2>2. escs[e].ask \in DOMAIN msgs
    BY <2>1
  <2>3. ~Replied(escs[e].ask) /\ msgs[escs[e].ask].state \notin {"expired", "purged"}
    BY DEF TablesInv, OpenAskIsUnanswered
  <2>4. ~(r.kind = "reply" /\ r.replyTo = escs[e].ask)
    BY DEF Sends
  <2>. QED BY <1>1, <1>2, <2>2, <2>3, <2>4 DEF Replied
<1>. QED BY <1>1, <1>3, <1>4, <1>5, <1>6, AddRows DEF TablesInv

\* An answer keeps the tables in order: no other question has the same request.
LEMMA AnswerTables ==
  ASSUME TypeOK, TablesInv, NEW r, NEW e \in DOMAIN escs, Answers(r, e)
  PROVE  TablesOK' /\ TablesInv'
<1>. USE Types, IntercomAssumption
<1>1. New(r) /\ Adds(msgs', r) /\ escs' = Resolved(e, Len(msgs) + 1) /\ r.to = escs[e].from
  BY DEF Answers
<1>2. /\ DOMAIN msgs' = DOMAIN msgs \cup {Len(msgs) + 1} /\ Len(msgs) + 1 \notin DOMAIN msgs
      /\ \A m \in DOMAIN msgs : msgs'[m] = msgs[m]
      /\ msgs'[Len(msgs) + 1] = r /\ Len(msgs) + 1 <= MaxMsg /\ Len(msgs) \in Nat
  BY <1>1 DEF Adds
<1>3. /\ escs' \in Seq(Question) /\ Len(escs') = Len(escs) /\ DOMAIN escs' = DOMAIN escs
      /\ \A k \in DOMAIN escs \ {e} : escs'[k] = escs[k]
      /\ escs'[e].from = escs[e].from /\ escs'[e].to = escs[e].to /\ escs'[e].ask = escs[e].ask
      /\ escs'[e].status = "resolved" /\ escs'[e].reply = Len(msgs) + 1
  <2>1. Len(msgs) + 1 \in 0..MaxMsg
    BY <1>2
  <2>. QED BY <1>1, <2>1, ResolvedRows
<1>4. ASSUME NEW k \in DOMAIN escs
      PROVE  /\ escs'[k].from = escs[k].from /\ escs'[k].to = escs[k].to /\ escs'[k].ask = escs[k].ask
             /\ PeerAsk(k)' => PeerAsk(k) /\ k # e /\ escs'[k].overdue = escs[k].overdue
  BY <1>3 DEF PeerAsk
<1>5. TablesOK'
  <2>1. ASSUME NEW k \in DOMAIN escs
        PROVE  /\ escs'[k].to \in Agent => escs'[k].ask \in DOMAIN msgs'
               /\ escs'[k].status = "resolved" =>
                    escs'[k].reply \in DOMAIN msgs' /\ msgs'[escs'[k].reply].to = escs'[k].from
    <3>1. CASE k = e
      BY <1>1, <1>2, <1>3, <3>1
    <3>2. CASE k # e
      BY <1>2, <1>3, <3>2
    <3>. QED BY <3>1, <3>2
  <2>. QED BY <1>1, <1>3, <2>1, AddRows DEF TablesOK
<1>6. AskInv'
  BY <1>2, <1>3, <1>4 DEF TablesInv, AskInv
<1>7. LapseInv'
  <2>. SUFFICES ASSUME NEW m \in DOMAIN msgs', msgs'[m].overdue,
                       NEW k \in DOMAIN escs, PeerAsk(k)', escs'[k].ask = m
                PROVE  escs'[k].overdue
    BY <1>3 DEF LapseInv, PastAsk
  <2>1. m \in DOMAIN msgs /\ msgs[m].overdue
    BY <1>1, <1>2 DEF New
  <2>2. PastAsk(m)
    BY <2>1 DEF TablesInv, LapseInv
  <2>. QED BY <1>4, <2>2 DEF PastAsk
<1>8. OpenAskIsUnanswered'
  <2>. SUFFICES ASSUME NEW k \in DOMAIN escs, PeerAsk(k)'
                PROVE  ~Replied(escs[k].ask)' /\ msgs'[escs[k].ask].state \notin {"expired", "purged"}
    BY <1>3, <1>4 DEF OpenAskIsUnanswered, Replied
  <2>0. PeerAsk(k) /\ k # e /\ escs'[k].ask = escs[k].ask
    BY <1>4
  <2>1. escs[k].to \in Agent
    <3>1. escs[k] \in Question
      OBVIOUS
    <3>. QED BY <2>0, <3>1 DEF PeerAsk, Question
  <2>2. escs[k].ask \in DOMAIN msgs /\ msgs[escs[k].ask].esc = k
    BY <2>1 DEF TablesInv, AskInv
  <2>3. ~Replied(escs[k].ask) /\ msgs[escs[k].ask].state \notin {"expired", "purged"}
    BY <2>0 DEF TablesInv, OpenAskIsUnanswered
  <2>4. ~(r.kind = "reply" /\ r.replyTo = escs[k].ask)
    <3>. SUFFICES ASSUME r.kind = "reply", r.replyTo = escs[k].ask PROVE FALSE
      OBVIOUS
    <3>1. escs[e].ask = escs[k].ask /\ escs[e].to \in Agent
      BY DEF Answers
    <3>2. msgs[escs[e].ask].esc = e
      BY <3>1 DEF TablesInv, AskInv
    <3>. QED BY <2>0, <2>2, <3>1, <3>2
  <2>. QED BY <1>2, <2>0, <2>2, <2>3, <2>4 DEF Replied
<1>. QED BY <1>1, <1>5, <1>6, <1>7, <1>8, AddRows DEF TablesInv

\* A question to a peer keeps the tables in order.
LEMMA AskTables ==
  ASSUME TypeOK, TablesInv, NEW r, NEW a, NEW to, Asks(r, a, to)
  PROVE  TablesOK' /\ TablesInv'
<1>. USE Types, IntercomAssumption
<1>. DEFINE n == Len(msgs) + 1
            x == Len(escs) + 1
<1>1. /\ New(r) /\ Adds(msgs', r) /\ a \in Agent /\ to \in Agent /\ Len(escs) < MaxEsc
      /\ r.kind = "request" /\ r.from = a /\ r.to = to /\ r.esc = x
      /\ escs' = Append(escs, Escalation(a, to, n))
  BY DEF Asks
<1>2. /\ DOMAIN msgs' = DOMAIN msgs \cup {n} /\ n \notin DOMAIN msgs
      /\ \A m \in DOMAIN msgs : msgs'[m] = msgs[m]
      /\ msgs'[n] = r /\ n <= MaxMsg /\ Len(msgs) \in Nat
  BY <1>1 DEF Adds
<1>3. PICK q : q = Escalation(a, to, n)
  OBVIOUS
<1>4. /\ escs' \in Seq(Question) /\ Len(escs') <= MaxEsc
      /\ DOMAIN escs' = DOMAIN escs \cup {x} /\ x \notin DOMAIN escs
      /\ \A e \in DOMAIN escs : escs'[e] = escs[e]
      /\ escs'[x] = q
      /\ q.from = a /\ q.to = to /\ q.ask = n /\ q.status = "open"
  <2>1. n \in 0..MaxMsg
    BY <1>2
  <2>. QED BY <1>1, <1>3, <2>1, AskedRow
<1>. HIDE DEF n, x
<1>5. TablesOK'
  <2>1. ASSUME NEW e \in DOMAIN escs'
        PROVE  /\ escs'[e].to \in Agent => escs'[e].ask \in DOMAIN msgs'
               /\ escs'[e].status = "resolved" =>
                    escs'[e].reply \in DOMAIN msgs' /\ msgs'[escs'[e].reply].to = escs'[e].from
    <3>1. CASE e = x
      BY <1>2, <1>4, <3>1
    <3>2. CASE e \in DOMAIN escs
      BY <1>2, <1>4, <3>2
    <3>. QED BY <1>4, <3>1, <3>2
  <2>. QED BY <1>1, <1>4, <2>1, AddRows DEF TablesOK
<1>6. AskInv'
  <2>. SUFFICES ASSUME NEW e \in DOMAIN escs', escs'[e].to \in Agent
                PROVE  /\ escs'[e].ask \in DOMAIN msgs'
                       /\ msgs'[escs'[e].ask].kind = "request" /\ msgs'[escs'[e].ask].esc = e
                       /\ msgs'[escs'[e].ask].from = escs'[e].from /\ msgs'[escs'[e].ask].to = escs'[e].to
    BY DEF AskInv
  <2>1. CASE e = x
    BY <1>1, <1>2, <1>4, <2>1
  <2>2. CASE e \in DOMAIN escs
    BY <1>2, <1>4, <2>2 DEF TablesInv, AskInv
  <2>. QED BY <1>4, <2>1, <2>2
<1>7. LapseInv'
  <2>. SUFFICES ASSUME NEW m \in DOMAIN msgs', msgs'[m].overdue,
                       NEW e \in DOMAIN escs', PeerAsk(e)', escs'[e].ask = m
                PROVE  escs'[e].overdue
    BY DEF LapseInv, PastAsk
  <2>1. m \in DOMAIN msgs /\ m # n /\ msgs[m].overdue
    BY <1>1, <1>2 DEF New
  <2>2. e \in DOMAIN escs /\ escs'[e] = escs[e]
    BY <1>4, <2>1
  <2>3. PastAsk(m) /\ PeerAsk(e)
    BY <2>1, <2>2 DEF TablesInv, LapseInv, PeerAsk
  <2>. QED BY <2>2, <2>3 DEF PastAsk
<1>8. OpenAskIsUnanswered'
  <2>. SUFFICES ASSUME NEW e \in DOMAIN escs', PeerAsk(e)', NEW m, m = escs'[e].ask
                PROVE  /\ \A k \in DOMAIN msgs' : ~(msgs'[k].kind = "reply" /\ msgs'[k].replyTo = m /\ msgs'[k].state # "purged")
                       /\ msgs'[m].state \notin {"expired", "purged"}
    BY DEF OpenAskIsUnanswered, Replied
  <2>1. CASE e = x
    <3>1. m = n /\ msgs'[m].state \notin {"expired", "purged"}
      BY <1>1, <1>2, <1>4, <2>1 DEF New
    <3>2. \A k \in DOMAIN msgs : msgs[k].replyTo # n
      <4>1. \A k \in DOMAIN msgs : msgs[k].replyTo <= Len(msgs) /\ msgs[k] \in Row
        BY DEF TablesInv, RowInv
      <4>2. \A k \in DOMAIN msgs : msgs[k].replyTo \in Int
        BY <4>1 DEF Row
      <4>. QED BY <1>2, <4>1, <4>2 DEF n
    <3>. QED BY <1>1, <1>2, <3>1, <3>2
  <2>2. CASE e \in DOMAIN escs
    <3>1. PeerAsk(e) /\ m = escs[e].ask /\ escs[e] \in Question
      BY <1>4, <2>2 DEF PeerAsk
    <3>2. m \in DOMAIN msgs
      BY <2>2, <3>1 DEF PeerAsk, Question
    <3>3. ~Replied(m) /\ msgs[m].state \notin {"expired", "purged"}
      BY <2>2, <3>1 DEF TablesInv, OpenAskIsUnanswered
    <3>. QED BY <1>1, <1>2, <3>2, <3>3 DEF Replied
  <2>. QED BY <1>4, <2>1, <2>2
<1>. QED BY <1>1, <1>5, <1>6, <1>7, <1>8, AddRows DEF TablesInv

\* A question to the human keeps the tables in order.
LEMMA AskHumanTables ==
  ASSUME TypeOK, TablesInv, NEW a \in Agent, UNCHANGED msgs, Len(escs) < MaxEsc,
         escs' = Append(escs, Escalation(a, Human, 0))
  PROVE  TablesOK' /\ TablesInv'
<1>. USE Types, IntercomAssumption
<1>. DEFINE x == Len(escs) + 1
<1>1. PICK q : q = Escalation(a, Human, 0)
  OBVIOUS
<1>2. /\ escs' \in Seq(Question) /\ Len(escs') <= MaxEsc
      /\ DOMAIN escs' = DOMAIN escs \cup {x} /\ x \notin DOMAIN escs
      /\ \A e \in DOMAIN escs : escs'[e] = escs[e]
      /\ escs'[x] = q
      /\ q.to = Human /\ q.status = "open"
  <2>1. 0 \in 0..MaxMsg
    OBVIOUS
  <2>. QED BY <1>1, <2>1, AskedRow
<1>. HIDE DEF x
<1>3. TablesOK'
  BY <1>2 DEF TablesOK
<1>4. AskInv' /\ RowInv'
  BY <1>2 DEF TablesInv, AskInv, RowInv
<1>5. \A e \in DOMAIN escs' : PeerAsk(e)' => e \in DOMAIN escs /\ PeerAsk(e) /\ escs'[e] = escs[e]
  BY <1>2 DEF PeerAsk
<1>6. LapseInv'
  <2>. SUFFICES ASSUME NEW m \in DOMAIN msgs, msgs[m].overdue,
                       NEW e \in DOMAIN escs', PeerAsk(e)', escs'[e].ask = m
                PROVE  escs'[e].overdue
    BY DEF LapseInv, PastAsk
  <2>. QED BY <1>5 DEF TablesInv, LapseInv, PastAsk
<1>7. OpenAskIsUnanswered'
  <2>1. \A m : Replied(m)' <=> Replied(m)
    BY DEF Replied
  <2>. SUFFICES ASSUME NEW e \in DOMAIN escs', PeerAsk(e)'
                PROVE  ~Replied(escs[e].ask) /\ msgs[escs[e].ask].state \notin {"expired", "purged"}
    BY <1>5 DEF OpenAskIsUnanswered, Replied
  <2>. QED BY <1>5 DEF TablesInv, OpenAskIsUnanswered
<1>. QED BY <1>3, <1>4, <1>6, <1>7 DEF TablesInv

\* Every step keeps the tables in order.
LEMMA StepTablesInv == TypeOK /\ TablesInv /\ [Next]_vars => TablesOK' /\ TablesInv'
<1>. SUFFICES ASSUME TypeOK, TablesInv, [Next]_vars PROVE TablesOK' /\ TablesInv'
  OBVIOUS
<1>1. \/ Turns
      \/ \E r \in Row : Sends(r)
      \/ \E r \in Row, e \in DOMAIN escs : Answers(r, e)
      \/ \E r \in Row, a, to \in Agent : Asks(r, a, to)
      \/ \E a \in Agent : UNCHANGED msgs /\ Len(escs) < MaxEsc /\ escs' = Append(escs, Escalation(a, Human, 0))
  BY StepTables DEF TablesInv
<1>. QED BY <1>1, TurnTables, SendTables, AnswerTables, AskTables, AskHumanTables
-----------------------------------------------------------------------------
(* The clients.                                                              *)

\* What a prompt hook and a tool call are.
HookType == [stage : {"idle", "peeked", "claimed", "printed"}, ids : SUBSET (1..MaxMsg), mine : BOOLEAN]
ToolType == [stage : {"idle", "pulled", "polled"}, ids : SUBSET (1..MaxMsg), mine : {FALSE}]

\* The clients' share of TypeOK.
ClientsOK ==
  /\ alive \subseteq Agent
  /\ hook \in [Agent -> HookType] /\ tool \in [Agent -> ToolType]
  /\ seen \subseteq DOMAIN msgs

\* TypeOK is about the tables and about the clients.
LEMMA TypesSplit == TypeOK <=> TablesOK /\ ClientsOK
  BY Types DEF TablesOK, ClientsOK, HookType, ToolType

\* No step takes a row away or gives it to somebody else.
LEMMA Grows ==
  ASSUME IInv, [Next]_vars
  PROVE  /\ DOMAIN msgs \subseteq DOMAIN msgs'
         /\ \A m \in DOMAIN msgs : msgs'[m].to = msgs[m].to
         /\ \A m \in DOMAIN msgs' \ DOMAIN msgs : msgs'[m].batch = "none"
<1>1. \/ Turns
      \/ \E r \in Row : Sends(r)
      \/ \E r \in Row, e \in DOMAIN escs : Answers(r, e)
      \/ \E r \in Row, a, to \in Agent : Asks(r, a, to)
      \/ \E a \in Agent : UNCHANGED msgs /\ Len(escs) < MaxEsc /\ escs' = Append(escs, Escalation(a, Human, 0))
  BY StepTables DEF IInv
<1>2. ASSUME NEW r, New(r), Adds(msgs', r)
      PROVE  /\ DOMAIN msgs \subseteq DOMAIN msgs'
             /\ \A m \in DOMAIN msgs : msgs'[m].to = msgs[m].to
             /\ \A m \in DOMAIN msgs' \ DOMAIN msgs : msgs'[m].batch = "none"
  BY <1>2 DEF New, Adds
<1>3. CASE Turns
  BY <1>3 DEF Turns, Rewrites, Kept
<1>. QED BY <1>1, <1>2, <1>3 DEF Sends, Answers, Asks

\* What the clients of the next state must be.
LEMMA Clients ==
  ASSUME IInv, [Next]_vars,
         alive' \subseteq Agent, hook' \in [Agent -> HookType], tool' \in [Agent -> ToolType],
         seen' \subseteq DOMAIN msgs,
         \A a \in Agent : \A m \in hook'[a].ids \cup tool'[a].ids : m \in DOMAIN msgs /\ msgs[m].to = a,
         \A m \in DOMAIN msgs : Batched(m)'
  PROVE  ClientsOK' /\ HandInv' /\ BatchInv'
<1>1. ClientsOK'
  BY Grows DEF ClientsOK
<1>2. HandInv'
  BY Grows DEF HandInv
<1>3. BatchInv'
  <2>. SUFFICES ASSUME NEW m \in DOMAIN msgs' PROVE Batched(m)'
    BY DEF BatchInv
  <2>1. CASE m \in DOMAIN msgs
    BY <2>1
  <2>2. CASE m \notin DOMAIN msgs
    BY <2>2, Grows DEF Batched
  <2>. QED BY <2>1, <2>2
<1>. QED BY <1>1, <1>2, <1>3

\* Nothing the hooks wait for is touched.
LEMMA HooksWait ==
  ASSUME IInv, [Next]_vars, UNCHANGED hook, alive' \subseteq Agent, tool' \in [Agent -> ToolType],
         \A a \in Agent : \A m \in tool'[a].ids : m \in DOMAIN msgs /\ msgs[m].to = a,
         seen \subseteq seen', seen' \subseteq DOMAIN msgs,
         \A m \in DOMAIN msgs :
           msgs'[m].batch = "none" \/ (msgs'[m].batch = msgs[m].batch /\ msgs'[m].mine = msgs[m].mine)
  PROVE  ClientsOK' /\ HandInv' /\ BatchInv'
<1>1. ClientsOK /\ HandInv /\ BatchInv
  BY TypesSplit DEF IInv
<1>2. ASSUME NEW m \in DOMAIN msgs PROVE Batched(m)'
  <2>1. Batched(m) /\ msgs'[m].to = msgs[m].to
    BY <1>1, Grows DEF BatchInv
  <2>. QED BY <2>1 DEF Batched
<1>3. hook' \in [Agent -> HookType]
  BY <1>1 DEF ClientsOK
<1>4. \A a \in Agent : \A m \in hook'[a].ids \cup tool'[a].ids : m \in DOMAIN msgs /\ msgs[m].to = a
  BY <1>1 DEF HandInv
<1>. QED BY <1>2, <1>3, <1>4, Clients

\* The rows a tool call may be handed are the agent's.
LEMMA OldestIn == \A S : \A P \in Oldest(S) : P \subseteq S
  BY DEF Oldest

\* A row is handed out by its number.
LEMMA InRange == TypeOK => \A m \in DOMAIN msgs : m \in 1..MaxMsg
<1>. SUFFICES ASSUME TypeOK, NEW m \in DOMAIN msgs PROVE m \in 1..MaxMsg
  OBVIOUS
<1>1. Len(msgs) \in Nat /\ DOMAIN msgs = 1..Len(msgs) /\ Len(msgs) <= MaxMsg
  BY Types
<1>. QED BY <1>1, IntercomAssumption

\* The tools' steps keep the clients in order.
LEMMA ToolClients ==
  ASSUME IInv, [Next]_vars, NEW a \in Agent, Tool(a)
  PROVE  ClientsOK' /\ HandInv' /\ BatchInv'
<1>0. TypeOK /\ ClientsOK /\ HandInv /\ BatchInv
  BY TypesSplit DEF IInv
<1>1. /\ alive \subseteq Agent /\ tool \in [Agent -> ToolType] /\ seen \subseteq DOMAIN msgs
      /\ \A b \in Agent : \A m \in tool[b].ids : m \in DOMAIN msgs /\ msgs[m].to = b
      /\ \A m \in DOMAIN msgs : msgs[m] \in Row
  BY <1>0, Types DEF ClientsOK, HandInv
<1>2. CASE Pull(a)
  <2>1. PICK ids \in Oldest(Inbox(a)) :
          /\ msgs' = Claimed(ids, TRUE, "none")
          /\ tool' = [tool EXCEPT ![a] = [Idle EXCEPT !.stage = "pulled", !.ids = ids]]
    BY <1>2 DEF Pull
  <2>2. ids \subseteq Inbox(a)
    BY OldestIn
  <2>3. \A m \in ids : m \in DOMAIN msgs /\ msgs[m].to = a /\ m \in 1..MaxMsg
    BY <1>0, <2>2, InRange DEF Inbox
  <2>4. tool' \in [Agent -> ToolType] /\ \A b \in Agent : tool'[b].ids = IF b = a THEN ids ELSE tool[b].ids
    <3>1. PICK x : x = [Idle EXCEPT !.stage = "pulled", !.ids = ids]
      OBVIOUS
    <3>2. x \in ToolType /\ x.ids = ids
      BY <2>3, <3>1 DEF Idle, ToolType
    <3>. QED BY <1>1, <2>1, <3>1, <3>2
  <2>5. \A b \in Agent : \A m \in tool'[b].ids : m \in DOMAIN msgs /\ msgs[m].to = b
    BY <1>1, <2>3, <2>4
  <2>6. \A m \in DOMAIN msgs : msgs'[m].batch = "none" \/ msgs'[m] = msgs[m]
    <3>. SUFFICES ASSUME NEW m \in DOMAIN msgs PROVE msgs'[m].batch = "none" \/ msgs'[m] = msgs[m]
      OBVIOUS
    <3>1. \/ msgs'[m] = [msgs[m] EXCEPT !.state = "delivered", !.mine = TRUE, !.batch = "none", !.due = FALSE]
          \/ msgs'[m] = msgs[m]
      BY <1>0, <2>1, ClaimedRows
    <3>. QED BY <1>1, <3>1 DEF Row
  <2>7. UNCHANGED <<alive, hook, seen>>
    BY <1>2 DEF Pull
  <2>. QED BY <1>1, <2>4, <2>5, <2>6, <2>7, HooksWait
<1>3. CASE InboxAck(a)
  <2>1. PICK m : msgs' = Acked({m})
    BY <1>3 DEF InboxAck
  <2>2. \A k \in DOMAIN msgs : msgs'[k].batch = "none" \/ msgs'[k] = msgs[k]
    BY <1>0, <2>1, AckedRows, SettledRow
  <2>3. UNCHANGED <<alive, hook, tool, seen>>
    BY <1>3 DEF InboxAck
  <2>. QED BY <1>1, <2>2, <2>3, HooksWait
<1>4. CASE Return(a) \/ ToolDies(a)
  <2>1. /\ tool' = [tool EXCEPT ![a] = Idle] /\ UNCHANGED <<msgs, alive, hook>>
        /\ seen' = seen \/ seen' = seen \cup tool[a].ids
    BY <1>4 DEF Return, ToolDies
  <2>2. Idle \in ToolType /\ Idle.ids = {}
    BY DEF Idle, ToolType
  <2>3. tool' \in [Agent -> ToolType] /\ \A b \in Agent : tool'[b].ids = IF b = a THEN {} ELSE tool[b].ids
    BY <1>1, <2>1, <2>2
  <2>4. \A b \in Agent : \A m \in tool'[b].ids : m \in DOMAIN msgs /\ msgs[m].to = b
    BY <1>1, <2>3
  <2>5. seen \subseteq seen' /\ seen' \subseteq DOMAIN msgs
    BY <1>1, <2>1
  <2>. QED BY <1>1, <2>1, <2>3, <2>4, <2>5, HooksWait
<1>. QED BY <1>2, <1>3, <1>4 DEF Tool

\* The prompt hook's steps keep the clients in order: what it is about to
\* confirm is what it printed.
LEMMA HookClients ==
  ASSUME IInv, [Next]_vars, NEW a \in Agent, Hook(a)
  PROVE  ClientsOK' /\ HandInv' /\ BatchInv'
<1>0. TypeOK /\ ClientsOK /\ HandInv /\ BatchInv
  BY TypesSplit DEF IInv
<1>1. /\ alive \subseteq Agent /\ hook \in [Agent -> HookType] /\ tool \in [Agent -> ToolType] /\ seen \subseteq DOMAIN msgs
      /\ \A b \in Agent : \A m \in hook[b].ids \cup tool[b].ids : m \in DOMAIN msgs /\ msgs[m].to = b
      /\ \A m \in DOMAIN msgs : Batched(m) /\ msgs[m] \in Row /\ msgs'[m].to = msgs[m].to
  BY <1>0, Types, Grows DEF ClientsOK, HandInv, BatchInv
<1>2. ASSUME NEW x \in HookType, hook' = [hook EXCEPT ![a] = x],
             \A m \in x.ids : m \in DOMAIN msgs /\ msgs[m].to = a
      PROVE  /\ hook' \in [Agent -> HookType]
             /\ \A b \in Agent : hook'[b] = IF b = a THEN x ELSE hook[b]
             /\ \A b \in Agent : \A m \in hook'[b].ids \cup tool[b].ids : m \in DOMAIN msgs /\ msgs[m].to = b
  BY <1>1, <1>2
<1>3. Idle \in HookType /\ Idle.ids = {} /\ Idle.stage = "idle"
  BY DEF Idle, HookType
<1>4. CASE Peek(a)
  <2>1. PICK ids \in Oldest(Inbox(a)) :
          hook' = [hook EXCEPT ![a] = [stage |-> "peeked", ids |-> ids, mine |-> TRUE]]
    BY <1>4 DEF Peek
  <2>2. UNCHANGED <<msgs, alive, tool, seen>> /\ hook[a].stage = "idle"
    BY <1>4 DEF Peek
  <2>3. \A m \in ids : m \in DOMAIN msgs /\ msgs[m].to = a /\ m \in 1..MaxMsg
    BY <1>0, OldestIn, InRange DEF Inbox
  <2>4. PICK x : x = [stage |-> "peeked", ids |-> ids, mine |-> TRUE]
    OBVIOUS
  <2>5. x \in HookType /\ x.ids = ids
    BY <2>3, <2>4 DEF HookType
  <2>6. /\ hook' \in [Agent -> HookType]
        /\ \A b \in Agent : hook'[b] = IF b = a THEN x ELSE hook[b]
        /\ \A b \in Agent : \A m \in hook'[b].ids \cup tool[b].ids : m \in DOMAIN msgs /\ msgs[m].to = b
    BY <1>2, <2>1, <2>3, <2>4, <2>5
  <2>7. \A m \in DOMAIN msgs : Batched(m)'
    <3>. SUFFICES ASSUME NEW m \in DOMAIN msgs PROVE Batched(m)'
      OBVIOUS
    <3>1. Batched(m) /\ msgs[m].to \in Agent
      BY <1>1 DEF Row
    <3>2. CASE msgs[m].to = a
      <4>1. msgs[m].batch # "pending"
        BY <2>2, <3>1, <3>2 DEF Batched
      <4>. QED BY <2>2, <3>1, <4>1 DEF Batched
    <3>3. CASE msgs[m].to # a
      <4>1. hook'[msgs[m].to] = hook[msgs[m].to]
        BY <2>6, <3>1, <3>3
      <4>. QED BY <2>2, <3>1, <4>1 DEF Batched
    <3>. QED BY <3>2, <3>3
  <2>. QED BY <1>1, <2>2, <2>6, <2>7, Clients
<1>5. CASE Claim(a)
  <2>. DEFINE ids == hook[a].ids
  <2>1. PICK b \in {"none", "pending"} :
          /\ b = (IF hook[a].mine THEN "pending" ELSE "none")
          /\ msgs' = Claimed(ids, hook[a].mine, b)
    BY <1>5 DEF Claim
  <2>2. PICK got : got = {m \in ids : msgs'[m] # msgs[m]}
    OBVIOUS
  <2>3. /\ hook' = [hook EXCEPT ![a] = IF got = {} \/ ~@.mine THEN Idle
                                       ELSE [@ EXCEPT !.stage = "claimed", !.ids = got]]
        /\ UNCHANGED <<alive, tool, seen>> /\ hook[a].stage = "peeked"
    BY <1>5, <2>2 DEF Claim
  <2>4. PICK x : x = IF got = {} \/ ~hook[a].mine THEN Idle ELSE [hook[a] EXCEPT !.stage = "claimed", !.ids = got]
    OBVIOUS
  <2>5. hook[a] \in HookType /\ hook[a].mine \in BOOLEAN /\ ids \subseteq 1..MaxMsg /\ got \subseteq ids
    BY <1>1, <2>2 DEF HookType
  <2>6. /\ x \in HookType /\ x.ids \subseteq got
        /\ got # {} /\ hook[a].mine => x.stage = "claimed" /\ x.ids = got
    BY <1>3, <2>4, <2>5 DEF HookType
  <2>7. \A m \in x.ids : m \in DOMAIN msgs /\ msgs[m].to = a
    BY <1>1, <2>5, <2>6
  <2>8. /\ hook' \in [Agent -> HookType]
        /\ \A c \in Agent : hook'[c] = IF c = a THEN x ELSE hook[c]
        /\ \A c \in Agent : \A m \in hook'[c].ids \cup tool[c].ids : m \in DOMAIN msgs /\ msgs[m].to = c
    BY <1>2, <2>3, <2>4, <2>6, <2>7
  <2>9. \A m \in DOMAIN msgs :
          IF m \in ids /\ Deliverable(m)
          THEN /\ msgs'[m] = [msgs[m] EXCEPT !.state = "delivered", !.mine = hook[a].mine, !.batch = b, !.due = FALSE]
               /\ msgs'[m] # msgs[m]
          ELSE msgs'[m] = msgs[m]
    <3>0. PICK mine \in BOOLEAN : mine = hook[a].mine
      BY <2>5
    <3>1. PICK i : i = ids /\ msgs' = Claimed(i, mine, b)
      BY <2>1, <3>0
    <3>. SUFFICES ASSUME NEW m \in DOMAIN msgs
                  PROVE  IF m \in i /\ Deliverable(m)
                         THEN /\ msgs'[m] = [msgs[m] EXCEPT !.state = "delivered", !.mine = mine, !.batch = b, !.due = FALSE]
                              /\ msgs'[m] # msgs[m]
                         ELSE msgs'[m] = msgs[m]
      BY <3>0, <3>1
    <3>2. IF m \in i /\ Deliverable(m)
          THEN /\ Claimed(i, mine, b)[m] =
                    [msgs[m] EXCEPT !.state = "delivered", !.mine = mine, !.batch = b, !.due = FALSE]
               /\ Claimed(i, mine, b)[m] # msgs[m]
          ELSE Claimed(i, mine, b)[m] = msgs[m]
      BY <1>0, ClaimedRows
    <3>. QED BY <3>1, <3>2
  <2>10. \A m \in DOMAIN msgs : Batched(m)'
    <3>. SUFFICES ASSUME NEW m \in DOMAIN msgs PROVE Batched(m)'
      OBVIOUS
    <3>1. Batched(m) /\ msgs[m] \in Row /\ msgs[m].to \in Agent /\ msgs'[m].to = msgs[m].to
      BY <1>1 DEF Row
    <3>2. CASE m \in ids /\ Deliverable(m)
      <4>1. msgs[m].to = a
        BY <1>1, <3>2
      <4>2. m \in got /\ msgs'[m].batch = b /\ msgs'[m].mine = hook[a].mine
        BY <2>2, <2>9, <3>1, <3>2 DEF Row
      <4>3. CASE hook[a].mine
        <5>1. hook'[a].stage = "claimed" /\ m \in hook'[a].ids
          BY <2>6, <2>8, <4>2, <4>3
        <5>. QED BY <2>1, <3>1, <4>1, <4>2, <4>3, <5>1 DEF Batched
      <4>4. CASE ~hook[a].mine
        BY <2>1, <4>2, <4>4 DEF Batched
      <4>. QED BY <4>3, <4>4
    <3>3. CASE ~(m \in ids /\ Deliverable(m))
      <4>1. msgs'[m] = msgs[m]
        BY <2>9, <3>3
      <4>2. CASE msgs[m].to = a
        <5>1. msgs[m].batch # "pending"
          BY <2>3, <3>1, <4>2 DEF Batched
        <5>. QED BY <2>3, <3>1, <4>1, <5>1 DEF Batched
      <4>3. CASE msgs[m].to # a
        <5>1. hook'[msgs[m].to] = hook[msgs[m].to]
          BY <2>8, <3>1, <4>3
        <5>. QED BY <2>3, <3>1, <4>1, <5>1 DEF Batched
      <4>. QED BY <4>2, <4>3
    <3>. QED BY <3>2, <3>3
  <2>. QED BY <1>1, <2>3, <2>8, <2>10, Clients
<1>6. CASE Write(a)
  <2>1. /\ hook[a].stage = "claimed" /\ seen' = seen \cup hook[a].ids
        /\ hook' = [hook EXCEPT ![a].stage = "printed"] /\ UNCHANGED <<msgs, alive, tool>>
    BY <1>6 DEF Write
  <2>2. PICK x : x = [hook[a] EXCEPT !.stage = "printed"]
    OBVIOUS
  <2>3. x \in HookType /\ x.stage = "printed" /\ x.ids = hook[a].ids
    <3>1. hook[a] \in HookType
      BY <1>1
    <3>. QED BY <2>2, <3>1 DEF HookType
  <2>4. hook' = [hook EXCEPT ![a] = x] /\ \A m \in x.ids : m \in DOMAIN msgs /\ msgs[m].to = a
    BY <1>1, <2>1, <2>2, <2>3
  <2>5. /\ hook' \in [Agent -> HookType]
        /\ \A b \in Agent : hook'[b] = IF b = a THEN x ELSE hook[b]
        /\ \A b \in Agent : \A m \in hook'[b].ids \cup tool[b].ids : m \in DOMAIN msgs /\ msgs[m].to = b
    BY <1>2, <2>3, <2>4
  <2>6. seen' \subseteq DOMAIN msgs
    BY <1>1, <2>1
  <2>7. \A m \in DOMAIN msgs : Batched(m)'
    <3>. SUFFICES ASSUME NEW m \in DOMAIN msgs PROVE Batched(m)'
      OBVIOUS
    <3>1. Batched(m) /\ msgs[m].to \in Agent
      BY <1>1 DEF Row
    <3>2. CASE msgs[m].to = a
      <4>1. hook'[a] = x
        BY <2>5
      <4>. QED BY <2>1, <2>3, <3>1, <3>2, <4>1 DEF Batched
    <3>3. CASE msgs[m].to # a
      <4>1. hook'[msgs[m].to] = hook[msgs[m].to]
        BY <2>5, <3>1, <3>3
      <4>. QED BY <2>1, <3>1, <4>1 DEF Batched
    <3>. QED BY <3>2, <3>3
  <2>. QED BY <1>1, <2>1, <2>5, <2>6, <2>7, Clients
<1>7. ASSUME hook' = [hook EXCEPT ![a] = Idle], UNCHANGED <<alive, tool, seen>>,
             \A m \in DOMAIN msgs :
               \/ msgs'[m] = msgs[m] /\ ~(msgs[m].to = a /\ msgs[m].batch = "pending")
               \/ msgs'[m].batch = "none"
               \/ msgs'[m].batch = "confirmed" /\ m \in seen
      PROVE  ClientsOK' /\ HandInv' /\ BatchInv'
  <2>1. /\ hook' \in [Agent -> HookType]
        /\ \A b \in Agent : hook'[b] = IF b = a THEN Idle ELSE hook[b]
        /\ \A b \in Agent : \A m \in hook'[b].ids \cup tool[b].ids : m \in DOMAIN msgs /\ msgs[m].to = b
    BY <1>2, <1>3, <1>7
  <2>2. \A m \in DOMAIN msgs : Batched(m)'
    <3>. SUFFICES ASSUME NEW m \in DOMAIN msgs PROVE Batched(m)'
      OBVIOUS
    <3>1. Batched(m) /\ msgs[m].to \in Agent /\ msgs'[m].to = msgs[m].to
      BY <1>1 DEF Row
    <3>2. CASE msgs'[m].batch = "none"
      BY <3>2 DEF Batched
    <3>3. CASE msgs'[m].batch = "confirmed" /\ m \in seen
      BY <1>7, <3>3 DEF Batched
    <3>4. CASE msgs'[m] = msgs[m] /\ ~(msgs[m].to = a /\ msgs[m].batch = "pending")
      <4>1. CASE msgs[m].to = a
        BY <1>7, <3>1, <3>4, <4>1 DEF Batched
      <4>2. CASE msgs[m].to # a
        <5>1. hook'[msgs[m].to] = hook[msgs[m].to]
          BY <2>1, <3>1, <4>2
        <5>. QED BY <1>7, <3>1, <3>4, <5>1 DEF Batched
      <4>. QED BY <4>1, <4>2
    <3>. QED BY <1>7, <3>2, <3>3, <3>4
  <2>. QED BY <1>1, <1>7, <2>1, <2>2, Clients
<1>8. CASE Confirm(a)
  <2>1. hook[a].stage = "printed" /\ hook' = [hook EXCEPT ![a] = Idle] /\ UNCHANGED <<alive, tool, seen>>
    BY <1>8 DEF Confirm
  <2>2. ASSUME NEW m \in DOMAIN msgs
        PROVE  \/ msgs'[m] = msgs[m] /\ ~(msgs[m].to = a /\ msgs[m].batch = "pending")
               \/ msgs'[m].batch = "confirmed" /\ m \in seen
    <3>1. Batched(m) /\ msgs[m] \in Row /\ Tidy(msgs[m])
      BY <1>0, <1>1, Types
    <3>2. msgs'[m] = IF m \in Batch(a) THEN [msgs[m] EXCEPT !.batch = "confirmed"] ELSE msgs[m]
      BY <1>0, <1>8, ConfirmRows
    <3>3. CASE msgs[m].to = a /\ msgs[m].batch = "pending"
      <4>1. m \in seen /\ m \in Batch(a)
        BY <2>1, <3>1, <3>3 DEF Batched, Tidy, Batch, Pending
      <4>. QED BY <3>1, <3>2, <4>1 DEF Row
    <3>4. CASE ~(msgs[m].to = a /\ msgs[m].batch = "pending")
      BY <3>2, <3>4 DEF Batch, Pending
    <3>. QED BY <3>3, <3>4
  <2>. QED BY <1>7, <2>1, <2>2
<1>9. CASE HookDies(a)
  <2>1. msgs' = Unhooked({a}) /\ hook' = [hook EXCEPT ![a] = Idle] /\ UNCHANGED <<alive, tool, seen>>
    BY <1>9 DEF HookDies
  <2>2. ASSUME NEW m \in DOMAIN msgs
        PROVE  \/ msgs'[m] = msgs[m] /\ ~(msgs[m].to = a /\ msgs[m].batch = "pending")
               \/ msgs'[m].batch = "none"
    <3>1. msgs'[m] = IF msgs[m].to \in {a} /\ msgs[m].batch = "pending"
                     THEN [msgs[m] EXCEPT !.batch = "none"] ELSE msgs[m]
      BY <1>0, <2>1, UnhookedRows
    <3>2. msgs[m] \in Row
      BY <1>1
    <3>. QED BY <3>1, <3>2 DEF Row
  <2>. QED BY <1>7, <2>1, <2>2
<1>10. CASE Stop(a)
  <2>1. msgs' = Acked(Received(a)) /\ UNCHANGED <<alive, hook, tool, seen>>
    BY <1>10 DEF Stop
  <2>2. \A k \in DOMAIN msgs : msgs'[k].batch = "none" \/ msgs'[k] = msgs[k]
    BY <1>0, <2>1, AckedRows, SettledRow
  <2>3. \A b \in Agent : \A m \in tool'[b].ids : m \in DOMAIN msgs /\ msgs[m].to = b
    BY <1>1, <2>1
  <2>. QED BY <1>1, <2>1, <2>2, <2>3, HooksWait
<1>. QED BY <1>4, <1>5, <1>6, <1>8, <1>9, <1>10 DEF Hook

\* Writers, and the clock's marks, leave what the hooks wait for alone.
LEMMA WriterClients ==
  ASSUME IInv, [Next]_vars, NEW a \in Agent, Writer(a)
  PROVE  ClientsOK' /\ HandInv' /\ BatchInv'
<1>0. TypeOK /\ ClientsOK /\ HandInv /\ BatchInv
  BY TypesSplit DEF IInv
<1>1. /\ alive \subseteq Agent /\ tool \in [Agent -> ToolType] /\ seen \subseteq DOMAIN msgs
      /\ \A b \in Agent : \A m \in tool[b].ids : m \in DOMAIN msgs /\ msgs[m].to = b
  BY <1>0 DEF ClientsOK, HandInv
<1>2. ASSUME UNCHANGED <<alive, hook, tool, seen>>, \A m \in DOMAIN msgs : msgs'[m] = msgs[m]
      PROVE  ClientsOK' /\ HandInv' /\ BatchInv'
  BY <1>1, <1>2, HooksWait
<1>3. \A r : msgs' = Append(msgs, r) => \A m \in DOMAIN msgs : msgs'[m] = msgs[m]
  <2>1. msgs \in Seq(Row)
    BY <1>0, Types
  <2>. QED BY <2>1
<1>4. ASSUME NEW b \in Agent, NEW kind \in Kind, Send(a, b, kind)
      PROVE  ClientsOK' /\ HandInv' /\ BatchInv'
  BY <1>2, <1>3, <1>4 DEF Send
<1>5. ASSUME NEW m \in DOMAIN msgs, Reply(a, m)
      PROVE  ClientsOK' /\ HandInv' /\ BatchInv'
  BY <1>2, <1>3, <1>5 DEF Reply
<1>6. ASSUME AskHuman(a)
      PROVE  ClientsOK' /\ HandInv' /\ BatchInv'
  BY <1>2, <1>6 DEF AskHuman
<1>7. ASSUME NEW b \in Agent, AskPeer(a, b)
      PROVE  ClientsOK' /\ HandInv' /\ BatchInv'
  BY <1>2, <1>3, <1>7 DEF AskPeer
<1>8. ASSUME NEW e \in DOMAIN escs, ResolveByPeer(a, e)
      PROVE  ClientsOK' /\ HandInv' /\ BatchInv'
  BY <1>2, <1>3, <1>8 DEF ResolveByPeer
<1>9. ASSUME NEW e \in DOMAIN escs, PollRetargets(a, e)
      PROVE  ClientsOK' /\ HandInv' /\ BatchInv'
  BY <1>2, <1>9 DEF PollRetargets
<1>10. ASSUME NEW e \in DOMAIN escs, PollAnswer(a, e)
       PROVE  ClientsOK' /\ HandInv' /\ BatchInv'
  <2>1. PICK m : m = escs[e].reply
    OBVIOUS
  <2>2. /\ escs[e].from = a /\ escs[e].status = "resolved"
        /\ msgs' = msgs \/ msgs' = Acked({m})
        /\ tool' = [tool EXCEPT ![a] = [Idle EXCEPT !.stage = "polled", !.ids = {m}]]
        /\ UNCHANGED <<alive, hook, seen>>
    BY <1>10, <2>1 DEF PollAnswer
  <2>3. m \in DOMAIN msgs /\ msgs[m].to = a /\ m \in 1..MaxMsg
    BY <1>0, <2>1, <2>2, Types, InRange
  <2>4. PICK x : x = [Idle EXCEPT !.stage = "polled", !.ids = {m}]
    OBVIOUS
  <2>5. x \in ToolType /\ x.ids = {m}
    BY <2>3, <2>4 DEF Idle, ToolType
  <2>6. tool' \in [Agent -> ToolType] /\ \A b \in Agent : tool'[b].ids = IF b = a THEN {m} ELSE tool[b].ids
    BY <1>1, <2>2, <2>4, <2>5
  <2>7. \A b \in Agent : \A k \in tool'[b].ids : k \in DOMAIN msgs /\ msgs[k].to = b
    BY <1>1, <2>3, <2>6
  <2>8. \A k \in DOMAIN msgs : msgs'[k].batch = "none" \/ msgs'[k] = msgs[k]
    BY <1>0, <2>2, AckedRows, SettledRow
  <2>. QED BY <1>1, <2>2, <2>6, <2>7, <2>8, HooksWait
<1>. QED BY <1>4, <1>5, <1>6, <1>7, <1>8, <1>9, <1>10 DEF Writer

\* So does time: the sweep forgets only what it settles.
LEMMA ClockClients ==
  ASSUME IInv, [Next]_vars, Clock
  PROVE  ClientsOK' /\ HandInv' /\ BatchInv'
<1>0. TypeOK /\ ClientsOK /\ HandInv /\ BatchInv
  BY TypesSplit DEF IInv
<1>1. /\ alive \subseteq Agent /\ hook \in [Agent -> HookType] /\ tool \in [Agent -> ToolType] /\ seen \subseteq DOMAIN msgs
      /\ \A b \in Agent : \A m \in hook[b].ids \cup tool[b].ids : m \in DOMAIN msgs /\ msgs[m].to = b
      /\ \A m \in DOMAIN msgs : Batched(m) /\ msgs[m] \in Row /\ msgs'[m].to = msgs[m].to
  BY <1>0, Types, Grows DEF ClientsOK, HandInv, BatchInv
<1>2. ASSUME UNCHANGED <<alive, hook, tool, seen>>,
             \A m \in DOMAIN msgs : msgs'[m].batch = msgs[m].batch /\ msgs'[m].mine = msgs[m].mine
      PROVE  ClientsOK' /\ HandInv' /\ BatchInv'
  BY <1>1, <1>2, HooksWait
<1>3. ASSUME NEW m \in DOMAIN msgs, RedeliveryDue(m) \/ MessageLapses(m)
      PROVE  ClientsOK' /\ HandInv' /\ BatchInv'
  <2>1. /\ msgs' = [msgs EXCEPT ![m].due = TRUE] \/ msgs' = [msgs EXCEPT ![m].overdue = TRUE]
        /\ UNCHANGED <<alive, hook, tool, seen>>
    BY <1>3 DEF RedeliveryDue, MessageLapses
  <2>2. \A k \in DOMAIN msgs : msgs'[k].batch = msgs[k].batch /\ msgs'[k].mine = msgs[k].mine
    BY <1>1, <2>1 DEF Row
  <2>. QED BY <1>2, <2>1, <2>2
<1>4. ASSUME NEW e \in DOMAIN escs, AskLapses(e)
      PROVE  ClientsOK' /\ HandInv' /\ BatchInv'
  BY <1>2, <1>4 DEF AskLapses
<1>5. ASSUME NEW old \in SUBSET DOMAIN msgs, NEW closed \in SUBSET DOMAIN escs, Sweep(old, closed)
      PROVE  ClientsOK' /\ HandInv' /\ BatchInv'
  <2>1. /\ msgs' = Swept(old) /\ UNCHANGED <<alive, hook, tool>>
        /\ seen' = {m \in seen : msgs'[m].state \notin {"expired", "purged"}}
    BY <1>5 DEF Sweep
  <2>2. \A m \in DOMAIN msgs : Batched(m)'
    <3>. SUFFICES ASSUME NEW m \in DOMAIN msgs PROVE Batched(m)'
      OBVIOUS
    <3>1. Batched(m) /\ msgs[m] \in Row /\ Tidy(msgs[m]) /\ msgs'[m].to = msgs[m].to
      BY <1>0, <1>1, Types
    <3>2. msgs'[m] = IF m \in old THEN Settled(m, "purged")
                     ELSE IF Live(m) /\ msgs[m].overdue THEN Settled(m, "expired")
                     ELSE [msgs[m] EXCEPT !.replyTo = IF @ \in old THEN 0 ELSE @]
      BY <1>0, <2>1, SweptRows
    <3>3. CASE m \in old \/ (Live(m) /\ msgs[m].overdue)
      <4>1. msgs'[m].batch = "none"
        BY <1>0, <3>2, <3>3, SettledRow
      <4>. QED BY <4>1 DEF Batched
    <3>4. CASE m \notin old /\ ~(Live(m) /\ msgs[m].overdue)
      <4>1. msgs'[m].batch = msgs[m].batch /\ msgs'[m].mine = msgs[m].mine /\ msgs'[m].state = msgs[m].state
        BY <3>1, <3>2, <3>4 DEF Row
      <4>2. m \in seen /\ msgs[m].batch # "none" => m \in seen'
        BY <2>1, <3>1, <4>1 DEF Tidy
      <4>. QED BY <2>1, <3>1, <4>1, <4>2 DEF Batched
    <3>. QED BY <3>3, <3>4
  <2>3. seen' \subseteq DOMAIN msgs
    BY <1>1, <2>1
  <2>. QED BY <1>1, <2>1, <2>2, <2>3, Clients
<1>. QED BY <1>3, <1>4, <1>5 DEF Clock

\* A tab that goes leaves its batch to nobody, and what it was shown forgotten.
LEMMA DropClients ==
  ASSUME IInv, [Next]_vars, NEW a \in Agent, TabDies(a) \/ DropUnnoticed(a)
  PROVE  ClientsOK' /\ HandInv' /\ BatchInv'
<1>0. TypeOK /\ ClientsOK /\ HandInv /\ BatchInv
  BY TypesSplit DEF IInv
<1>1. /\ alive \subseteq Agent /\ hook \in [Agent -> HookType] /\ tool \in [Agent -> ToolType] /\ seen \subseteq DOMAIN msgs
      /\ \A b \in Agent : \A m \in hook[b].ids \cup tool[b].ids : m \in DOMAIN msgs /\ msgs[m].to = b
      /\ \A m \in DOMAIN msgs : Batched(m) /\ msgs[m] \in Row /\ msgs'[m].to = msgs[m].to
  BY <1>0, Types, Grows DEF ClientsOK, HandInv, BatchInv
<1>2. Idle \in HookType /\ Idle \in ToolType /\ Idle.ids = {} /\ Idle.stage = "idle"
  BY DEF Idle, HookType, ToolType
<1>3. PICK S : /\ Gone(a, S) /\ a \in S
               /\ \A b \in Agent \ S : hook'[b] = hook[b]
               /\ hook' \in [Agent -> HookType] /\ tool' \in [Agent -> ToolType]
               /\ \A b \in Agent : hook'[b].ids \subseteq hook[b].ids /\ tool'[b].ids \subseteq tool[b].ids
  <2>1. CASE TabDies(a)
    <3>1. /\ hook' = [hook EXCEPT ![a] = IF @.stage = "peeked" THEN [@ EXCEPT !.mine = FALSE] ELSE Idle]
          /\ tool' = [tool EXCEPT ![a] = Idle] /\ Gone(a, {a})
      BY <2>1 DEF TabDies
    <3>2. PICK x : x = IF hook[a].stage = "peeked" THEN [hook[a] EXCEPT !.mine = FALSE] ELSE Idle
      OBVIOUS
    <3>3. x \in HookType /\ x.ids \subseteq hook[a].ids
      <4>1. hook[a] \in HookType
        BY <1>1
      <4>. QED BY <1>2, <3>2, <4>1 DEF HookType
    <3>4. hook' \in [Agent -> HookType] /\ \A b \in Agent : hook'[b] = IF b = a THEN x ELSE hook[b]
      BY <1>1, <3>1, <3>2, <3>3
    <3>5. tool' \in [Agent -> ToolType] /\ \A b \in Agent : tool'[b] = IF b = a THEN Idle ELSE tool[b]
      BY <1>1, <1>2, <3>1
    <3>. QED BY <1>2, <3>1, <3>3, <3>4, <3>5
  <2>2. CASE DropUnnoticed(a)
    <3>1. hook' = [b \in Agent |-> Idle] /\ tool' = [b \in Agent |-> Idle] /\ Gone(a, Agent)
      BY <2>2 DEF DropUnnoticed
    <3>. QED BY <1>2, <3>1
  <2>. QED BY <2>1, <2>2
<1>4. alive' \subseteq Agent
  BY <1>1 DEF TabDies, DropUnnoticed
<1>5. \A b \in Agent : \A m \in hook'[b].ids \cup tool'[b].ids : m \in DOMAIN msgs /\ msgs[m].to = b
  BY <1>1, <1>3
<1>6. seen' = {m \in seen : msgs[m].to # a \/ ~Live(m)}
  BY <1>3 DEF Gone
<1>7. \A m \in DOMAIN msgs : Batched(m)'
  <2>. SUFFICES ASSUME NEW m \in DOMAIN msgs PROVE Batched(m)'
    OBVIOUS
  <2>1. Batched(m) /\ msgs[m] \in Row /\ msgs[m].to \in Agent /\ msgs'[m].to = msgs[m].to
    BY <1>1 DEF Row
  <2>2. PICK u : u = Unhooked(S)[m]
    OBVIOUS
  <2>3. /\ u = IF msgs[m].to \in S /\ msgs[m].batch = "pending" THEN [msgs[m] EXCEPT !.batch = "none"] ELSE msgs[m]
        /\ msgs'[m] = IF msgs[m].to = a THEN [u EXCEPT !.mine = FALSE] ELSE u
    BY <1>0, <1>3, <2>2, UnhookedRows, GoneRows
  <2>4. /\ u \in Row /\ u.mine = msgs[m].mine
        /\ u.batch = IF msgs[m].to \in S /\ msgs[m].batch = "pending" THEN "none" ELSE msgs[m].batch
    BY <2>1, <2>3 DEF Row
  <2>5. /\ msgs'[m].batch = u.batch
        /\ msgs[m].to = a => ~msgs'[m].mine
        /\ msgs[m].to # a => msgs'[m].mine = msgs[m].mine
    BY <2>3, <2>4 DEF Row
  <2>6. CASE msgs[m].to = a
    BY <1>3, <2>1, <2>4, <2>5, <2>6 DEF Batched
  <2>7. CASE msgs[m].to # a /\ msgs'[m].batch = "confirmed"
    BY <1>6, <2>1, <2>4, <2>5, <2>7 DEF Batched
  <2>8. CASE msgs[m].to # a /\ msgs'[m].batch = "pending"
    <3>1. msgs[m].to \notin S /\ msgs[m].batch = "pending"
      BY <2>4, <2>5, <2>8
    <3>2. hook'[msgs[m].to] = hook[msgs[m].to]
      BY <1>3, <2>1, <3>1
    <3>. QED BY <1>6, <2>1, <2>5, <2>8, <3>1, <3>2 DEF Batched
  <2>9. CASE msgs'[m].batch = "none"
    BY <2>9 DEF Batched
  <2>10. msgs'[m].batch \in {"none", "pending", "confirmed"}
    BY <2>4, <2>5 DEF Row
  <2>. QED BY <2>6, <2>7, <2>8, <2>9, <2>10
<1>. QED BY <1>1, <1>3, <1>4, <1>5, <1>6, <1>7, Clients

\* Every step keeps the clients in order.
LEMMA StepClients ==
  ASSUME IInv, [Next]_vars
  PROVE  ClientsOK' /\ HandInv' /\ BatchInv'
<1>0. TypeOK /\ ClientsOK /\ HandInv /\ BatchInv
  BY TypesSplit DEF IInv
<1>1. ASSUME UNCHANGED <<msgs, hook, tool, seen>> \/ (UNCHANGED <<hook, tool, seen>> /\ \E r : msgs' = Append(msgs, r)),
             alive' \subseteq Agent
      PROVE  ClientsOK' /\ HandInv' /\ BatchInv'
  <2>1. \A m \in DOMAIN msgs : msgs'[m] = msgs[m]
    <3>1. msgs \in Seq(Row)
      BY <1>0, Types
    <3>. QED BY <1>1, <3>1
  <2>2. /\ tool \in [Agent -> ToolType] /\ seen \subseteq DOMAIN msgs
        /\ \A b \in Agent : \A m \in tool[b].ids : m \in DOMAIN msgs /\ msgs[m].to = b
    BY <1>0 DEF ClientsOK, HandInv
  <2>. QED BY <1>1, <2>1, <2>2, HooksWait
<1>2. alive \subseteq Agent
  BY <1>0 DEF ClientsOK
<1>3. ASSUME NEW a \in Agent, TabOpens(a) PROVE ClientsOK' /\ HandInv' /\ BatchInv'
  BY <1>1, <1>2, <1>3 DEF TabOpens
<1>4. ASSUME NEW e \in DOMAIN escs, ResolveByHuman(e) \/ Dismiss(e) PROVE ClientsOK' /\ HandInv' /\ BatchInv'
  BY <1>1, <1>2, <1>4 DEF ResolveByHuman, Dismiss
<1>5. CASE UNCHANGED vars
  BY <1>1, <1>2, <1>5 DEF vars
<1>6. ASSUME NEW a \in Hooked, Hook(a) PROVE ClientsOK' /\ HandInv' /\ BatchInv'
  BY <1>6, HookClients, IntercomAssumption
<1>. QED BY <1>3, <1>4, <1>5, <1>6, ToolClients, WriterClients, ClockClients, DropClients DEF Next
-----------------------------------------------------------------------------
(* The theorems.                                                            *)

\* An intercom nobody used yet.
LEMMA InitIInv == Init => IInv
<1>. SUFFICES ASSUME Init PROVE IInv
  OBVIOUS
<1>1. /\ msgs = <<>> /\ escs = <<>> /\ alive = {} /\ seen = {}
      /\ hook = [a \in Agent |-> Idle] /\ tool = [a \in Agent |-> Idle]
  BY DEF Init
<1>2. Idle \in HookType /\ Idle \in ToolType /\ Idle.ids = {}
  BY DEF Idle, HookType, ToolType
<1>3. /\ DOMAIN msgs = {} /\ Len(msgs) = 0 /\ msgs \in Seq(Row)
      /\ DOMAIN escs = {} /\ Len(escs) = 0 /\ escs \in Seq(Question)
  BY <1>1
<1>4. TablesOK
  BY <1>3, IntercomAssumption DEF TablesOK
<1>5. ClientsOK /\ HandInv
  BY <1>1, <1>2 DEF ClientsOK, HandInv
<1>6. RowInv /\ AskInv /\ LapseInv /\ BatchInv /\ OpenAskIsUnanswered
  BY <1>3 DEF RowInv, AskInv, LapseInv, BatchInv, OpenAskIsUnanswered
<1>. QED BY <1>4, <1>5, <1>6, TypesSplit DEF IInv

\* Every step preserves the inductive invariant.
LEMMA StepIInv == IInv /\ [Next]_vars => IInv'
<1>. SUFFICES ASSUME IInv, [Next]_vars PROVE IInv'
  OBVIOUS
<1>1. TablesOK' /\ TablesInv'
  BY StepTablesInv DEF IInv, TablesInv
<1>2. ClientsOK' /\ HandInv' /\ BatchInv'
  BY StepClients
<1>3. TypeOK'
  <2>1. TablesOK' /\ ClientsOK' => TypeOK'
    BY TypesSplit, PTL
  <2>. QED BY <1>1, <1>2, <2>1
<1>. QED BY <1>1, <1>2, <1>3 DEF IInv, TablesInv

\* The inductive invariant holds, for any agents, cap, limit and bounds.
THEOREM IntercomAlways == Spec => []IInv
  BY InitIInv, StepIInv, PTL DEF Spec

\* Type correctness, for any agents, cap, limit and bounds.
THEOREM IntercomTypeCorrect == Spec => []TypeOK
<1>1. IInv => TypeOK
  BY DEF IInv
<1>. QED BY <1>1, IntercomAlways, PTL

\* A question still out to a peer has its request, and no reply to it was taken
\* without settling it.
THEOREM NoLostAnswer == Spec => []OpenAskIsUnanswered
<1>1. IInv => OpenAskIsUnanswered
  BY DEF IInv
<1>. QED BY <1>1, IntercomAlways, PTL
-----------------------------------------------------------------------------
(* What a step may not do.                                                  *)

\* A step that acknowledges: the Stop hook's, the inbox tool's or a poll's.
Acks(S) == msgs' = Acked(S) \/ \A m \in DOMAIN msgs : Live(m) => msgs'[m].state # "acknowledged"

\* Every other step leaves a live row live, or lets it expire.
LEMMA AckSteps ==
  ASSUME IInv, [Next]_vars
  PROVE  \/ Acks({})
         \/ \E a \in Agent : Stop(a) /\ Acks(Received(a))
         \/ \E a \in Agent : InboxAck(a) /\ UNCHANGED tool /\ \E m \in tool[a].ids : Acks({m})
         \/ \E a \in Agent, e \in DOMAIN escs :
              /\ escs[e].from = a /\ escs[e].status = "resolved"
              /\ tool'[a].ids = {escs[e].reply} /\ Acks({escs[e].reply})
<1>0. TypeOK /\ ClientsOK /\ \A m \in DOMAIN msgs : msgs[m] \in Row
  BY TypesSplit, Types DEF IInv
<1>. DEFINE Quiet == \A m \in DOMAIN msgs : Live(m) => msgs'[m].state # "acknowledged"
<1>1. (\A m \in DOMAIN msgs : msgs'[m].state = msgs[m].state \/ msgs'[m].state # "acknowledged") => Quiet
  BY DEF Live
<1>2. ASSUME NEW r, msgs' = Append(msgs, r) PROVE Quiet
  <2>1. msgs \in Seq(Row)
    BY <1>0, Types
  <2>2. \A m \in DOMAIN msgs : msgs'[m] = msgs[m]
    BY <1>2, <2>1
  <2>. QED BY <1>1, <2>2
<1>3. CASE UNCHANGED msgs
  BY <1>1, <1>3 DEF Acks
<1>4. ASSUME NEW ids, NEW mine \in BOOLEAN, NEW b \in {"none", "pending"}, msgs' = Claimed(ids, mine, b)
      PROVE  Quiet
  <2>. SUFFICES ASSUME NEW m \in DOMAIN msgs
                PROVE  msgs'[m].state = msgs[m].state \/ msgs'[m].state # "acknowledged"
    BY <1>1
  <2>1. IF m \in ids /\ Deliverable(m)
        THEN /\ Claimed(ids, mine, b)[m] =
                  [msgs[m] EXCEPT !.state = "delivered", !.mine = mine, !.batch = b, !.due = FALSE]
             /\ Claimed(ids, mine, b)[m] # msgs[m]
        ELSE Claimed(ids, mine, b)[m] = msgs[m]
    BY <1>0, ClaimedRows
  <2>2. \/ msgs'[m] = [msgs[m] EXCEPT !.state = "delivered", !.mine = mine, !.batch = b, !.due = FALSE]
        \/ msgs'[m] = msgs[m]
    BY <1>4, <2>1
  <2>. QED BY <1>0, <2>2 DEF Row
<1>. HIDE DEF Quiet
<1>5. Quiet => Acks({})
  BY DEF Acks, Quiet
<1>6. ASSUME NEW a \in Hooked, Hook(a)
      PROVE  Quiet \/ UNCHANGED msgs \/ (Stop(a) /\ Acks(Received(a)))
  <2>1. CASE Peek(a) \/ Write(a)
    BY <2>1 DEF Peek, Write
  <2>2. CASE Claim(a)
    <3>1. a \in Agent
      BY IntercomAssumption
    <3>2. hook[a].mine \in BOOLEAN
      BY <1>0, <3>1 DEF ClientsOK, HookType
    <3>3. PICK b \in {"none", "pending"} : msgs' = Claimed(hook[a].ids, hook[a].mine, b)
      BY <2>2 DEF Claim
    <3>. QED BY <1>4, <3>2, <3>3
  <2>3. CASE Confirm(a)
    <3>1. \A m \in DOMAIN msgs : msgs'[m].state = msgs[m].state
      BY <1>0, <2>3, ConfirmRows DEF Row
    <3>. QED BY <1>1, <3>1
  <2>4. CASE HookDies(a)
    <3>1. \A m \in DOMAIN msgs : msgs'[m] = [msgs[m] EXCEPT !.batch = "none"] \/ msgs'[m] = msgs[m]
      BY <1>0, <2>4, UnhookedRows DEF HookDies
    <3>2. \A m \in DOMAIN msgs : msgs'[m].state = msgs[m].state
      BY <1>0, <3>1 DEF Row
    <3>. QED BY <1>1, <3>2
  <2>5. CASE Stop(a)
    BY <2>5 DEF Stop, Acks
  <2>. QED BY <1>6, <2>1, <2>2, <2>3, <2>4, <2>5 DEF Hook
<1>7. ASSUME NEW a \in Agent, Tool(a)
      PROVE  \/ Quiet \/ UNCHANGED msgs
             \/ InboxAck(a) /\ UNCHANGED tool /\ \E m \in tool[a].ids : Acks({m})
  <2>1. CASE Pull(a)
    <3>1. PICK ids : msgs' = Claimed(ids, TRUE, "none")
      BY <2>1 DEF Pull
    <3>. QED BY <1>4, <3>1
  <2>2. CASE InboxAck(a)
    BY <2>2 DEF InboxAck, Acks
  <2>3. CASE Return(a) \/ ToolDies(a)
    BY <2>3 DEF Return, ToolDies
  <2>. QED BY <1>7, <2>1, <2>2, <2>3 DEF Tool
<1>8. ASSUME NEW a \in Agent, NEW e \in DOMAIN escs, PollAnswer(a, e)
      PROVE  \/ UNCHANGED msgs
             \/ /\ escs[e].from = a /\ escs[e].status = "resolved"
                /\ tool'[a].ids = {escs[e].reply} /\ Acks({escs[e].reply})
  <2>1. PICK m : m = escs[e].reply
    OBVIOUS
  <2>2. /\ escs[e].from = a /\ escs[e].status = "resolved"
        /\ msgs' = msgs \/ msgs' = Acked({m})
        /\ tool' = [tool EXCEPT ![a] = [Idle EXCEPT !.stage = "polled", !.ids = {m}]]
    BY <1>8, <2>1 DEF PollAnswer
  <2>3. PICK x : x = [Idle EXCEPT !.stage = "polled", !.ids = {m}]
    OBVIOUS
  <2>4. x.ids = {m}
    BY <2>3 DEF Idle
  <2>5. tool'[a] = x
    BY <1>0, <2>2, <2>3 DEF ClientsOK
  <2>. QED BY <2>1, <2>2, <2>4, <2>5 DEF Acks
<1>9. ASSUME NEW a \in Agent, Writer(a)
      PROVE  \/ Quiet \/ UNCHANGED msgs
             \/ \E e \in DOMAIN escs :
                  /\ escs[e].from = a /\ escs[e].status = "resolved"
                  /\ tool'[a].ids = {escs[e].reply} /\ Acks({escs[e].reply})
  <2>1. ASSUME NEW b \in Agent, NEW kind \in Kind, Send(a, b, kind) PROVE Quiet
    BY <1>2, <2>1 DEF Send
  <2>2. ASSUME NEW m \in DOMAIN msgs, Reply(a, m) PROVE Quiet
    BY <1>2, <2>2 DEF Reply
  <2>3. ASSUME AskHuman(a) PROVE UNCHANGED msgs
    BY <2>3 DEF AskHuman
  <2>4. ASSUME NEW b \in Agent, AskPeer(a, b) PROVE Quiet
    BY <1>2, <2>4 DEF AskPeer
  <2>5. ASSUME NEW e \in DOMAIN escs, ResolveByPeer(a, e) PROVE Quiet
    BY <1>2, <2>5 DEF ResolveByPeer
  <2>6. ASSUME NEW e \in DOMAIN escs, PollRetargets(a, e) PROVE UNCHANGED msgs
    BY <2>6 DEF PollRetargets
  <2>. QED BY <1>8, <1>9, <2>1, <2>2, <2>3, <2>4, <2>5, <2>6 DEF Writer
<1>10. ASSUME NEW a, NEW S, Gone(a, S) PROVE Quiet
  <2>. SUFFICES ASSUME NEW m \in DOMAIN msgs PROVE msgs'[m].state = msgs[m].state
    BY <1>1
  <2>1. PICK u : u = Unhooked(S)[m]
    OBVIOUS
  <2>2. u = msgs[m] \/ u = [msgs[m] EXCEPT !.batch = "none"]
    BY <1>0, <2>1, UnhookedRows
  <2>3. u \in Row /\ u.state = msgs[m].state
    BY <1>0, <2>2 DEF Row
  <2>4. msgs'[m] = u \/ msgs'[m] = [u EXCEPT !.mine = FALSE]
    BY <1>0, <1>10, <2>1, GoneRows
  <2>. QED BY <2>3, <2>4 DEF Row
<1>11. CASE Clock
  <2>1. ASSUME NEW m \in DOMAIN msgs, RedeliveryDue(m) \/ MessageLapses(m) PROVE Quiet
    <3>1. msgs' = [msgs EXCEPT ![m].due = TRUE] \/ msgs' = [msgs EXCEPT ![m].overdue = TRUE]
      BY <2>1 DEF RedeliveryDue, MessageLapses
    <3>2. \A k \in DOMAIN msgs : msgs'[k].state = msgs[k].state
      BY <1>0, <3>1 DEF Row
    <3>. QED BY <1>1, <3>2
  <2>2. ASSUME NEW old \in SUBSET DOMAIN msgs, NEW closed \in SUBSET DOMAIN escs, Sweep(old, closed) PROVE Quiet
    <3>. SUFFICES ASSUME NEW m \in DOMAIN msgs
                  PROVE  msgs'[m].state = msgs[m].state \/ msgs'[m].state # "acknowledged"
      BY <1>1
    <3>1. msgs'[m] = IF m \in old THEN Settled(m, "purged")
                     ELSE IF Live(m) /\ msgs[m].overdue THEN Settled(m, "expired")
                     ELSE [msgs[m] EXCEPT !.replyTo = IF @ \in old THEN 0 ELSE @]
      BY <1>0, <2>2, SweptRows DEF Sweep
    <3>2. Settled(m, "purged").state = "purged" /\ Settled(m, "expired").state = "expired"
      BY <1>0, SettledRow
    <3>. QED BY <1>0, <3>1, <3>2 DEF Row
  <2>3. ASSUME NEW e \in DOMAIN escs, AskLapses(e) PROVE UNCHANGED msgs
    BY <2>3 DEF AskLapses
  <2>. QED BY <1>3, <1>5, <1>11, <2>1, <2>2, <2>3 DEF Clock
<1>12. ASSUME NEW a \in Agent, TabOpens(a) \/ TabDies(a) \/ DropUnnoticed(a) PROVE Quiet \/ UNCHANGED msgs
  BY <1>10, <1>12 DEF TabOpens, TabDies, DropUnnoticed
<1>13. ASSUME NEW e \in DOMAIN escs, ResolveByHuman(e) \/ Dismiss(e) PROVE Quiet \/ UNCHANGED msgs
  BY <1>2, <1>13 DEF ResolveByHuman, Dismiss
<1>14. CASE UNCHANGED vars
  BY <1>3, <1>14 DEF vars
<1>15. Hooked \subseteq Agent
  BY IntercomAssumption
<1>. QED BY <1>3, <1>5, <1>6, <1>7, <1>9, <1>11, <1>12, <1>13, <1>14, <1>15 DEF Next

\* Who acknowledges was shown the message, or is about to hand it over.
LEMMA ReaderStep ==
  ASSUME IInv, [Next]_vars, NEW m \in DOMAIN msgs, Live(m), msgs'[m].state = "acknowledged"
  PROVE  m \in seen \/ m \in tool'[msgs[m].to].ids
<1>0. TypeOK /\ HandInv /\ BatchInv
  BY DEF IInv
<1>1. ASSUME NEW S, Acks(S) PROVE m \in S
  <2>1. msgs' = Acked(S)
    BY <1>1 DEF Acks
  <2>2. m \notin S => msgs'[m] = msgs[m]
    BY <1>0, <2>1, AckedRows
  <2>. QED BY <2>2 DEF Live
<1>2. ~Acks({})
  BY <1>1
<1>3. ASSUME NEW a \in Agent, Acks(Received(a)) PROVE m \in seen
  <2>1. m \in Received(a)
    BY <1>1, <1>3
  <2>. QED BY <1>0, <2>1 DEF Received, BatchInv, Batched
<1>4. ASSUME NEW a \in Agent, UNCHANGED tool, NEW k \in tool[a].ids, Acks({k}) PROVE m \in tool'[msgs[m].to].ids
  <2>1. m = k
    BY <1>1, <1>4
  <2>2. msgs[m].to = a
    BY <1>0, <2>1 DEF HandInv
  <2>. QED BY <1>4, <2>1, <2>2
<1>5. ASSUME NEW a \in Agent, NEW e \in DOMAIN escs, escs[e].from = a, escs[e].status = "resolved",
             tool'[a].ids = {escs[e].reply}, Acks({escs[e].reply})
      PROVE  m \in tool'[msgs[m].to].ids
  <2>1. m = escs[e].reply
    BY <1>1, <1>5
  <2>2. msgs[m].to = a
    BY <1>0, <1>5, <2>1, Types
  <2>. QED BY <1>5, <2>1, <2>2
<1>. QED BY <1>2, <1>3, <1>4, <1>5, AckSteps

\* What is handed out was deliverable: not in anybody's hands, or due again.
LEMMA HandStep ==
  ASSUME IInv, [Next]_vars, NEW a \in Agent
  PROVE  /\ \A m \in InHook(a)' \ InHook(a) : Deliverable(m)
         /\ \A m \in InTool(a)' \ InTool(a) : Deliverable(m)
<1>0. TypeOK /\ ClientsOK /\ HandInv
  BY TypesSplit DEF IInv
<1>1. hook \in [Agent -> HookType] /\ tool \in [Agent -> ToolType] /\ hook[a] \in HookType /\ tool[a] \in ToolType
  BY <1>0 DEF ClientsOK
<1>2. CASE hook'[a] = hook[a] /\ tool'[a] = tool[a]
  BY <1>2 DEF InHook, InTool
<1>3. ASSUME hook'[a].stage \in {"idle", "peeked"} \/ hook'[a] = hook[a],
             tool'[a].stage \in {"idle", "polled"} \/ tool'[a] = tool[a]
      PROVE  /\ InHook(a)' \ InHook(a) = {} /\ InTool(a)' \ InTool(a) = {}
  BY <1>3 DEF InHook, InTool
<1>4. Idle.stage = "idle"
  BY DEF Idle
<1>5. ASSUME NEW b \in Hooked, Hook(b)
      PROVE  /\ \A m \in InHook(a)' \ InHook(a) : Deliverable(m)
             /\ \A m \in InTool(a)' \ InTool(a) : Deliverable(m)
  <2>0. b \in Agent
    BY IntercomAssumption
  <2>1. CASE Stop(b)
    BY <1>2, <2>1 DEF Stop
  <2>2. CASE Peek(b)
    <3>1. tool' = tool /\ (hook'[a] = hook[a] \/ hook'[a].stage = "peeked")
      BY <1>1, <2>0, <2>2 DEF Peek
    <3>. QED BY <1>3, <3>1
  <2>3. CASE Confirm(b) \/ HookDies(b)
    <3>1. tool' = tool /\ (hook'[a] = hook[a] \/ hook'[a] = Idle)
      BY <1>1, <2>0, <2>3 DEF Confirm, HookDies
    <3>. QED BY <1>3, <1>4, <3>1
  <2>4. CASE Write(b)
    <3>1. hook[b].stage = "claimed" /\ hook' = [hook EXCEPT ![b].stage = "printed"] /\ tool' = tool
      BY <2>4 DEF Write
    <3>2. hook'[a] = hook[a] \/ (hook'[a].stage = "printed" /\ hook'[a].ids = hook[a].ids /\ hook[a].stage = "claimed")
      BY <1>1, <2>0, <3>1 DEF HookType
    <3>. QED BY <3>1, <3>2 DEF InHook, InTool
  <2>5. CASE Claim(b)
    <3>1. tool' = tool
      BY <2>5 DEF Claim
    <3>2. PICK c \in {"none", "pending"} : msgs' = Claimed(hook[b].ids, hook[b].mine, c)
      BY <2>5 DEF Claim
    <3>3. PICK got : /\ got = {m \in hook[b].ids : msgs'[m] # msgs[m]}
                     /\ hook' = [hook EXCEPT ![b] = IF got = {} \/ ~@.mine THEN Idle
                                                    ELSE [@ EXCEPT !.stage = "claimed", !.ids = got]]
      BY <2>5 DEF Claim
    <3>4. hook[b].mine \in BOOLEAN /\ hook[b] \in HookType
      BY <1>0, <2>0 DEF ClientsOK, HookType
    <3>5. \A m \in got : Deliverable(m)
      <4>. SUFFICES ASSUME NEW m \in got PROVE Deliverable(m)
        OBVIOUS
      <4>1. m \in DOMAIN msgs /\ msgs'[m] # msgs[m]
        BY <1>0, <2>0, <3>3 DEF HandInv
      <4>. QED BY <1>0, <3>2, <3>4, <4>1, ClaimedRows
    <3>6. CASE a # b
      BY <1>1, <1>2, <2>0, <3>1, <3>3, <3>6
    <3>7. CASE a = b
      <4>1. PICK x : x = [hook[b] EXCEPT !.stage = "claimed", !.ids = got]
        OBVIOUS
      <4>2. x.ids = got
        BY <3>4, <4>1 DEF HookType
      <4>3. hook'[a] = Idle \/ hook'[a] = x
        BY <1>1, <2>0, <3>3, <3>7, <4>1
      <4>4. CASE hook'[a] = Idle
        BY <1>3, <1>4, <3>1, <4>4
      <4>5. CASE hook'[a] = x
        BY <3>1, <3>5, <4>2, <4>5 DEF InHook, InTool
      <4>. QED BY <4>3, <4>4, <4>5
    <3>. QED BY <3>6, <3>7
  <2>. QED BY <1>5, <2>1, <2>2, <2>3, <2>4, <2>5 DEF Hook
<1>6. ASSUME NEW b \in Agent, Tool(b)
      PROVE  /\ \A m \in InHook(a)' \ InHook(a) : Deliverable(m)
             /\ \A m \in InTool(a)' \ InTool(a) : Deliverable(m)
  <2>1. CASE InboxAck(b)
    BY <1>2, <2>1 DEF InboxAck
  <2>2. CASE Return(b) \/ ToolDies(b)
    <3>1. hook' = hook /\ (tool'[a] = tool[a] \/ tool'[a] = Idle)
      BY <1>1, <2>2 DEF Return, ToolDies
    <3>. QED BY <1>3, <1>4, <3>1
  <2>3. CASE Pull(b)
    <3>1. PICK ids \in Oldest(Inbox(b)) : tool' = [tool EXCEPT ![b] = [Idle EXCEPT !.stage = "pulled", !.ids = ids]]
      BY <2>3 DEF Pull
    <3>2. hook' = hook /\ \A m \in ids : Deliverable(m)
      BY <2>3, OldestIn DEF Pull, Inbox
    <3>3. PICK x : x = [Idle EXCEPT !.stage = "pulled", !.ids = ids]
      OBVIOUS
    <3>4. x.ids = ids
      BY <3>3 DEF Idle
    <3>5. tool'[a] = tool[a] \/ tool'[a] = x
      BY <1>1, <3>1, <3>3
    <3>. QED BY <3>2, <3>4, <3>5 DEF InHook, InTool
  <2>. QED BY <1>6, <2>1, <2>2, <2>3 DEF Tool
<1>7. ASSUME NEW b \in Agent, Writer(b)
      PROVE  /\ \A m \in InHook(a)' \ InHook(a) : Deliverable(m)
             /\ \A m \in InTool(a)' \ InTool(a) : Deliverable(m)
  <2>1. ASSUME NEW e \in DOMAIN escs, PollAnswer(b, e) PROVE hook' = hook /\ (tool'[a] = tool[a] \/ tool'[a].stage = "polled")
    <3>1. PICK x : /\ x = [Idle EXCEPT !.stage = "polled", !.ids = {escs[e].reply}]
                   /\ tool' = [tool EXCEPT ![b] = x] /\ hook' = hook
      BY <2>1 DEF PollAnswer
    <3>2. x.stage = "polled"
      BY <3>1 DEF Idle
    <3>. QED BY <1>1, <3>1, <3>2
  <2>2. UNCHANGED <<hook, tool>> \/ \E e \in DOMAIN escs : PollAnswer(b, e)
    BY <1>7 DEF Writer, Send, Reply, AskHuman, AskPeer, ResolveByPeer, PollRetargets
  <2>. QED BY <1>2, <1>3, <2>1, <2>2
<1>8. ASSUME NEW b \in Agent, TabDies(b) \/ DropUnnoticed(b)
      PROVE  /\ \A m \in InHook(a)' \ InHook(a) : Deliverable(m)
             /\ \A m \in InTool(a)' \ InTool(a) : Deliverable(m)
  <2>1. hook'[a] = hook[a] \/ hook'[a].stage \in {"idle", "peeked"}
    <3>1. CASE TabDies(b)
      <4>1. PICK x : /\ x = IF hook[b].stage = "peeked" THEN [hook[b] EXCEPT !.mine = FALSE] ELSE Idle
                     /\ hook' = [hook EXCEPT ![b] = x]
        BY <3>1 DEF TabDies
      <4>2. hook[b] \in HookType
        BY <1>1
      <4>3. x.stage \in {"idle", "peeked"}
        BY <1>4, <4>1, <4>2 DEF HookType
      <4>. QED BY <1>1, <4>1, <4>3
    <3>2. CASE DropUnnoticed(b)
      BY <1>4, <3>2 DEF DropUnnoticed
    <3>. QED BY <1>8, <3>1, <3>2
  <2>2. tool'[a] = tool[a] \/ tool'[a] = Idle
    BY <1>1, <1>8 DEF TabDies, DropUnnoticed
  <2>. QED BY <1>3, <1>4, <2>1, <2>2
<1>9. ASSUME UNCHANGED <<hook, tool>>
      PROVE  /\ \A m \in InHook(a)' \ InHook(a) : Deliverable(m)
             /\ \A m \in InTool(a)' \ InTool(a) : Deliverable(m)
  BY <1>2, <1>9
<1>10. ASSUME NEW b \in Agent, TabOpens(b) PROVE UNCHANGED <<hook, tool>>
  BY <1>10 DEF TabOpens
<1>11. ASSUME NEW e \in DOMAIN escs, ResolveByHuman(e) \/ Dismiss(e) PROVE UNCHANGED <<hook, tool>>
  BY <1>11 DEF ResolveByHuman, Dismiss
<1>12. Clock => UNCHANGED <<hook, tool>>
  BY DEF Clock, RedeliveryDue, MessageLapses, AskLapses, Sweep
<1>13. UNCHANGED vars => UNCHANGED <<hook, tool>>
  BY DEF vars
<1>. QED BY <1>5, <1>6, <1>7, <1>8, <1>9, <1>10, <1>11, <1>12, <1>13 DEF Next

\* A question the human holds is answered by nobody else.
LEMMA LateStep ==
  ASSUME IInv, [Next]_vars, NEW e \in DOMAIN escs,
         escs[e].status = "open", escs[e].to = Human, escs'[e].status = "resolved"
  PROVE  msgs'[escs'[e].reply].from = Human
<1>0. TypeOK /\ RowInv /\ AskInv /\ LapseInv
  BY DEF IInv
<1>1. /\ escs \in Seq(Question) /\ msgs \in Seq(Row) /\ Len(msgs) \in Nat /\ Len(msgs) <= MaxMsg
  BY <1>0, Types
<1>2. ~Turns
  BY DEF Turns, Retells, Retold
<1>3. ASSUME NEW q PROVE escs' # Append(escs, q)
  BY <1>1
<1>4. ASSUME NEW r, Sends(r) PROVE FALSE
  BY <1>4 DEF Sends
<1>5. ASSUME NEW r, NEW k \in DOMAIN escs, Answers(r, k) PROVE msgs'[escs'[e].reply].from = Human
  <2>1. Adds(msgs', r) /\ escs' = Resolved(k, Len(msgs) + 1) /\ (escs[k].to = Human => r.from = Human)
    BY <1>5 DEF Answers
  <2>2. Len(msgs) + 1 \in 0..MaxMsg /\ msgs'[Len(msgs) + 1] = r
    BY <1>1, <2>1, IntercomAssumption DEF Adds
  <2>3. /\ \A x \in DOMAIN escs \ {k} : escs'[x] = escs[x]
        /\ escs'[k].reply = Len(msgs) + 1
    BY <1>0, <2>1, <2>2, ResolvedRows
  <2>4. e = k
    BY <2>3
  <2>. QED BY <2>1, <2>2, <2>3, <2>4
<1>6. ASSUME NEW r, NEW a, NEW to, Asks(r, a, to) PROVE FALSE
  BY <1>3, <1>6 DEF Asks
<1>. QED BY <1>0, <1>2, <1>3, <1>4, <1>5, <1>6, StepTables

\* However late a Stop, a confirmation or an acknowledgement arrives, it settles
\* only what its recipient's current execution was shown, or is being handed.
THEOREM OnlyReadersSettle == Spec => SettledByReader
<1>. DEFINE A == \A m \in DOMAIN msgs :
                   Live(m) /\ msgs'[m].state = "acknowledged" => m \in seen \/ m \in tool'[msgs[m].to].ids
<1>1. IInv /\ [Next]_vars => A
  BY ReaderStep
<1>2. [][A]_vars => SettledByReader
  BY PTL DEF SettledByReader
<1>. HIDE DEF A
<1>3. [][Next]_vars /\ []IInv => [][A]_vars
  BY <1>1, PTL
<1>. QED BY <1>2, <1>3, IntercomAlways, PTL DEF Spec

\* However peeks, claims and pulls interleave, nobody is handed a message that
\* someone else was handed within the redelivery time.
THEOREM NoDoubleDelivery == Spec => HandedOutOnce
<1>. DEFINE A == \A a \in Agent :
                   \A m \in (InHook(a)' \ InHook(a)) \cup (InTool(a)' \ InTool(a)) : Deliverable(m)
<1>1. IInv /\ [Next]_vars => A
  BY HandStep
<1>2. [][A]_vars => HandedOutOnce
  BY PTL DEF HandedOutOnce
<1>. HIDE DEF A
<1>3. [][Next]_vars /\ []IInv => [][A]_vars
  BY <1>1, PTL
<1>. QED BY <1>2, <1>3, IntercomAlways, PTL DEF Spec

\* A question that became the human's is settled by the human alone.
THEOREM HumanAnswersAlone == Spec => LateReplyIsPlain
<1>. DEFINE A == \A e \in DOMAIN escs :
                   escs[e].status = "open" /\ escs[e].to = Human /\ escs'[e].status = "resolved" =>
                     msgs'[escs'[e].reply].from = Human
<1>1. IInv /\ [Next]_vars => A
  BY LateStep
<1>2. [][A]_vars => LateReplyIsPlain
  BY PTL DEF LateReplyIsPlain
<1>. HIDE DEF A
<1>3. [][Next]_vars /\ []IInv => [][A]_vars
  BY <1>1, PTL
<1>. QED BY <1>2, <1>3, IntercomAlways, PTL DEF Spec
=============================================================================

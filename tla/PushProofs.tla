----------------------------- MODULE PushProofs -----------------------------
(***************************************************************************)
(* Proofs about push delivery (IntercomPush), for any delays, retries and  *)
(* bounds.  The inductive invariant says of an attempt that awaits its     *)
(* lookup that a turn which began since is recorded in it (LookInv), and   *)
(* of a pending Enter that its text is the last thing that was typed, or   *)
(* else that somebody typed within its delay (EnterInv).                   *)
(***************************************************************************)
EXTENDS IntercomPush, TLAPS, FiniteSetTheorems, WellFoundedInduction

\* An attempt, and the chain of retries.
LookType  == [life : {"offline", "starting", "idle", "working"}, tries : 0..RetryMax, turned : BOOLEAN]
RetryType == [tries : 1..RetryMax, due : 0..Max({RetryIn, QuickRetryIn})]

\* The types, by what they are about; there is a chain of retries only once
\* there was an attempt.
PlainOK ==
  /\ mode \in {"claude", "hookless"} /\ tab \in {"off", "boot", "prompt", "turn"}
  /\ launches \in 0..MaxLaunches /\ status \in {"none", "idle", "working"}
  /\ line \subseteq {"push", "human"} /\ (tab = "off" => line = {})
  /\ prompt \in {"none", "waiting", "sent"}

ClockOK ==
  /\ inAge \in 0..InputQuiet /\ outAge \in 0..StaleAfter
  /\ pushed \in 0..MarkerTtl /\ enter \in None..EnterDelay

MailOK ==
  /\ next \in Nat \ {0} /\ returns \in Nat /\ next + returns <= MaxMail + 1
  /\ queue \subseteq 1..(next - 1) /\ head \in 0..(next - 1)

ChainOK ==
  /\ looks \in Seq(LookType) /\ Len(looks) <= MaxLooks
  /\ retry = NoRetry \/ (retry \in RetryType /\ MaxLooks > 0)

FlagsOK == owed \in BOOLEAN /\ fresh \in BOOLEAN

\* A turn is under way, as far as the server can tell.
Working ==
  tab # "off" /\ status = "working" /\ ~(mode = "hookless" /\ outAge >= StaleAfter)

\* No attempt that may still nudge began before that turn.
LookInv ==
  \A i \in DOMAIN looks : looks[i].turned \/ ~Pushable(looks[i].life) \/ ~Working

\* A pending Enter follows its text, or will be withheld.
EnterInv == enter # None /\ ~fresh => inAge + enter < EnterDelay

\* The inductive invariant.
IInv == PlainOK /\ ClockOK /\ MailOK /\ ChainOK /\ FlagsOK /\ LookInv /\ EnterInv
-----------------------------------------------------------------------------
(* Numbers.                                                                 *)

\* A set of natural numbers has a least element.
LEMMA Least ==
  ASSUME NEW S, S \subseteq Nat, S # {}
  PROVE  \E x \in S : \A y \in S : x <= y
<1>1. \E x \in S : \A y \in S : ~ (<<y, x>> \in OpToRel(<, Nat))
  BY NatLessThanWellFounded, WFMin
<1>2. PICK x \in S : \A y \in S : ~ (<<y, x>> \in OpToRel(<, Nat))
  BY <1>1
<1>3. \A y \in S : ~(y < x)
  BY <1>2 DEF OpToRel
<1>. QED BY <1>3

\* A bounded one has a greatest.
LEMMA Greatest ==
  ASSUME NEW N \in Nat, NEW S, S \subseteq 0..N, S # {}
  PROVE  Max(S) \in S /\ \A y \in S : Max(S) >= y
<1>. DEFINE T == {N - x : x \in S}
<1>0. S \subseteq Int /\ T \subseteq Nat /\ T # {}
  <2>1. \A x \in S : x \in 0..N
    OBVIOUS
  <2>2. \A x \in S : x \in Int /\ N - x \in Nat
    BY <2>1
  <2>. QED BY <2>2
<1>. HIDE DEF T
<1>1. PICK t \in T : \A u \in T : t <= u
  BY <1>0, Least
<1>2. PICK x \in S : t = N - x
  BY DEF T
<1>3. \A y \in S : N - x <= N - y
  BY <1>1, <1>2 DEF T
<1>4. \A y \in S : x >= y
  BY <1>0, <1>3
<1>. QED BY <1>4 DEF Max

\* The least and the greatest of two.
LEMMA OfTwo ==
  ASSUME NEW a \in Int, NEW b \in Int
  PROVE  /\ Min({a, b}) = IF a <= b THEN a ELSE b
         /\ Max({a, b}) = IF a >= b THEN a ELSE b
<1>1. \E x \in {a, b} : \A y \in {a, b} : x =< y
  OBVIOUS
<1>2. Min({a, b}) \in {a, b} /\ \A y \in {a, b} : Min({a, b}) =< y
  BY <1>1 DEF Min
<1>3. \E x \in {a, b} : \A y \in {a, b} : x >= y
  OBVIOUS
<1>4. Max({a, b}) \in {a, b} /\ \A y \in {a, b} : Max({a, b}) >= y
  BY <1>3 DEF Max
<1>. HIDE DEF Min, Max
<1>. QED BY <1>2, <1>4

\* The head of an inbox is one of its messages.
LEMMA NewestIn ==
  ASSUME NEW N \in Nat, NEW Q, Q \subseteq 1..N, Q # {}
  PROVE  Newest(Q) \in Q
<1>. DEFINE H == {m \in Q : Cardinality({q \in Q : q <= m}) <= PullLimit}
<1>0. Q \subseteq Nat
  OBVIOUS
<1>1. PICK m \in Q : \A q \in Q : m <= q
  BY <1>0, Least
<1>2. {q \in Q : q <= m} = {m}
  <2>1. \A q \in Q : q <= m <=> q = m
    <3>1. \A q \in Q : q \in Int
      BY <1>0
    <3>. QED BY <1>1, <3>1
  <2>. QED BY <2>1
<1>3. Cardinality({m}) = 1
  BY FS_Singleton
<1>4. m \in H
  <2>1. 1 <= PullLimit
    BY PushAssumption
  <2>. QED BY <1>2, <1>3, <2>1
<1>5. H \subseteq 0..N
  <2>1. \A q \in Q : q \in 0..N
    <3>1. \A q \in Q : q \in 1..N
      OBVIOUS
    <3>. QED BY <3>1
  <2>. QED BY <2>1
<1>. HIDE DEF H
<1>6. Max(H) \in H
  BY <1>4, <1>5, Greatest
<1>. QED BY <1>6 DEF H, Newest

\* The delays and the bounds are numbers.
LEMMA Bounds ==
  /\ InputQuiet \in Nat \ {0} /\ OutputQuiet \in Nat \ {0} /\ EnterDelay \in Nat \ {0}
  /\ MarkerTtl \in Nat \ {0} /\ RetryIn \in Nat \ {0} /\ QuickRetryIn \in Nat \ {0}
  /\ RetryMax \in Nat /\ MaxMail \in Nat /\ MaxLaunches \in Nat /\ MaxLooks \in Nat
  /\ EnterDelay <= InputQuiet /\ StaleAfter \in Nat
  /\ Max({RetryIn, QuickRetryIn}) \in Nat
  /\ RetryIn <= Max({RetryIn, QuickRetryIn}) /\ QuickRetryIn <= Max({RetryIn, QuickRetryIn})
<1>1. /\ InputQuiet \in Nat \ {0} /\ OutputQuiet \in Nat \ {0} /\ EnterDelay \in Nat \ {0}
      /\ MarkerTtl \in Nat \ {0} /\ RetryIn \in Nat \ {0} /\ QuickRetryIn \in Nat \ {0}
      /\ RetryMax \in Nat /\ MaxMail \in Nat /\ MaxLaunches \in Nat /\ MaxLooks \in Nat
      /\ EnterDelay <= InputQuiet /\ StaleAfter \in Nat
  BY PushAssumption
<1>2. Max({RetryIn, QuickRetryIn}) = IF RetryIn >= QuickRetryIn THEN RetryIn ELSE QuickRetryIn
  BY <1>1, OfTwo
<1>. QED BY <1>1, <1>2

\* The types of the model, from those of the proof.
LEMMA TypesHold == PlainOK /\ ClockOK /\ MailOK /\ ChainOK /\ FlagsOK => TypeOK
<1>. SUFFICES ASSUME PlainOK, ClockOK, MailOK, ChainOK, FlagsOK PROVE TypeOK
  OBVIOUS
<1>1. retry.tries \in 0..RetryMax /\ retry.due \in None..Max({RetryIn, QuickRetryIn})
  <2>. DEFINE D == Max({RetryIn, QuickRetryIn})
  <2>1. D \in Nat /\ RetryMax \in Nat
    BY Bounds
  <2>2. CASE retry = NoRetry
    BY <2>1, <2>2 DEF NoRetry, None
  <2>3. CASE retry \in RetryType
    <3>. HIDE DEF D
    <3>1. retry.tries \in 1..RetryMax /\ retry.due \in 0..D
      BY <2>3 DEF RetryType, D
    <3>2. retry.tries \in 0..RetryMax /\ retry.due \in None..D
      BY <2>1, <3>1 DEF None
    <3>. QED BY <3>2 DEF D
  <2>. QED BY <2>2, <2>3 DEF ChainOK
<1>2. next + returns \in 1..(MaxMail + 1)
  BY Bounds DEF MailOK
<1>3. owed \in BOOLEAN /\ fresh \in BOOLEAN
  BY DEF FlagsOK
<1>. QED BY <1>1, <1>2, <1>3 DEF TypeOK, PlainOK, ClockOK, MailOK, ChainOK
-----------------------------------------------------------------------------
(* The types.                                                               *)

\* The tab and its line: only a tab that runs is typed into.
LEMMA PlainStep == PlainOK /\ [Next]_vars => PlainOK'
<1>. SUFFICES ASSUME PlainOK, [Next]_vars PROVE PlainOK'
  OBVIOUS
<1>. USE Bounds DEF PlainOK
<1>1. CASE Launch
  BY <1>1 DEF Launch
<1>2. CASE Ready
  BY <1>2 DEF Ready
<1>3. CASE Exit
  BY <1>3 DEF Exit
<1>4. CASE Type
  BY <1>4 DEF Type, session
<1>5. CASE HumanEnter
  BY <1>5 DEF HumanEnter, Submit
<1>6. CASE Output
  BY <1>6 DEF Output, session
<1>7. CASE PostWorking \/ PostDone \/ Interrupt \/ IdleNotice
  BY <1>7 DEF PostWorking, PostDone, Interrupt, IdleNotice
<1>8. CASE Arrive \/ Leave \/ Return
  BY <1>8 DEF Arrive, Leave, Return, session
<1>9. CASE Skip \/ Defer \/ Retry
  BY <1>9 DEF Skip, Defer, Retry, session
<1>10. CASE Nudge
  BY <1>10 DEF Nudge, Owing, WriteText, session
<1>11. CASE FireEnter
  BY <1>11 DEF FireEnter, Submit
<1>12. CASE TypePrompt
  BY <1>12 DEF TypePrompt, WriteText, session
<1>13. CASE GiveUpPrompt \/ Tick
  BY <1>13 DEF GiveUpPrompt, Tick, session
<1>14. CASE ConfirmPrompt
  BY <1>14 DEF ConfirmPrompt, Submit
<1>15. CASE UNCHANGED vars
  BY <1>15 DEF vars, session
<1>. QED BY <1>1, <1>2, <1>3, <1>4, <1>5, <1>6, <1>7, <1>8, <1>9, <1>10, <1>11, <1>12, <1>13, <1>14, <1>15
         DEF Next, Decide

\* The ages and the Enter's delay.
LEMMA ClockStep == ClockOK /\ [Next]_vars => ClockOK'
<1>. SUFFICES ASSUME ClockOK, [Next]_vars PROVE ClockOK'
  OBVIOUS
<1>. USE Bounds DEF ClockOK, None
<1>1. CASE Launch \/ Ready \/ Interrupt \/ IdleNotice
  BY <1>1 DEF Launch, Ready, Interrupt, IdleNotice, clocks, chain
<1>2. CASE Exit
  BY <1>2 DEF Exit, Forget, ClearTab
<1>3. CASE Type
  BY <1>3 DEF Type, chain
<1>4. CASE HumanEnter
  BY <1>4 DEF HumanEnter, TurnStarted, ClearTab, chain
<1>5. CASE Output
  BY <1>5 DEF Output, chain
<1>6. CASE PostWorking \/ PostDone
  BY <1>6 DEF PostWorking, PostDone, TurnStarted, ClearTab, clocks
<1>7. CASE Arrive \/ Leave \/ Return
  BY <1>7 DEF Arrive, Leave, Return, clocks, chain
<1>8. CASE Skip \/ Defer \/ Retry
  BY <1>8 DEF Skip, Defer, Retry, clocks
<1>9. CASE Nudge
  BY <1>9 DEF Nudge, WriteText, clocks
<1>10. CASE FireEnter
  BY <1>10 DEF FireEnter, clocks
<1>11. CASE TypePrompt
  BY <1>11 DEF TypePrompt, WriteText, clocks
<1>12. CASE GiveUpPrompt \/ ConfirmPrompt
  BY <1>12 DEF GiveUpPrompt, ConfirmPrompt, clocks, chain
<1>13. CASE Tick
  <2>1. /\ Min({inAge + 1, InputQuiet}) = IF inAge + 1 <= InputQuiet THEN inAge + 1 ELSE InputQuiet
        /\ Min({outAge + 1, StaleAfter}) = IF outAge + 1 <= StaleAfter THEN outAge + 1 ELSE StaleAfter
        /\ Min({pushed + 1, MarkerTtl}) = IF pushed + 1 <= MarkerTtl THEN pushed + 1 ELSE MarkerTtl
    BY OfTwo
  <2>2. /\ inAge' = Min({inAge + 1, InputQuiet}) /\ outAge' = Min({outAge + 1, StaleAfter})
        /\ pushed' = Min({pushed + 1, MarkerTtl}) /\ enter # 0
        /\ enter' = IF enter = None THEN None ELSE enter - 1
    BY <1>13 DEF Tick
  <2>. QED BY <2>1, <2>2
<1>14. CASE UNCHANGED vars
  BY <1>14 DEF vars, clocks, chain
<1>. QED BY <1>1, <1>2, <1>3, <1>4, <1>5, <1>6, <1>7, <1>8, <1>9, <1>10, <1>11, <1>12, <1>13, <1>14
         DEF Next, Decide

\* The inbox, and the message last nudged about.
LEMMA MailStep == MailOK /\ [Next]_vars => MailOK'
<1>. SUFFICES ASSUME MailOK, [Next]_vars PROVE MailOK'
  OBVIOUS
<1>. USE Bounds DEF MailOK
<1>1. CASE Launch \/ Ready \/ Interrupt \/ IdleNotice \/ Type \/ Output
  BY <1>1 DEF Launch, Ready, Interrupt, IdleNotice, Type, Output, inbox, chain
<1>2. CASE Exit
  BY <1>2 DEF Exit, Forget, ClearTab, inbox
<1>3. CASE HumanEnter
  BY <1>3 DEF HumanEnter, TurnStarted, inbox, chain
<1>4. CASE PostWorking \/ PostDone
  BY <1>4 DEF PostWorking, PostDone, TurnStarted, inbox
<1>5. CASE Arrive
  <2>1. /\ next + returns <= MaxMail /\ queue' = queue \cup {next} /\ next' = next + 1
        /\ returns' = returns /\ head' = head
    BY <1>5 DEF Arrive
  <2>2. \A m \in queue : m \in 1..(next - 1)
    OBVIOUS
  <2>3. \A m \in queue' : m \in 1..(next' - 1)
    BY <2>1, <2>2
  <2>. QED BY <2>1, <2>3
<1>6. CASE Leave
  BY <1>6 DEF Leave, chain
<1>7. CASE Return
  BY <1>7 DEF Return, chain
<1>8. CASE Skip \/ Defer \/ Retry
  BY <1>8 DEF Skip, Defer, Retry, inbox
<1>9. CASE Nudge
  <2>1. queue # {} /\ head' = Newest(queue) /\ UNCHANGED inbox
    BY <1>9 DEF Nudge, Owing
  <2>2. Newest(queue) \in queue
    <3>1. next - 1 \in Nat /\ queue \subseteq 1..(next - 1)
      OBVIOUS
    <3>. QED BY <2>1, <3>1, NewestIn
  <2>3. Newest(queue) \in 1..(next - 1)
    BY <2>2
  <2>4. Newest(queue) \in 0..(next - 1)
    BY <2>3
  <2>. QED BY <2>1, <2>4 DEF inbox
<1>10. CASE FireEnter \/ TypePrompt
  BY <1>10 DEF FireEnter, TypePrompt, inbox
<1>11. CASE GiveUpPrompt \/ ConfirmPrompt \/ Tick
  BY <1>11 DEF GiveUpPrompt, ConfirmPrompt, Tick, inbox, chain
<1>12. CASE UNCHANGED vars
  BY <1>12 DEF vars, inbox, chain
<1>. QED BY <1>1, <1>2, <1>3, <1>4, <1>5, <1>6, <1>7, <1>8, <1>9, <1>10, <1>11, <1>12 DEF Next, Decide

\* What the server makes of a tab.
LEMMA Lives ==
  ASSUME PlainOK
  PROVE  /\ Lifecycle \in {"offline", "starting", "idle", "working"}
         /\ Lifecycle = "working" <=> Working
  BY DEF PlainOK, Lifecycle, Working

\* Attempts come and go one by one, and a turn is recorded in all of them.
LEMMA Looks ==
  ASSUME ChainOK
  PROVE  /\ looks # <<>> =>
              /\ First \in LookType /\ 1 \in DOMAIN looks /\ MaxLooks > 0
              /\ Tail(looks) \in Seq(LookType) /\ Len(Tail(looks)) <= MaxLooks
              /\ \A i \in DOMAIN Tail(looks) : i + 1 \in DOMAIN looks /\ Tail(looks)[i] = looks[i + 1]
         /\ Turned \in Seq(LookType) /\ Len(Turned) = Len(looks) /\ DOMAIN Turned = DOMAIN looks
         /\ \A i \in DOMAIN Turned : Turned[i].turned = TRUE
         /\ \A life \in {"offline", "starting", "idle", "working"}, n \in 0..RetryMax :
              Look(life, n) \in LookType /\ Look(life, n).life = life /\ Look(life, n).turned = FALSE
<1>. USE Bounds
<1>1. looks \in Seq(LookType) /\ Len(looks) \in Nat /\ Len(looks) <= MaxLooks /\ DOMAIN looks = 1..Len(looks)
  BY DEF ChainOK
<1>2. ASSUME looks # <<>>
      PROVE  /\ First \in LookType /\ 1 \in DOMAIN looks /\ MaxLooks > 0
             /\ Tail(looks) \in Seq(LookType) /\ Len(Tail(looks)) <= MaxLooks
             /\ \A i \in DOMAIN Tail(looks) : i + 1 \in DOMAIN looks /\ Tail(looks)[i] = looks[i + 1]
  <2>1. Len(looks) >= 1 /\ 1 \in DOMAIN looks /\ looks[1] \in LookType
    BY <1>1, <1>2
  <2>2. Tail(looks) \in Seq(LookType) /\ Len(Tail(looks)) = Len(looks) - 1
    BY <1>1, <1>2
  <2>3. \A i \in DOMAIN Tail(looks) : i + 1 \in DOMAIN looks /\ Tail(looks)[i] = looks[i + 1]
    BY <1>1, <2>1, <2>2
  <2>. QED BY <1>1, <2>1, <2>2, <2>3 DEF First
<1>3. \A i \in DOMAIN looks : [looks[i] EXCEPT !.turned = TRUE] \in LookType /\ [looks[i] EXCEPT !.turned = TRUE].turned = TRUE
  <2>1. \A i \in DOMAIN looks : looks[i] \in LookType
    BY <1>1
  <2>. QED BY <2>1 DEF LookType
<1>4. /\ Turned \in [1..Len(looks) -> LookType]
      /\ \A i \in DOMAIN looks : Turned[i].turned = TRUE
  BY <1>1, <1>3 DEF Turned
<1>5. Turned \in Seq(LookType) /\ Len(Turned) = Len(looks) /\ DOMAIN Turned = DOMAIN looks
  BY <1>1, <1>4
<1>6. ASSUME NEW life \in {"offline", "starting", "idle", "working"}, NEW n \in 0..RetryMax
      PROVE  Look(life, n) \in LookType /\ Look(life, n).life = life /\ Look(life, n).turned = FALSE
  BY DEF Look, LookType
<1>. QED BY <1>2, <1>4, <1>5, <1>6

\* The attempts and their retries: the next try of a chain is counted.
LEMMA ChainStep == PlainOK /\ ChainOK /\ [Next]_vars => ChainOK'
<1>. SUFFICES ASSUME PlainOK, ChainOK, [Next]_vars PROVE ChainOK'
  OBVIOUS
<1>0. looks \in Seq(LookType) /\ Len(looks) \in Nat /\ Len(looks) <= MaxLooks /\ 0 \in 0..RetryMax
  BY Bounds DEF ChainOK
<1>1. ASSUME UNCHANGED <<looks, retry>> PROVE ChainOK'
  BY <1>1 DEF ChainOK, NoRetry
<1>2. ASSUME NEW life \in {"offline", "starting", "idle", "working"}, Consider(life), UNCHANGED retry
      PROVE  ChainOK'
  <2>1. looks' = Append(looks, Look(life, 0)) /\ Look(life, 0) \in LookType /\ Len(looks) < MaxLooks
    BY <1>0, <1>2, Looks DEF Consider
  <2>2. looks' \in Seq(LookType) /\ Len(looks') <= MaxLooks
    BY <1>0, <2>1, Bounds
  <2>. QED BY <1>2, <2>2 DEF ChainOK, NoRetry
<1>3. ASSUME ClearTab, looks' = looks \/ looks' = Turned
      PROVE  ChainOK'
  <2>1. looks' \in Seq(LookType) /\ Len(looks') <= MaxLooks
    BY <1>0, <1>3, Looks
  <2>2. retry' = NoRetry
    BY <1>3 DEF ClearTab
  <2>. QED BY <2>1, <2>2 DEF ChainOK, NoRetry
<1>4. ASSUME looks # <<>>, looks' = Tail(looks), retry' = retry \/ retry' = NoRetry \/ retry' \in RetryType
      PROVE  ChainOK'
  <2>1. looks' \in Seq(LookType) /\ Len(looks') <= MaxLooks /\ MaxLooks > 0
    BY <1>4, Looks
  <2>. QED BY <1>4, <2>1 DEF ChainOK, NoRetry
<1>5. CASE Launch \/ Type \/ Output \/ Interrupt \/ Leave \/ Return \/ FireEnter \/ TypePrompt \/ GiveUpPrompt \/ ConfirmPrompt
  BY <1>1, <1>5 DEF Launch, Type, Output, Interrupt, Leave, Return, FireEnter, TypePrompt, GiveUpPrompt, ConfirmPrompt, chain
<1>6. CASE Ready
  <2>1. (Consider("idle") \/ UNCHANGED looks) /\ UNCHANGED retry
    BY <1>6 DEF Ready
  <2>. QED BY <1>1, <1>2, <2>1
<1>7. CASE IdleNotice
  BY <1>2, <1>7 DEF IdleNotice
<1>8. CASE Arrive
  BY <1>2, <1>8, Lives DEF Arrive
<1>9. CASE Exit
  BY <1>3, <1>9 DEF Exit, Forget
<1>10. CASE HumanEnter \/ PostWorking
  <2>1. (TurnStarted /\ looks' = Turned) \/ UNCHANGED chain
    BY <1>10 DEF HumanEnter, PostWorking
  <2>. QED BY <1>1, <1>3, <2>1 DEF TurnStarted, chain
<1>11. CASE PostDone
  <2>1. CASE mode = "hookless"
    <3>1. ClearTab /\ looks' = Append(Turned, Look("idle", 0)) /\ Len(looks) < MaxLooks
      BY <1>11, <2>1 DEF PostDone, TurnStarted
    <3>2. Turned \in Seq(LookType) /\ Len(Turned) = Len(looks) /\ Look("idle", 0) \in LookType
      BY <1>0, Looks
    <3>3. looks' \in Seq(LookType) /\ Len(looks') <= MaxLooks
      BY <1>0, <3>1, <3>2, Bounds
    <3>4. retry' = NoRetry
      BY <3>1 DEF ClearTab
    <3>. QED BY <3>3, <3>4 DEF ChainOK, NoRetry
  <2>2. CASE mode # "hookless"
    BY <1>2, <1>11, <2>2 DEF PostDone
  <2>. QED BY <2>1, <2>2
<1>12. CASE Skip \/ Nudge
  BY <1>4, <1>12 DEF Skip, Nudge
<1>13. CASE Defer
  <2>1. looks # <<>> /\ looks' = Tail(looks) /\ First.tries < RetryMax /\ retry' = Retried
    <3>1. First \in LookType /\ RetryMax \in Nat
      BY <1>13, Looks, Bounds DEF Defer
    <3>. QED BY <1>13, <3>1 DEF Defer, Spent, LookType
  <2>2. First.tries \in 0..RetryMax
    <3>1. First \in LookType
      BY <2>1, Looks
    <3>. QED BY <3>1 DEF LookType
  <2>3. PICK D \in Nat : D = Max({RetryIn, QuickRetryIn}) /\ RetryIn \in 0..D /\ QuickRetryIn \in 0..D
    BY Bounds
  <2>4. First.tries + 1 \in 1..RetryMax
    BY <2>1, <2>2, Bounds
  <2>5. Retried \in RetryType
    BY <2>3, <2>4 DEF Retried, RetryType
  <2>. QED BY <1>4, <2>1, <2>5
<1>14. CASE Retry
  <2>1. retry' = NoRetry /\ looks' = <<Look(Lifecycle, retry.tries)>> /\ retry.due = 0
    BY <1>14 DEF Retry
  <2>2. retry \in RetryType /\ MaxLooks > 0
    BY <2>1 DEF ChainOK, NoRetry, None
  <2>3. retry.tries \in 0..RetryMax
    BY <2>2, Bounds DEF RetryType
  <2>4. Look(Lifecycle, retry.tries) \in LookType
    BY <2>3, Looks, Lives
  <2>5. looks' \in Seq(LookType) /\ Len(looks') <= MaxLooks
    BY <2>1, <2>2, <2>4, Bounds
  <2>. QED BY <2>1, <2>5 DEF ChainOK, NoRetry
<1>15. CASE Tick
  <2>1. looks' = looks /\ retry.due # 0 /\ retry' = IF retry = NoRetry THEN NoRetry ELSE [retry EXCEPT !.due = @ - 1]
    BY <1>15 DEF Tick
  <2>2. CASE retry = NoRetry
    BY <1>1, <2>1, <2>2
  <2>3. CASE retry # NoRetry
    <3>1. PICK D \in Nat : D = Max({RetryIn, QuickRetryIn})
      BY Bounds
    <3>2. retry \in RetryType /\ MaxLooks > 0 /\ retry' = [retry EXCEPT !.due = @ - 1]
      BY <2>1, <2>3 DEF ChainOK
    <3>3. retry' \in RetryType
      BY <2>1, <3>1, <3>2 DEF RetryType
    <3>. QED BY <1>0, <2>1, <3>2, <3>3 DEF ChainOK
  <2>. QED BY <2>2, <2>3
<1>16. CASE UNCHANGED vars
  BY <1>1, <1>16 DEF vars, chain
<1>. QED BY <1>5, <1>6, <1>7, <1>8, <1>9, <1>10, <1>11, <1>12, <1>13, <1>14, <1>15, <1>16 DEF Next, Decide

\* The history flags.
LEMMA FlagsStep == FlagsOK /\ [Next]_vars => FlagsOK'
<1>. SUFFICES ASSUME FlagsOK, [Next]_vars PROVE FlagsOK'
  OBVIOUS
<1>. USE DEF FlagsOK
<1>1. CASE Launch \/ Ready \/ Interrupt \/ IdleNotice \/ Output
  BY <1>1, Zenon DEF Launch, Ready, Interrupt, IdleNotice, Output
<1>2. CASE Exit \/ PostWorking
  <2>1. owed' = FALSE /\ fresh' = FALSE
    BY <1>2, Zenon DEF Exit, PostWorking, Forget, TurnStarted, ClearTab
  <2>. QED BY <2>1
<1>3. CASE Type
  BY <1>3, Zenon DEF Type
<1>4. CASE HumanEnter
  <2>1. (owed' = FALSE /\ fresh' = FALSE) \/ (owed' = owed /\ fresh' = (fresh /\ enter = EnterDelay))
    BY <1>4, Zenon DEF HumanEnter, TurnStarted, ClearTab
  <2>. QED BY <2>1, Zenon
<1>5. CASE PostDone
  <2>1. (owed' = FALSE /\ fresh' = FALSE) \/ (owed' = owed /\ fresh' = fresh)
    BY <1>5, Zenon DEF PostDone, TurnStarted, ClearTab
  <2>. QED BY <2>1, Zenon
<1>6. CASE Arrive
  BY <1>6, Zenon DEF Arrive
<1>7. CASE Leave
  BY <1>7, Zenon DEF Leave, chain
<1>8. CASE Return
  BY <1>8, Zenon DEF Return, chain
<1>9. CASE Skip
  <2>1. owed' \in {owed, FALSE} /\ fresh' = fresh
    BY <1>9, Zenon DEF Skip
  <2>. QED BY <2>1, Zenon
<1>10. CASE Defer \/ Retry
  BY <1>10, Zenon DEF Defer, Retry
<1>11. CASE Nudge
  BY <1>11, Zenon DEF Nudge, WriteText
<1>12. CASE FireEnter
  BY <1>12, Zenon DEF FireEnter
<1>13. CASE TypePrompt
  BY <1>13, Zenon DEF TypePrompt, WriteText
<1>14. CASE GiveUpPrompt \/ ConfirmPrompt \/ Tick
  BY <1>14, Zenon DEF GiveUpPrompt, ConfirmPrompt, Tick
<1>15. CASE UNCHANGED vars
  BY <1>15, Zenon DEF vars
<1>. QED BY <1>1, <1>2, <1>3, <1>4, <1>5, <1>6, <1>7, <1>8, <1>9, <1>10, <1>11, <1>12, <1>13, <1>14, <1>15
         DEF Next, Decide
-----------------------------------------------------------------------------
(* Turns, and the Enter.                                                    *)

\* A turn that begins is recorded in every attempt under way, and an attempt
\* that begins in a turn does not nudge.
LEMMA LookStep == PlainOK /\ ChainOK /\ LookInv /\ [Next]_vars => LookInv'
<1>. SUFFICES ASSUME PlainOK, ChainOK, LookInv, [Next]_vars PROVE LookInv'
  OBVIOUS
<1>0. looks \in Seq(LookType) /\ Len(looks) \in Nat /\ DOMAIN looks = 1..Len(looks) /\ 0 \in 0..RetryMax
  BY Bounds DEF ChainOK
<1>1. ASSUME Working' => Working, mode' = mode,
             \A i \in DOMAIN looks' : \E j \in DOMAIN looks : looks'[i] = looks[j]
      PROVE  LookInv'
  BY <1>1 DEF LookInv, Pushable
<1>2. ASSUME Settled, UNCHANGED looks PROVE LookInv'
  BY <1>2 DEF Settled, LookInv
<1>3. ASSUME ~Working' PROVE LookInv'
  BY <1>3 DEF LookInv
<1>4. CASE Launch \/ Type \/ Output \/ Interrupt \/ FireEnter \/ TypePrompt \/ GiveUpPrompt \/ ConfirmPrompt \/ Tick
  BY <1>2, <1>4 DEF Launch, Type, Output, Interrupt, FireEnter, TypePrompt, GiveUpPrompt, ConfirmPrompt, Tick, chain
<1>5. CASE Ready
  <2>1. CASE mode = "claude"
    BY <1>3, <1>5, <2>1 DEF Ready, Working
  <2>2. CASE mode # "claude"
    BY <1>1, <1>5, <2>2 DEF Ready, Working, clocks
  <2>. QED BY <2>1, <2>2
<1>6. CASE IdleNotice \/ PostDone
  BY <1>3, <1>6 DEF IdleNotice, PostDone, Working
<1>7. CASE Exit
  BY <1>3, <1>7 DEF Exit, Working
<1>8. CASE HumanEnter
  <2>1. looks' = looks \/ looks' = Turned
    BY <1>8 DEF HumanEnter, chain
  <2>2. CASE looks' = looks
    BY <1>2, <1>8, <2>2 DEF HumanEnter
  <2>3. CASE looks' = Turned
    BY <2>3, Looks DEF LookInv
  <2>. QED BY <2>1, <2>2, <2>3
<1>9. CASE PostWorking
  BY <1>9, Looks DEF PostWorking, LookInv
<1>10. CASE Arrive
  <2>1. PICK l : l = Look(Lifecycle, 0)
    OBVIOUS
  <2>2. looks' = Append(looks, l) /\ UNCHANGED session /\ UNCHANGED clocks
    BY <1>10, <2>1 DEF Arrive, Consider
  <2>3. l \in LookType /\ l.life = Lifecycle
    BY <1>0, <2>1, Looks, Lives
  <2>4. (Working' <=> Working) /\ mode' = mode
    BY <2>2 DEF Working, session, clocks
  <2>5. Working => ~Pushable(l.life)
    BY <2>3, Lives DEF Pushable
  <2>6. \A i \in DOMAIN looks' : looks'[i] = l \/ (i \in DOMAIN looks /\ looks'[i] = looks[i])
    BY <1>0, <2>2, <2>3
  <2>. QED BY <2>4, <2>5, <2>6 DEF LookInv, Pushable
<1>11. CASE Leave \/ Return
  BY <1>1, <1>11 DEF Leave, Return, Working, session, clocks, chain
<1>12. CASE Skip \/ Defer \/ Nudge
  <2>1. looks # <<>> /\ looks' = Tail(looks) /\ UNCHANGED <<session, clocks>>
    BY <1>12 DEF Skip, Defer, Nudge
  <2>2. \A i \in DOMAIN looks' : i + 1 \in DOMAIN looks /\ looks'[i] = looks[i + 1]
    BY <2>1, Looks
  <2>3. (Working' => Working) /\ mode' = mode
    BY <2>1 DEF Working, session, clocks
  <2>. QED BY <1>1, <2>2, <2>3
<1>13. CASE Retry
  <2>1. PICK l : l = Look(Lifecycle, retry.tries)
    OBVIOUS
  <2>2. looks' = <<l>> /\ UNCHANGED session /\ UNCHANGED clocks
    BY <1>13, <2>1 DEF Retry
  <2>3. l.life = Lifecycle
    BY <2>1 DEF Look
  <2>4. (Working' <=> Working) /\ mode' = mode
    BY <2>2 DEF Working, session, clocks
  <2>5. Working => ~Pushable(l.life)
    BY <2>3, Lives DEF Pushable
  <2>6. \A i \in DOMAIN looks' : looks'[i] = l
    BY <2>2
  <2>. QED BY <2>4, <2>5, <2>6 DEF LookInv, Pushable
<1>14. CASE UNCHANGED vars
  BY <1>1, <1>14 DEF vars, Working, session, clocks, chain
<1>. QED BY <1>4, <1>5, <1>6, <1>7, <1>8, <1>9, <1>10, <1>11, <1>12, <1>13, <1>14 DEF Next, Decide

\* Whoever types after the text is written withholds its Enter: what has passed
\* since and what the Enter still waits for make less than its delay.
LEMMA EnterStep == ClockOK /\ EnterInv /\ [Next]_vars => EnterInv'
<1>. SUFFICES ASSUME ClockOK, EnterInv, [Next]_vars, enter' # None, ~fresh'
              PROVE  inAge' + enter' < EnterDelay
  BY DEF EnterInv
<1>0. /\ inAge \in Int /\ inAge >= 0 /\ enter \in Int /\ enter <= EnterDelay /\ EnterDelay \in Nat \ {0}
      /\ InputQuiet \in Nat
  BY Bounds DEF ClockOK, None
<1>1. enter # None /\ ~fresh => inAge + enter < EnterDelay
  BY DEF EnterInv
<1>2. ASSUME UNCHANGED <<enter, inAge, fresh>> PROVE inAge' + enter' < EnterDelay
  BY <1>1, <1>2
<1>3. ASSUME ClearTab PROVE FALSE
  BY <1>3 DEF ClearTab
<1>4. ASSUME WriteText PROVE FALSE
  BY <1>4 DEF WriteText
<1>5. ASSUME inAge' = 0, enter' = enter, fresh' = (fresh /\ enter = EnterDelay)
      PROVE  inAge' + enter' < EnterDelay
  <2>1. ~fresh \/ enter # EnterDelay
    BY <1>5, Zenon
  <2>2. enter # None
    BY <1>5
  <2>3. enter # EnterDelay
    <3>. SUFFICES ASSUME enter = EnterDelay PROVE FALSE
      OBVIOUS
    <3>1. inAge + enter < EnterDelay
      BY <1>1, <2>1, <2>2
    <3>. QED BY <1>0, <3>1
  <2>. QED BY <1>0, <1>5, <2>3
<1>6. CASE Launch \/ Ready \/ Interrupt \/ IdleNotice \/ Output
  BY <1>2, <1>6 DEF Launch, Ready, Interrupt, IdleNotice, Output, clocks, chain
<1>7. CASE Exit \/ PostWorking
  BY <1>3, <1>7 DEF Exit, PostWorking, Forget, TurnStarted
<1>8. CASE Type
  BY <1>5, <1>8 DEF Type, chain
<1>9. CASE HumanEnter
  BY <1>3, <1>5, <1>9 DEF HumanEnter, TurnStarted, chain
<1>10. CASE PostDone
  BY <1>2, <1>3, <1>10 DEF PostDone, TurnStarted, clocks
<1>11. CASE Arrive \/ Leave \/ Return
  BY <1>2, <1>11 DEF Arrive, Leave, Return, clocks, chain
<1>12. CASE Skip \/ Defer \/ Retry
  BY <1>2, <1>12 DEF Skip, Defer, Retry, clocks
<1>13. CASE Nudge \/ TypePrompt
  BY <1>4, <1>13 DEF Nudge, TypePrompt
<1>14. CASE FireEnter
  BY <1>14 DEF FireEnter
<1>15. CASE GiveUpPrompt \/ ConfirmPrompt
  BY <1>2, <1>15 DEF GiveUpPrompt, ConfirmPrompt, clocks, chain
<1>16. CASE Tick
  <2>1. /\ inAge' = Min({inAge + 1, InputQuiet}) /\ enter' = (IF enter = None THEN None ELSE enter - 1)
        /\ fresh' = fresh
    BY <1>16 DEF Tick
  <2>2. inAge' \in Int /\ inAge' <= inAge + 1
    BY <1>0, <2>1, OfTwo
  <2>3. enter # None /\ enter' = enter - 1 /\ ~fresh
    BY <2>1
  <2>4. inAge + enter < EnterDelay
    BY <1>1, <2>3
  <2>5. \A i, j, x, y, d \in Int : j <= i + 1 /\ y = x - 1 /\ i + x < d => j + y < d
    OBVIOUS
  <2>6. enter' \in Int /\ EnterDelay \in Int
    BY <1>0, <2>3
  <2>. QED BY <1>0, <2>2, <2>3, <2>4, <2>5, <2>6
<1>17. CASE UNCHANGED vars
  BY <1>2, <1>17 DEF vars, clocks, chain
<1>. QED BY <1>6, <1>7, <1>8, <1>9, <1>10, <1>11, <1>12, <1>13, <1>14, <1>15, <1>16, <1>17 DEF Next, Decide
-----------------------------------------------------------------------------
(* The theorems.                                                            *)

\* A tab that was not opened yet.
LEMMA InitIInv == Init => IInv
<1>. SUFFICES ASSUME Init PROVE IInv
  OBVIOUS
<1>. USE Bounds DEF Init
<1>1. PlainOK
  BY DEF PlainOK
<1>2. ClockOK
  BY DEF ClockOK, None
<1>3. MailOK
  BY DEF MailOK
<1>4. ChainOK
  BY DEF ChainOK
<1>5. FlagsOK
  BY Zenon DEF FlagsOK
<1>6. LookInv /\ EnterInv
  BY DEF LookInv, EnterInv
<1>. QED BY <1>1, <1>2, <1>3, <1>4, <1>5, <1>6 DEF IInv

\* The inductive invariant holds, for any delays, retries and bounds.
THEOREM PushAlways == Spec => []IInv
<1>1. IInv /\ [Next]_vars => IInv'
  BY PlainStep, ClockStep, MailStep, ChainStep, FlagsStep, LookStep, EnterStep DEF IInv
<1>. QED BY <1>1, InitIInv, PTL DEF Spec

\* Type correctness of the pusher, its timers and its tab.
THEOREM PushTypeCorrect == Spec => []TypeOK
<1>1. IInv => TypeOK
  BY TypesHold DEF IInv
<1>. QED BY <1>1, PushAlways, PTL

\* Only a nudge starts the marker's minute.
LEMMA TypedIsNudge ==
  ASSUME ClockOK, [Next]_vars, Typed
  PROVE  Nudge
<1>1. pushed \in Int /\ pushed >= 0 /\ pushed # 0 /\ pushed' = 0 /\ MarkerTtl \in Nat \ {0}
  BY Bounds DEF ClockOK, Typed
<1>2. pushed' # pushed /\ pushed' # MarkerTtl
  BY <1>1
<1>3. ~ClearTab
  BY <1>2 DEF ClearTab
<1>4. ~Tick
  <2>. SUFFICES ASSUME Tick PROVE FALSE
    OBVIOUS
  <2>1. pushed' = Min({pushed + 1, MarkerTtl})
    BY DEF Tick
  <2>. QED BY <1>1, <2>1, OfTwo
<1>5. ~Launch /\ ~Ready /\ ~Interrupt /\ ~IdleNotice /\ ~Output /\ ~Type
  BY <1>2 DEF Launch, Ready, Interrupt, IdleNotice, Output, Type, chain
<1>6. ~Exit /\ ~HumanEnter /\ ~PostWorking /\ ~PostDone
  BY <1>2, <1>3 DEF Exit, HumanEnter, PostWorking, PostDone, Forget, TurnStarted, chain
<1>7. ~Arrive /\ ~Leave /\ ~Return /\ ~Skip /\ ~Defer /\ ~Retry
  BY <1>2 DEF Arrive, Leave, Return, Skip, Defer, Retry, chain
<1>8. ~FireEnter /\ ~TypePrompt /\ ~GiveUpPrompt /\ ~ConfirmPrompt
  BY <1>2 DEF FireEnter, TypePrompt, GiveUpPrompt, ConfirmPrompt, chain
<1>9. ~UNCHANGED vars
  BY <1>2 DEF vars, chain
<1>. QED BY <1>4, <1>5, <1>6, <1>7, <1>8, <1>9 DEF Next, Decide

\* However long a lookup takes, and whatever the other handlers do meanwhile, no
\* nudge is typed into a turn the server has been told of.
THEOREM NudgesRespectTurns == Spec => NoTextIntoATurn
<1>. DEFINE A == Typed => Lifecycle # "working"
<1>1. IInv /\ [Next]_vars => A
  <2>. SUFFICES ASSUME IInv, [Next]_vars, Typed PROVE Lifecycle # "working"
    OBVIOUS
  <2>1. Nudge
    BY TypedIsNudge DEF IInv
  <2>2. looks # <<>> /\ Pushable(First.life) /\ ~First.turned
    BY <2>1 DEF Nudge, Owing, Clear
  <2>3. 1 \in DOMAIN looks
    BY <2>2, Looks DEF IInv
  <2>4. ~Working
    BY <2>2, <2>3 DEF IInv, LookInv, First
  <2>. QED BY <2>4, Lives DEF IInv
<1>2. [][A]_vars => NoTextIntoATurn
  BY PTL DEF NoTextIntoATurn
<1>. HIDE DEF A
<1>3. [][Next]_vars /\ []IInv => [][A]_vars
  BY <1>1, PTL
<1>. QED BY <1>2, <1>3, PushAlways, PTL DEF Spec

\* The Enter of a pushed text submits that text or nothing: not a later turn's
\* or process's line, and not what a person typed after it.
THEOREM EnterIsItsText == Spec => EnterFollowsItsText
<1>. DEFINE A == FireEnter /\ line # {} /\ line' = {} => fresh
<1>1. IInv => A
  <2>. SUFFICES ASSUME IInv, FireEnter, line # {}, line' = {}, ~fresh PROVE FALSE
    BY Zenon
  <2>1. enter = 0 /\ ~WithholdEnter
    BY DEF FireEnter
  <2>2. inAge \in Int /\ EnterDelay \in Int /\ ~(inAge < EnterDelay)
    BY <2>1, Bounds DEF IInv, ClockOK, WithholdEnter
  <2>3. inAge + enter < EnterDelay
    BY <2>1 DEF IInv, EnterInv, None
  <2>. QED BY <2>1, <2>2, <2>3
<1>2. [][A]_vars => EnterFollowsItsText
  BY PTL DEF EnterFollowsItsText
<1>. HIDE DEF A
<1>3. []IInv => [][A]_vars
  BY <1>1, PTL
<1>. QED BY <1>2, <1>3, PushAlways, PTL DEF Spec
=============================================================================

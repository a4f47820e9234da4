---------------------------- MODULE IntercomPush ----------------------------
(***************************************************************************)
(* Push delivery (services/intercomPush.ts): a line typed into an agent's  *)
(* terminal tells it that messages wait, and Enter follows as a separate   *)
(* write.  One tab, its person, its agent and the server's records of it:  *)
(* nothing is shared between tabs but the turn counter, which is compared  *)
(* per tab.                                                                *)
(*                                                                         *)
(* Time passes in Ticks, which wait for timers that are due; a clock is    *)
(* the age of what it stamps, up to the age the code asks about.  An       *)
(* attempt reads the registry, awaits that lookup, and then decides in one *)
(* step.  The lookup does no I/O, so neither a timer nor a terminal event  *)
(* runs in between; other handlers of the server may.                      *)
(*                                                                         *)
(* Left out: shell tabs (never pushed to), the kill switch (constant in a  *)
(* process: nothing happens at all), the push.sent and push.skipped events *)
(* with their deduplication, Claude's permission prompts (not pushable,    *)
(* as a working tab), and exceptions.                                      *)
(***************************************************************************)
EXTENDS Integers, Sequences, FiniteSets, FiniteSetsExt

CONSTANTS InputQuiet,   (* PUSH_INPUT_QUIET_MS, PROMPT_CONFIRM_MS, in ticks  *)
          OutputQuiet,  (* PUSH_OUTPUT_QUIET_MS                              *)
          StaleAfter,   (* WORKING_STALE_OUTPUT_MS                           *)
          EnterDelay,   (* PUSH_ENTER_DELAY_MS                               *)
          MarkerTtl,    (* PUSHED_MARKER_TTL_MS                              *)
          RetryIn,      (* PUSH_RETRY_MS                                     *)
          QuickRetryIn, (* PUSH_OUTPUT_RETRY_MS                              *)
          RetryMax,     (* PUSH_RETRY_MAX                                    *)
          PullLimit,    (* HOOK_PULL_LIMIT                                   *)
          MaxMail,      (* messages that may arrive or be redelivered        *)
          MaxLaunches,  (* processes started in the tab                      *)
          MaxLooks      (* attempts awaiting their lookup                    *)

ASSUME PushAssumption ==
  /\ {InputQuiet, OutputQuiet, EnterDelay, MarkerTtl, RetryIn, QuickRetryIn, PullLimit} \subseteq Nat \ {0}
  /\ {RetryMax, MaxMail, MaxLaunches, MaxLooks} \subseteq Nat
  /\ EnterDelay <= InputQuiet /\ StaleAfter \in Nat /\ StaleAfter >= OutputQuiet

VARIABLES
  mode,     (* "claude", or "hookless": Codex, OpenCode and Pi               *)
  tab,      (* the program in the tab: off, booting, at its prompt, in a turn*)
  launches, (* processes started so far                                      *)
  status,   (* the last status it posted: "none", "idle" or "working"        *)
  line,     (* whose text is in the input line: "push", "human"              *)
  inAge,    (* time since the last keystroke of a person                     *)
  outAge,   (* time since the last byte the program printed                  *)
  queue,    (* messages the inbox would hand out; ids grow                   *)
  next,     (* the next message's id                                         *)
  returns,  (* messages that were redelivered                                *)
  pushed,   (* age of the once-per-idle marker, MarkerTtl when there is none *)
  head,     (* nudgedHead: the message last nudged about, 0 for none         *)
  retry,    (* pending: the retry timer, the tries of its chain and when it  *)
            (* is due, None for no timer                                     *)
  enter,    (* when the pending Enter is due, None                           *)
  looks,    (* attempts awaiting the lookup: what it read, their tries, and  *)
            (* whether a turn was recorded since                             *)
  prompt,   (* a first prompt: none, waiting, or sent and to be confirmed    *)
  owed,     (* history: a message came to a tab that could be told of it     *)
  fresh     (* history: a pushed text may still get its Enter                *)

session == <<mode, tab, launches, status>>
clocks  == <<inAge, outAge>>
inbox   == <<queue, next, returns>>
chain   == <<pushed, head, retry, enter, looks>>
vars    == <<session, line, clocks, inbox, chain, prompt, owed, fresh>>

None    == -1
NoRetry == [tries |-> 0, due |-> None]

Init ==
  /\ mode \in {"claude", "hookless"}
  /\ tab = "off" /\ launches = 0 /\ status = "none" /\ line = {}
  /\ inAge = InputQuiet /\ outAge = StaleAfter
  /\ queue = {} /\ next = 1 /\ returns = 0
  /\ pushed = MarkerTtl /\ head = 0 /\ retry = NoRetry /\ enter = None /\ looks = <<>>
  /\ prompt \in {"none", "waiting"}
  /\ owed = FALSE /\ fresh = FALSE
-----------------------------------------------------------------------------
(* What the server reads.                                                    *)

\* No attempt is between its lookup and its decision.
Settled == looks = <<>>

\* lifecycleOf: a hook-less agent that has printed nothing for long reads idle.
Lifecycle ==
  CASE tab = "off" -> "offline"
    [] tab # "off" /\ status = "none" -> "starting"
    [] tab # "off" /\ status = "working" /\ mode = "hookless" /\ outAge >= StaleAfter -> "idle"
    [] OTHER -> status

Pushable(life) == life = "idle" \/ (mode = "hookless" /\ life = "starting")

\* peek returns the oldest rows; the newest of them is the head.
Newest(Q) == Max({m \in Q : Cardinality({q \in Q : q <= m}) <= PullLimit})
-----------------------------------------------------------------------------
(* Steps of which the actions are made.                                      *)

Look(life, tries) == [life |-> life, tries |-> tries, turned |-> FALSE]

\* consider: an attempt begins by reading the registry.
Consider(life) ==
  /\ Len(looks) < MaxLooks
  /\ looks' = Append(looks, Look(life, 0))

\* Mutant: the turn is not recorded for the attempts under way.
TurnedNever == looks

\* A turn begins after the epoch of the attempts whose lookup is awaited.
Turned == [i \in DOMAIN looks |-> [looks[i] EXCEPT !.turned = TRUE]]

\* Mutant: the pending Enter outlives the turn or the process.
ClearTabKeepsEnter ==
  /\ pushed' = MarkerTtl /\ retry' = NoRetry /\ owed' = FALSE /\ fresh' = FALSE
  /\ UNCHANGED enter

\* turnStarted, and forget but for the head: the marker, the pending retry and
\* the pending Enter are dropped.
ClearTab ==
  /\ pushed' = MarkerTtl
  /\ retry' = NoRetry
  /\ enter' = None
  /\ owed' = FALSE /\ fresh' = FALSE

TurnStarted == ClearTab /\ UNCHANGED head

Forget == ClearTab /\ head' = 0

\* A text written into the terminal; the Enter before it is cancelled.
WriteText ==
  /\ line' = line \cup {"push"}
  /\ enter' = EnterDelay
  /\ fresh' = TRUE

\* Enter, written by a person or by the server.
Submit ==
  /\ line' = {}
  /\ tab' = IF tab = "prompt" /\ line # {} THEN "turn" ELSE tab
-----------------------------------------------------------------------------
(* The tab, its person and its agent.                                        *)

Launch ==
  /\ Settled /\ tab = "off" /\ launches < MaxLaunches
  /\ tab' = "boot" /\ launches' = launches + 1
  /\ UNCHANGED <<mode, status, line, clocks, inbox, chain, prompt, owed, fresh>>

\* The prompt is shown; Claude's SessionStart posts idle.
Ready ==
  /\ tab = "boot" /\ tab' = "prompt"
  /\ IF mode = "claude"
     THEN status' = "idle" /\ Consider("idle")
     ELSE UNCHANGED <<status, looks>>
  /\ UNCHANGED <<mode, launches, line, clocks, inbox, pushed, head, retry, enter, prompt, owed, fresh>>

\* The process exits: forget, and the activity clocks' forget.  The terminal
\* route sets the status to idle when a window is attached (clear).
Exit ==
  /\ Settled /\ tab # "off" /\ tab' = "off" /\ line' = {}
  /\ status' \in {status, "idle"}
  /\ inAge' = InputQuiet /\ outAge' = StaleAfter
  /\ Forget
  /\ UNCHANGED <<mode, launches, inbox, looks, prompt>>

\* A keystroke that is not Enter.
Type ==
  /\ Settled /\ tab # "off" /\ line' = line \cup {"human"} /\ inAge' = 0
  /\ fresh' = (fresh /\ enter = EnterDelay)
  /\ UNCHANGED <<session, outAge, inbox, chain, prompt, owed>>

\* A person's Enter.  For Codex it counts as the start of a turn.
HumanEnter ==
  /\ Settled /\ tab # "off" /\ Submit /\ inAge' = 0
  /\ \/ /\ mode = "hookless" /\ status' = "working"
        /\ TurnStarted /\ looks' = Turned
     \/ /\ UNCHANGED <<status, chain, owed>>
        /\ fresh' = (fresh /\ enter = EnterDelay)
  /\ UNCHANGED <<mode, launches, outAge, inbox, prompt>>

\* The program prints.
Output ==
  /\ Settled /\ tab # "off" /\ outAge' = 0
  /\ UNCHANGED <<session, line, inAge, inbox, chain, prompt, owed, fresh>>

\* The prompt-submit hook posts working.
PostWorking ==
  /\ tab = "turn" /\ status # "working" /\ status' = "working"
  /\ TurnStarted /\ looks' = Turned
  /\ UNCHANGED <<mode, tab, launches, line, clocks, inbox, prompt>>

\* The turn is complete: Claude's Stop, or the turn-complete post of the others,
\* which counts as a turn's start first.
PostDone ==
  /\ tab = "turn" /\ (mode = "claude" => status = "working")
  /\ tab' = "prompt" /\ status' = "idle"
  /\ Len(looks) < MaxLooks
  /\ IF mode = "hookless"
     THEN TurnStarted /\ looks' = Append(Turned, Look("idle", 0))
     ELSE Consider("idle") /\ UNCHANGED <<pushed, head, retry, enter, owed, fresh>>
  /\ UNCHANGED <<mode, launches, line, clocks, inbox, prompt>>

\* A person interrupts the turn: nothing is posted.
Interrupt ==
  /\ Settled /\ tab = "turn" /\ tab' = "prompt"
  /\ UNCHANGED <<mode, launches, status, line, clocks, inbox, chain, prompt, owed, fresh>>

\* Claude's idle_prompt notification, after a while at the prompt.
IdleNotice ==
  /\ Settled /\ mode = "claude" /\ tab = "prompt" /\ status' = "idle"
  /\ Consider("idle")
  /\ UNCHANGED <<mode, tab, launches, line, clocks, inbox, pushed, head, retry, enter, prompt, owed, fresh>>
-----------------------------------------------------------------------------
(* The inbox.                                                                *)

\* The server may tell this tab of its mail: by a post of its own it is at its
\* prompt, and no nudge of the last minute stands.
Tellable ==
  /\ tab # "off" /\ pushed = MarkerTtl
  /\ status = "idle" \/ (mode = "hookless" /\ status = "none")

\* message.queued: the arrival trigger.
Arrive ==
  /\ next + returns <= MaxMail
  /\ queue' = queue \cup {next} /\ next' = next + 1
  /\ Consider(Lifecycle)
  /\ owed' = (owed \/ (Tellable /\ Newest(queue') # head))
  /\ UNCHANGED <<session, line, clocks, returns, pushed, head, retry, enter, prompt, fresh>>

\* A message is handed out, acknowledged, or expires.
Leave ==
  /\ \E m \in queue : queue' = queue \ {m}
  /\ owed' = (owed /\ queue' # {} /\ Newest(queue') # head)
  /\ UNCHANGED <<session, line, clocks, next, returns, chain, prompt, fresh>>

\* A message that was handed out but never confirmed is in the inbox again.
Return ==
  /\ next + returns <= MaxMail /\ returns' = returns + 1
  /\ \E m \in 1..(next - 1) : m \notin queue /\ queue' = queue \cup {m}
  /\ owed' = (owed /\ Newest(queue') # head)
  /\ UNCHANGED <<session, line, clocks, next, chain, prompt, fresh>>
-----------------------------------------------------------------------------
(* The pusher.                                                               *)

First   == looks[1]
InBusy  == inAge < InputQuiet
OutBusy == outAge < OutputQuiet

\* Mutant: no record of the message last nudged about.
OwingAgain == Pushable(First.life) /\ tab # "off" /\ queue # {} /\ pushed = MarkerTtl

\* The gates of an attempt up to the quiet ones.
Owing ==
  /\ Pushable(First.life)
  /\ tab # "off"
  /\ queue # {}
  /\ pushed = MarkerTtl
  /\ Newest(queue) # head

\* Mutants: a busy tab is looked at only once; one retry too many.
WaitsAlways == TRUE
SpentLate   == First.tries > RetryMax

\* Both quiet gates are transient: defer looks again later, unless the tab has a
\* chain already or this one is exhausted.
Waits == First.tries = 0 /\ retry # NoRetry
Spent == First.tries >= RetryMax

Skip ==
  /\ looks # <<>> /\ looks' = Tail(looks)
  /\ \/ ~Owing /\ UNCHANGED <<retry, owed>>
     \/ /\ Owing /\ (InBusy \/ OutBusy) /\ Waits /\ UNCHANGED <<retry, owed>>
     \/ /\ Owing /\ (InBusy \/ OutBusy) /\ ~Waits /\ Spent
        /\ retry' = NoRetry /\ owed' = FALSE
     \/ /\ Owing /\ ~InBusy /\ ~OutBusy /\ First.turned /\ UNCHANGED <<retry, owed>>
  /\ UNCHANGED <<session, line, clocks, inbox, pushed, head, enter, prompt, fresh>>

\* The retry that replaces the pending one; a repaint right after a Stop is short.
Retried ==
  [tries |-> First.tries + 1,
   due   |-> IF ~InBusy /\ First.tries = 0 THEN QuickRetryIn ELSE RetryIn]

Defer ==
  /\ looks # <<>> /\ looks' = Tail(looks)
  /\ Owing /\ (InBusy \/ OutBusy) /\ ~Waits /\ ~Spent
  /\ retry' = Retried
  /\ UNCHANGED <<session, line, clocks, inbox, pushed, head, enter, prompt, owed, fresh>>

\* The last gate: a turn that began during the lookup.
Clear == ~First.turned

Nudge ==
  /\ looks # <<>> /\ looks' = Tail(looks)
  /\ Owing /\ ~InBusy /\ ~OutBusy /\ Clear
  /\ retry' = NoRetry
  /\ WriteText
  /\ pushed' = 0 /\ head' = Newest(queue)
  /\ owed' = FALSE
  /\ UNCHANGED <<session, clocks, inbox, prompt>>

\* The retry timer fires: the chain looks again.
Retry ==
  /\ Settled /\ retry.due = 0
  /\ retry' = NoRetry
  /\ looks' = <<Look(Lifecycle, retry.tries)>>
  /\ UNCHANGED <<session, line, clocks, inbox, pushed, head, enter, prompt, owed, fresh>>

\* The deferred Enter; typing since the text was written withholds it.
WithholdEnter == inAge < EnterDelay

FireEnter ==
  /\ Settled /\ enter = 0 /\ enter' = None
  /\ IF tab = "off" \/ WithholdEnter THEN UNCHANGED <<line, tab>> ELSE Submit
  /\ fresh' = FALSE
  /\ UNCHANGED <<mode, launches, status, clocks, inbox, pushed, head, retry, looks, prompt, owed>>
-----------------------------------------------------------------------------
(* The first prompt of a spawned tab (services/tabOps.ts), which forces its  *)
(* line past the inbox and the marker but not past the quiet gates.          *)

\* deliverPrompt, each second until it is written.
TypePrompt ==
  /\ Settled /\ prompt = "waiting" /\ tab # "off"
  /\ Pushable(Lifecycle) /\ ~InBusy /\ ~OutBusy
  /\ WriteText
  /\ prompt' = IF mode = "claude" THEN "sent" ELSE "none"
  /\ UNCHANGED <<session, clocks, inbox, pushed, head, retry, looks, owed>>

\* It gives up after its window, or once the tab is not live.
GiveUpPrompt ==
  /\ Settled /\ prompt = "waiting" /\ prompt' = "none"
  /\ UNCHANGED <<session, line, clocks, inbox, chain, owed, fresh>>

\* confirmSubmitted: once more Enter, seconds later, if the agent still reads idle.
ConfirmPrompt ==
  /\ Settled /\ prompt = "sent" /\ prompt' = "none"
  /\ IF tab # "off" /\ Lifecycle = "idle" /\ ~InBusy THEN Submit ELSE UNCHANGED <<line, tab>>
  /\ UNCHANGED <<mode, launches, status, clocks, inbox, chain, owed, fresh>>
-----------------------------------------------------------------------------
\* Timers that are due fire, and lookups return, before time passes.
Tick ==
  /\ Settled /\ enter # 0 /\ retry.due # 0
  /\ inAge' = Min({inAge + 1, InputQuiet})
  /\ outAge' = Min({outAge + 1, StaleAfter})
  /\ pushed' = Min({pushed + 1, MarkerTtl})
  /\ retry' = IF retry = NoRetry THEN NoRetry ELSE [retry EXCEPT !.due = @ - 1]
  /\ enter' = IF enter = None THEN None ELSE enter - 1
  /\ UNCHANGED <<session, line, inbox, head, looks, prompt, owed, fresh>>

Decide == Skip \/ Defer \/ Nudge

Next ==
  \/ Launch \/ Ready \/ Exit \/ Type \/ HumanEnter \/ Output
  \/ PostWorking \/ PostDone \/ Interrupt \/ IdleNotice
  \/ Arrive \/ Leave \/ Return
  \/ Decide \/ Retry \/ FireEnter
  \/ TypePrompt \/ GiveUpPrompt \/ ConfirmPrompt
  \/ Tick

Spec == Init /\ [][Next]_vars

\* Node's event loop: lookups settle and timers fire; and time goes on, however
\* much happens in an instant.
FairSpec == Spec /\ WF_vars(Decide) /\ SF_vars(Retry) /\ SF_vars(FireEnter) /\ SF_vars(Tick)
-----------------------------------------------------------------------------
TypeOK ==
  /\ mode \in {"claude", "hookless"} /\ tab \in {"off", "boot", "prompt", "turn"}
  /\ launches \in 0..MaxLaunches /\ status \in {"none", "idle", "working"}
  /\ line \subseteq {"push", "human"} /\ (tab = "off" => line = {})
  /\ inAge \in 0..InputQuiet /\ outAge \in 0..StaleAfter
  /\ queue \subseteq 1..(next - 1) /\ next + returns \in 1..(MaxMail + 1)
  /\ pushed \in 0..MarkerTtl /\ head \in 0..(next - 1)
  /\ retry.tries \in 0..RetryMax /\ retry.due \in None..Max({RetryIn, QuickRetryIn})
  /\ enter \in None..EnterDelay /\ Len(looks) <= MaxLooks
  /\ prompt \in {"none", "waiting", "sent"} /\ owed \in BOOLEAN /\ fresh \in BOOLEAN

\* A step that types a nudge starts the marker's minute.
Typed == pushed # 0 /\ pushed' = 0

\* No nudge is typed into a turn the server has been told of, however long the
\* lookup before it took: the epoch an attempt begins with is compared with the
\* tab's last turn (attempt, turnStarted).
NoTextIntoATurn == [][Typed => Lifecycle # "working"]_vars

\* The Enter of a pushed text only submits that text: never in another process
\* of the tab, never once a turn has begun, and never what a person typed in a
\* later tick than the text (scheduleEnter, turnStarted, forget).
EnterFollowsItsText ==
  [][FireEnter /\ line # {} /\ line' = {} => fresh]_vars

\* An agent that never reads its inbox is not nudged over and over, each nudge
\* starting the turn whose end nudges it again (nudgedHead).
NudgesEnd == <>[][~Typed]_vars

\* A message that comes to a tab at its prompt is told to it once it is quiet:
\* until then, or until a turn, the exit, an emptied inbox or the end of the
\* retries, something still looks (defer).
MailIsTold == owed ~> ~owed

\* intercomPush.ts:178-182: "so a booting Claude never qualifies".
BootingIsLeftAlone == [][Typed /\ mode = "claude" => tab # "boot"]_vars
=============================================================================

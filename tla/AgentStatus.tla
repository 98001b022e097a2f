--------------------------- MODULE AgentStatus ---------------------------
(* The activity dot of one agent tab: the reports the agent's hooks and the
   agent itself send over MCP, how they meet a live `waiting`, the screen scan
   for approval forms, the decay to output timing, and the loop that settles
   the dot, arms the next flip and rings for it.

   Time is kept as what is left of a deadline or the age of an event, in ticks;
   ages stop counting at Horizon, the longest window. An optional value is a set
   of at most one member. *)
EXTENDS Naturals, Sequences, FiniteSets, SequencesExt

CONSTANTS Active,       \* AGENT_ACTIVE_WINDOW
          Quiet,        \* SCRAPE_QUIET_WINDOW
          Window,       \* agy's working_quiet_window
          Ttl,          \* MAX_REPORT_TTL_MS
          WaitTtl,      \* MAX_WAITING_TTL_MS
          PendingLimit, \* questions codex_recovery keeps apart
          Kinds,        \* the agents a tab may run
          Tells,        \* what they report themselves
          Views,        \* how the user may stand to the tab
          Calls,        \* call ids of its questions
          MaxSends, MaxKeys, MaxQueue   \* bounds on the environment

Statuses == {"working", "idle", "blocked", "done", "waiting"}

ASSUME WindowsAreTimes ==
    /\ {Active, Quiet, Window, Ttl, WaitTtl} \subseteq Nat \ {0}
    /\ PendingLimit \in Nat
ASSUME KnownKinds == /\ Kinds \subseteq {"claude", "codex", "agy"}
                     /\ Tells \subseteq Statuses
                     /\ Views \subseteq {"away", "seen", "driven"}
ASSUME BoundsAreNumbers == {MaxSends, MaxKeys, MaxQueue} \subseteq Nat

Least(a, b) == IF a < b THEN a ELSE b
Greatest(a, b) == IF a < b THEN b ELSE a
Horizon == Greatest(Active, Greatest(Quiet, Window))
Ages == 0 .. Horizon

\* What a message asks for, the reporter's rewriting of a `done` included.
Status(m) ==
    CASE m.event \in {"prompt", "answer"}                  -> "working"
      [] m.event \in {"stop", "stopIdle", "nudge"}         -> "done"
      [] m.event = "stopBusy"                              -> "waiting"
      [] m.event \in {"cancel", "cancelIdle"}              -> "idle"
      [] m.event \in {"ask", "failure", "review", "question"} -> "blocked"
      [] m.event = "own"                                   -> m.status

\* The agent says that its turn leaves work behind.
SaysWaiting(m) == m.event = "stopBusy" \/ m.status = "waiting"

\* Whether the hook said that background work will wake the agent.
WakesPending(m) ==
    CASE m.event \in {"stopIdle", "cancelIdle"} -> {FALSE}
      [] m.event = "stopBusy"                   -> {TRUE}
      [] OTHER                                  -> {}

VARIABLES
    \* the agent and its user
    kind,        \* which agent the tab runs
    turn,        \* the agent's turn is open
    open,        \* questions it has asked and not had answered
    prompt,      \* an approval form is on its screen
    poked,       \* it has been given a key it has not drawn an answer to
    exited,      \* it is gone (EOF)
    \* the channel to the loop
    chan,        \* reports and keys, oldest first
    fresh,       \* output parsed that the loop has not seen
    sends, keys, \* spent of the bounds
    \* the tab, as the loop keeps it
    view,        \* "away", "seen": in view, "driven": in view and focused
    closed,      \* the loop knows that the agent is gone
    reported, heldWaiting, turnOpen,
    recovery,    \* CodexRecovery
    scrape,      \* the last scan saw an approval form
    scrapeDirty, scrapePending,
    outputAge,   \* since last_output_at; Horizon when there was none
    activity,    \* the dot
    notified, unseenDone,
    \* the loop
    pc, pending, \* where it is; the reports it has received and not served
    dirty,       \* the frame is to be drawn, so the loop does not block
    idleIn, scrapeIn,   \* ticks to Deadline::AgentIdle and ScrapeQuiet
    \* history, for the properties
    announced,   \* the agent said its turn leaves work behind, and it stands
    owed,        \* a finished turn the user has not seen
    unrung       \* an ask that nothing was rung for

agentVars == <<kind, turn, open, prompt, poked, exited>>
tabVars == <<view, closed, reported, heldWaiting, turnOpen, recovery, scrape,
             scrapeDirty, scrapePending, outputAge, activity, notified, unseenDone>>
loopVars == <<pc, pending, dirty, idleIn, scrapeIn>>
ghosts == <<announced, owed, unrung>>
vars == <<agentVars, chan, fresh, sends, keys, tabVars, loopVars, ghosts>>

NoQuestions == [calls |-> {}, overflow |-> FALSE, other |-> FALSE]

\* A new tab, or one that went quiet in a turn until its report ran out.
Init ==
    /\ kind \in Kinds
    /\ turn \in BOOLEAN /\ open = {} /\ prompt = FALSE /\ poked = FALSE /\ exited = FALSE
    /\ chan = <<>> /\ fresh = FALSE /\ sends = 0 /\ keys = 0
    /\ view \in Views /\ closed = FALSE
    /\ reported = {} /\ heldWaiting = {} /\ turnOpen = turn
    /\ recovery = NoQuestions
    /\ scrape = FALSE /\ scrapeDirty = FALSE /\ scrapePending = {}
    /\ outputAge = Horizon
    /\ activity = (IF turn THEN "idle" ELSE "unknown")
    /\ notified = activity /\ unseenDone = FALSE
    /\ pc = "land" /\ pending = <<>> /\ dirty = TRUE
    /\ idleIn = {} /\ scrapeIn = {}
    /\ announced = FALSE /\ owed = FALSE /\ unrung = FALSE

---------------------------------------------------------------------------
(* What a report means *)

NewReport(status) ==
    [status |-> status, ttl |-> IF status = "waiting" THEN WaitTtl ELSE Ttl,
     quiet |-> 0, overridden |-> FALSE, absorbed |-> FALSE]

FromHook(m) == m.event # "own"

TurnOpenAfter(m) ==
    IF m.event = "nudge" THEN turnOpen
    ELSE \/ Status(m) = "working"
         \/ /\ turnOpen /\ m.event # "failure"
            /\ Status(m) \notin {"done", "waiting", "idle"}

Waiting(live) == {r \in live : r.status = "waiting" /\ r.ttl > 0}

\* A bug: every turn's end ends the wait.
MeetForgets(live, m) == "apply"

Meet(live, m) ==
    IF Waiting(live) = {} \/ ~FromHook(m) \/ Status(m) \notin {"done", "idle"}
    THEN "apply"
    ELSE IF m.event = "nudge" \/ TRUE \in WakesPending(m) THEN "absorb"
    ELSE IF FALSE \in WakesPending(m) \/ \E r \in Waiting(live) : r.absorbed THEN "apply"
    ELSE "absorbTurnEnd"

QuestionWaiting == recovery.calls # {} \/ recovery.overflow

\* What CodexRecovery::report keeps of a message.
Recovered(m) ==
    CASE m.event = "review" -> recovery
      [] m.event = "question" ->
            LET fits == m.call \subseteq recovery.calls
                          \/ Cardinality(recovery.calls) < PendingLimit
            IN [calls |-> IF fits THEN recovery.calls \cup m.call ELSE recovery.calls,
                overflow |-> recovery.overflow \/ ~fits,
                other |-> recovery.other /\ QuestionWaiting]
      [] m.event = "answer" -> [recovery EXCEPT !.calls = @ \ m.call]
      [] m.event \notin {"review", "question", "answer"} ->
            IF Status(m) = "blocked" THEN [recovery EXCEPT !.other = TRUE] ELSE NoQuestions

\* Whether it lets the message move the dot.
LetsThrough(m) ==
    CASE m.event = "review" -> FALSE
      [] m.event = "answer" -> /\ recovery.calls = m.call
                               /\ ~recovery.overflow /\ ~recovery.other
      [] OTHER -> TRUE

---------------------------------------------------------------------------
\* The loop reads the channel, and learns of an exit, after it has waited; it
\* reads the screen and the clock after it has stamped the output, too. Steps of
\* others between its other steps differ from the same steps at these points in
\* nothing the loop sees.
Waits == pc = "recv"
Looks == pc \in {"recv", "settle"}

(* The agent: what it does in its pane, and the reports its hooks make of it.
   External to the program, as the hook tables describe it. *)

Report(event) == [event |-> event, status |-> "none", call |-> {}]
Own(status) == [event |-> "own", status |-> status, call |-> {}]
About(event, call) == [event |-> event, status |-> "none", call |-> {call}]

Send(m) ==
    /\ Waits /\ ~exited /\ sends < MaxSends /\ Len(chan) < MaxQueue
    /\ chan' = Append(chan, m) /\ sends' = sends + 1
    /\ UNCHANGED <<kind, prompt, poked, exited, fresh, keys, tabVars, loopVars>>

\* UserPromptSubmit, agy's PreInvocation
StartTurn ==
    /\ ~turn /\ turn' = TRUE
    /\ Send(Report("prompt"))
    /\ open' = {} /\ announced' = FALSE /\ owed' = FALSE /\ unrung' = FALSE

\* The turn ends by itself: a Stop that says what is pending, or cannot.
EndTurn ==
    /\ turn /\ turn' = FALSE /\ ~prompt
    /\ \E e \in CASE kind = "codex" -> {"stop"}
                  [] kind = "claude" -> {"stopIdle", "stopBusy"}
                  [] kind = "agy" -> {"stop", "stopIdle", "stopBusy"} :
         /\ Send(Report(e))
         /\ announced' = (e = "stopBusy" \/ (e = "stop" /\ announced))
         /\ owed' = (~announced' /\ notified # "done")
    /\ open' = {} /\ unrung' = FALSE

\* The user cancels it. Claude Code reports nothing then.
CancelTurn ==
    /\ turn /\ turn' = FALSE /\ ~prompt
    /\ \/ /\ kind = "claude"
          /\ Waits /\ UNCHANGED <<kind, prompt, poked, exited, chan, fresh, sends, keys,
                         tabVars, loopVars, announced>>
       \/ /\ kind # "claude"
          /\ \E e \in IF kind = "codex" THEN {"cancel"}
                       ELSE {"cancel", "cancelIdle", "stopBusy"} :
               /\ Send(Report(e))
               /\ announced' = (e = "stopBusy" \/ (e = "cancel" /\ announced))
    /\ open' = {} /\ owed' = FALSE /\ unrung' = FALSE

\* Claude Code's StopFailure: the turn ended on an API error.
FailTurn ==
    /\ turn /\ kind = "claude" /\ turn' = FALSE
    /\ Send(Report("failure"))
    /\ announced' = FALSE /\ owed' = FALSE /\ unrung' = (notified # "blocked")
    /\ UNCHANGED open

\* A question or a permission that a hook reports: PermissionRequest,
\* AskUserQuestion, agy's ask_question.
Ask ==
    /\ turn /\ kind # "codex"
    /\ Send(Report("ask"))
    /\ unrung' = (notified # "blocked")
    /\ UNCHANGED <<turn, open, announced, owed>>

\* Claude Code's Notification of an idle prompt
Nudge ==
    /\ ~turn /\ kind = "claude"
    /\ Send(Report("nudge"))
    /\ unrung' = FALSE
    /\ UNCHANGED <<turn, open, announced, owed>>

\* Codex asks through request_user_input, and the answer's PostToolUse
Question(c) ==
    /\ turn /\ kind = "codex"
    /\ Send(About("question", c))
    /\ open' = open \cup {c} /\ unrung' = (notified # "blocked")
    /\ UNCHANGED <<turn, announced, owed>>

Answer(c) ==
    /\ turn /\ kind = "codex"
    /\ Send(About("answer", c))
    /\ open' = open \ {c} /\ unrung' = FALSE
    /\ UNCHANGED <<turn, announced, owed>>

\* Codex's PermissionRequest, which comes before any review
Review ==
    /\ turn /\ kind = "codex"
    /\ Send(Report("review"))
    /\ UNCHANGED <<turn, open, announced, owed, unrung>>

\* The agent's own report_status call
Tell(status) ==
    /\ Send(Own(status))
    /\ announced' = (status = "waiting") /\ owed' = FALSE
    /\ unrung' = (status = "blocked" /\ notified # "blocked")
    /\ open' = IF status = "blocked" THEN open ELSE {}
    /\ UNCHANGED turn

\* It draws: a spinner, a form it waits on, the form gone.
Draw ==
    /\ Looks /\ ~exited /\ fresh' = TRUE
    /\ prompt' \in IF turn /\ kind # "claude" THEN BOOLEAN ELSE {FALSE}
    /\ UNCHANGED <<kind, turn, open, poked, exited, chan, sends, keys,
                   tabVars, loopVars, ghosts>>

\* It answers a key by a redraw.
React ==
    /\ Looks /\ poked /\ ~exited /\ poked' = FALSE /\ fresh' = TRUE
    /\ prompt' \in {FALSE, prompt}
    /\ UNCHANGED <<kind, turn, open, exited, chan, sends, keys, tabVars, loopVars, ghosts>>

Exit ==
    /\ Waits /\ ~exited /\ exited' = TRUE
    /\ announced' = FALSE /\ owed' = FALSE /\ unrung' = FALSE /\ open' = {}
    /\ UNCHANGED <<kind, turn, prompt, poked, chan, fresh, sends, keys, tabVars, loopVars>>

\* The user types: an answer, an interrupt, or what moves the view.
KeyEvents == {"enter", "esc"} \cup Views
Type(k) ==
    /\ Waits /\ keys < MaxKeys /\ Len(chan) < MaxQueue
    /\ chan' = Append(chan, Report(k)) /\ keys' = keys + 1
    /\ UNCHANGED <<agentVars, fresh, sends, tabVars, loopVars, ghosts>>

---------------------------------------------------------------------------
(* The loop *)

HasRules == kind # "claude"
InView == view # "away"

\* drain_pane_output: stamp the output, and learn that the agent is gone.
Land ==
    /\ pc = "land" /\ pc' = "settle"
    /\ closed' = exited /\ fresh' = FALSE
    /\ outputAge' = IF fresh THEN 0 ELSE outputAge
    /\ scrapeDirty' = (scrapeDirty \/ (fresh /\ HasRules))
    /\ UNCHANGED <<agentVars, chan, sends, keys, view, reported, heldWaiting, turnOpen,
                   recovery, scrape, scrapePending, activity, notified, unseenDone,
                   pending, dirty, idleIn, scrapeIn, ghosts>>

\* A bug: every agent's scan waits for silence.
SilentSince == outputAge

\* Since when a dirty screen has waited: codex's first repaint, another's last.
WaitAge == IF kind # "codex" THEN outputAge
           ELSE CHOOSE a \in Ages : IF scrapePending = {} THEN a = outputAge
                                    ELSE scrapePending = {a}

\* settle_scrape_quiet
ScanDue == scrapeDirty /\ WaitAge >= Quiet
ScrapeAfter == IF ScanDue THEN prompt ELSE scrape
Scan ==
    /\ scrapeDirty' = (scrapeDirty /\ ~ScanDue /\ ~closed)
    /\ scrapePending' = IF kind = "codex" /\ scrapeDirty /\ ~ScanDue THEN {WaitAge} ELSE {}
    /\ scrapeIn' = IF scrapeDirty /\ ~ScanDue THEN {Quiet - WaitAge} ELSE {}

\* codex_approval::overrides_report
Overrides(live, scraped) ==
    HasRules /\ scraped /\ \A r \in live : r.status # "blocked"

\* working_quiet_expiry: ticks left to a `working` report of agy's.
QuietLeft(r) == Window - Least(Window, Least(outputAge, r.quiet))
Yields(r) == r.status = "working" /\ kind = "agy" /\ QuietLeft(r) = 0
Expired(r) == r.status # "blocked" /\ r.ttl = 0

\* activity_for
ByOutput == IF outputAge < Active THEN "working" ELSE "idle"

\* effective_activity
Effective(live, scraped) ==
    IF Overrides(live, scraped) THEN "blocked"
    ELSE IF \E r \in live : ~Expired(r) /\ ~Yields(r)
         THEN CHOOSE s \in Statuses : \E r \in live : r.status = s
    ELSE IF scraped THEN "blocked"
    ELSE ByOutput

\* settle_report: the override's quiet clock, then what has expired or yielded.
Overridden(r, overrides) ==
    IF overrides \/ r.overridden THEN [r EXCEPT !.quiet = 0, !.overridden = overrides]
    ELSE r
Settled(live, scraped) ==
    {r \in {Overridden(q, Overrides(live, scraped)) : q \in live} :
        ~Expired(r) /\ ~Yields(r)}

\* A bug: the flip of a `working` report of agy's is not looked for.
NextFlipLate(live, new, overrides) ==
    IF live # {} THEN {r.ttl : r \in {q \in live : q.status # "blocked"}}
    ELSE IF new = "working" THEN {Active - outputAge} ELSE {}

\* When the dot may change next by itself: what AgentIdle is armed at.
NextFlip(live, new, overrides) ==
    IF live # {}
    THEN {IF r.status = "working" /\ kind = "agy" /\ ~overrides
          THEN Least(r.ttl, QuietLeft(r)) ELSE r.ttl :
             r \in {q \in live : q.status # "blocked"}}
    ELSE IF new = "working" THEN {Active - outputAge} ELSE {}

\* A bug: the edge is looked for in the dot, which a report has moved already.
FreshOfDot(new) == new # activity

\* Whether the settled activity is news to the notifications.
Fresh(new) == new # notified

\* A bug: a done is unseen for as long as its report lives.
UnseenWhileDone(new) == IF InView THEN FALSE ELSE new = "done"

UnseenAfter(new) ==
    IF InView THEN FALSE ELSE unseenDone \/ (new = "done" /\ notified # "done")

\* settle_scrape_quiet, then settle_agent_activity, at one instant.
Settle ==
    /\ pc = "settle" /\ pc' = IF pending = <<>> THEN "recv" ELSE "serve"
    /\ Scan
    /\ LET scraped == ScrapeAfter /\ ~closed
           before == IF closed THEN {} ELSE reported
           live == Settled(before, scraped)
           new == IF closed THEN "idle" ELSE Effective(live, scraped)
           overrides == Overrides(before, scraped)
       IN /\ scrape' = scraped /\ reported' = live
          /\ idleIn' = NextFlip(live, new, overrides)
          /\ unseenDone' = UnseenAfter(new)
          /\ activity' = new /\ notified' = new
          /\ unrung' = (unrung /\ ~(new = "blocked" /\ Fresh(new)))
    /\ heldWaiting' = IF closed THEN {} ELSE heldWaiting
    /\ turnOpen' = (turnOpen /\ ~closed)
    /\ recovery' = IF closed THEN NoQuestions ELSE recovery
    /\ owed' = (owed /\ ~InView)
    /\ UNCHANGED <<agentVars, chan, fresh, sends, keys, view, closed, outputAge,
                   pending, dirty, announced>>

\* apply_status_report, of the next report received.
HoldsForTurnEnd(m) == Status(m) = "waiting" /\ ~FromHook(m) /\ turnOpen

Apply(m) ==
    LET closes == FromHook(m) /\ turnOpen /\ ~TurnOpenAfter(m)
        promoted == closes /\ heldWaiting # {}
        live == IF promoted THEN heldWaiting ELSE reported
        verdict == Meet(live, m)
        ok == verdict = "apply" /\ (kind = "codex" => LetsThrough(m))
    IN /\ recovery' = IF kind = "codex" THEN Recovered(m) ELSE recovery
       /\ turnOpen' = IF FromHook(m) THEN TurnOpenAfter(m) ELSE turnOpen
       /\ IF HoldsForTurnEnd(m)
          THEN /\ heldWaiting' = {NewReport("waiting")}
               /\ UNCHANGED <<reported, activity>>
          ELSE /\ heldWaiting' = IF FromHook(m) /\ ~promoted THEN heldWaiting ELSE {}
               /\ reported' =
                    CASE ok                       -> {NewReport(Status(m))}
                      [] verdict = "absorbTurnEnd" -> {[r EXCEPT !.absorbed = TRUE] : r \in live}
                      [] OTHER                    -> live
               /\ activity' = CASE ok       -> Status(m)
                                [] promoted /\ ~ok -> "waiting"
                                [] OTHER    -> activity

Serve ==
    /\ pc = "serve" /\ pc' = IF Len(pending) = 1 THEN "recv" ELSE "serve"
    /\ pending' = Tail(pending)
    /\ dirty' = TRUE
    /\ IF closed THEN UNCHANGED <<recovery, turnOpen, heldWaiting, reported, activity>>
       ELSE Apply(Head(pending))
    /\ UNCHANGED <<agentVars, chan, fresh, sends, keys, view, closed, scrape, scrapeDirty,
                   scrapePending, outputAge, notified, unseenDone, idleIn, scrapeIn, ghosts>>

\* A bug: a key settles an identified question as it does any other block.
SettlesAll(esc) == {r \in reported : r.status # "blocked"}

\* clear_blocked_for_input: the report an Enter, or an Esc, leaves.
LeftByKey(esc) ==
    {r \in reported :
        /\ (r.status = "working" => ~esc \/ QuestionWaiting)
        /\ (r.status = "waiting" => esc)
        /\ (r.status = "blocked" => QuestionWaiting)}

\* An Enter ends a wait, unless it is said again behind it: by what comes before
\* the key, too, which is served after it.
Press(esc) ==
    /\ poked' = TRUE
    /\ reported' = LeftByKey(esc)
    /\ heldWaiting' = IF esc THEN heldWaiting ELSE {}
    /\ recovery' = IF ~QuestionWaiting /\ \E r \in reported : r.status = "blocked"
                   THEN NoQuestions ELSE recovery
    /\ scrape' = FALSE
    /\ announced' = (announced /\ (esc \/ \E m \in ToSet(chan) : SaysWaiting(m)))
    /\ unrung' = FALSE
    /\ UNCHANGED <<view, owed>>

Dispatch(k) ==
    IF k \in Views
    THEN /\ view' = k
         /\ UNCHANGED <<poked, reported, heldWaiting, recovery, scrape, ghosts>>
    ELSE IF view = "driven" /\ ~exited THEN Press(k = "esc")
    ELSE UNCHANGED <<view, poked, reported, heldWaiting, recovery, scrape, ghosts>>

\* coalesce_recv: every report up to the first key, which is dispatched at once;
\* the frame is drawn.
Recv ==
    /\ pc = "recv" /\ pc' = "land" /\ dirty' = FALSE
    /\ \E n \in 1 .. Len(chan) + 1 :
         /\ \A j \in 1 .. n - 1 : chan[j].event \notin KeyEvents
         /\ pending' = SubSeq(chan, 1, n - 1)
         /\ chan' = SubSeq(chan, n + 1, Len(chan))
         /\ IF n > Len(chan)
            THEN UNCHANGED <<view, poked, reported, heldWaiting, recovery, scrape, ghosts>>
            ELSE chan[n].event \in KeyEvents /\ Dispatch(chan[n].event)
    /\ UNCHANGED <<kind, turn, open, prompt, exited, fresh, sends, keys, closed, turnOpen,
                   scrapeDirty, scrapePending, outputAge, activity, notified, unseenDone,
                   idleIn, scrapeIn>>

---------------------------------------------------------------------------
(* Time *)

Older(a) == Least(a + 1, Horizon)
Sooner(n) == IF n = 0 THEN 0 ELSE n - 1
Aged(r) == [r EXCEPT !.ttl = Sooner(@), !.quiet = Older(@)]

Tick ==
    /\ Looks
    /\ outputAge' = Older(outputAge)
    /\ reported' = {Aged(r) : r \in reported}
    /\ heldWaiting' = {Aged(r) : r \in heldWaiting}
    /\ scrapePending' = {Older(a) : a \in scrapePending}
    /\ idleIn' = {Sooner(n) : n \in idleIn}
    /\ scrapeIn' = {Sooner(n) : n \in scrapeIn}
    \* a wait that runs out is not promised any more, unless it was said again
    /\ announced' = (announced /\ \/ \E m \in ToSet(pending \o chan) : SaysWaiting(m)
                                  \/ \A r \in reported \cup heldWaiting :
                                        r.status = "waiting" => r.ttl # 1)
    \* and a done that runs out before the loop has settled it was never shown
    /\ owed' = (owed /\ (notified = "done"
                          \/ \A r \in reported : r.status = "done" => r.ttl # 1))
    /\ UNCHANGED <<agentVars, chan, fresh, sends, keys, view, closed, turnOpen, recovery,
                   scrape, scrapeDirty, activity, notified, unseenDone, pc, pending,
                   dirty, unrung>>

Agent == \/ StartTurn \/ EndTurn \/ CancelTurn \/ FailTurn \/ Ask \/ Nudge
         \/ \E c \in Calls : Question(c) \/ Answer(c)
         \/ Review
         \/ \E status \in Tells : Tell(status)
         \/ Draw \/ React \/ Exit

Next == \/ Agent
        \/ \E k \in KeyEvents : Type(k)
        \/ Land \/ Settle \/ Serve \/ Recv
        \/ Tick

Spec == Init /\ [][Next]_vars

\* Nothing wakes the loop: it is blocked in recv.
Due == 0 \in idleIn \cup scrapeIn
Sleeping == /\ pc = "recv" /\ ~dirty /\ chan = <<>> /\ ~fresh /\ closed = exited /\ ~Due

\* The loop runs when something wakes it, time passes, and an agent that was
\* given a key draws what came of it.
Loop == Land \/ Settle \/ Serve \/ (~Sleeping /\ Recv)
FairSpec == Spec /\ WF_vars(Loop) /\ SF_vars(Tick) /\ SF_vars(React)

---------------------------------------------------------------------------
(* Properties *)

\* The dot does not go stale while the loop sleeps: whatever ran out or decayed
\* since it was settled, a deadline is due. What the tab shows at this instant,
\* computed afresh, is what is shown.
NeverStale ==
    Sleeping => activity = IF exited THEN "idle" ELSE Effective(reported, scrape)

\* An agent that said it leaves work behind shows `waiting` once its turn is
\* over, until a prompt, a key, another report or its time ends that, unless a
\* form on its screen asks for the user.
PendingShown ==
    Sleeping /\ announced /\ ~turn /\ ~turnOpen
        => activity = "waiting" \/ (scrape /\ activity = "blocked")

\* An identified question that has no answer keeps the dot blocked, whatever
\* the user types and whichever other questions are answered.
QuestionsStay == Sleeping /\ open # {} => activity = "blocked"

\* Something is rung, or the user was looking, for an ask that found the agent
\* not blocked.
AsksRung == Sleeping => ~unrung

\* A turn that ended while nobody looked shows as done until somebody does,
\* though its report runs out and the agent redraws.
DoneShown ==
    Sleeping /\ owed =>
        \/ activity = "done"
        \/ unseenDone /\ activity = "idle"
        \/ reported = {} /\ activity = "working" /\ outputAge < Active
        \/ scrape

\* An approval form that stays on the screen is shown: codex's though the screen
\* never rests, another agent's if it is drawn and left.
FormsShown ==
    prompt /\ (kind = "codex" \/ ~fresh)
        ~> activity = "blocked" \/ ~prompt \/ exited \/ (kind = "agy" /\ fresh)

===========================================================================

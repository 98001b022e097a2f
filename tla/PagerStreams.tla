---------------------------- MODULE PagerStreams ----------------------------
(***************************************************************************)
(* The pagers of a project that are filled by worker threads: a grep or a  *)
(* git view over the file list, an agent's transcript over its pane's tab  *)
(* (app/pager_stream.rs, app/pane_scroll.rs, app/git_view_session.rs,      *)
(* app/pager_handler, app/pager_history.rs).                               *)
(*                                                                         *)
(* A pager and the stream that fills it are kept apart.  The pager in      *)
(* view, the buffers of its history, the one under the help and the one    *)
(* on the shelf of each tab are views tagged with the id of their stream;  *)
(* the streams are in one slot for the overlay, one for the scrollback,    *)
(* and a map for those whose pager is on a shelf.  Before it waits for a   *)
(* message the event loop lands a git view, drains both slots, each into   *)
(* the view with its id, and takes a scrollback snapshot that is due       *)
(* (turn).  A message is a key, or the wake a worker sends with its        *)
(* output and once more when it ends: nothing else makes the loop look.    *)
(*                                                                         *)
(* A view's tab and covered are history: the tab it was opened on, and     *)
(* that it streamed when the scrollback's help covered it or another       *)
(* stream took its slot.  So are settle.tab, the tab that asked for a      *)
(* snapshot, settle.same, that no tab was closed or replaced since, and    *)
(* mixed, that the tabs changed under a scrollback in view, that one was   *)
(* opened over a tab whose own is still on its shelf, or that the help     *)
(* over the list gave the scrollback back; and unheard, the streams in a   *)
(* slot whose worker panicked with no wake to come since.                  *)
(***************************************************************************)
EXTENDS Integers, Sequences, FiniteSets, SequencesExt

CONSTANTS
    MaxStreams,   \* bound: the streams ever opened
    MaxTabs,      \* bound: the tabs ever opened
    MaxKeys,      \* bound: the keys and outcomes handled
    MaxHistory    \* the buffers a history keeps (10 in the code)

ASSUME PagerAssumption ==
    /\ MaxStreams \in Nat /\ MaxTabs \in Nat /\ MaxKeys \in Nat
    /\ MaxHistory \in Nat \ {0}

Ids == 1..MaxStreams
TabIds == 1..MaxTabs

VARIABLES
    turn,         \* what the event loop does next
    wake,         \* a wake is in the loop's channel
    keys,         \* the keys and outcomes handled so far
    unheard,
    pager,        \* the pager over the list, modal (view.pager)
    back, forward,  \* its buffer history
    helpStash,    \* the pager under its help (pager_help_stash)
    overlayStream,  \* the id of pager_stream, 0 for none
    pending,      \* the git view asked for (pending_git_view)
    scroll,       \* the scrollback over the pane (scroll_pager)
    scrollHelp,   \* the one under its help (scroll_pager_help_stash)
    scrollStream, \* the id of scroll_stream
    parked,       \* the ids of stashed_pager_streams
    settle,       \* the terminal snapshot that is due (pane_scroll_settle)
    tabs, active, \* the tabs in their order, and the place of the active one
    shelf,        \* each tab's stashed_scrollback_pager
    scrolling,    \* the tabs in scroll mode
    paneFocused,  \* the keyboard is the pane's
    job,          \* what each stream's worker does
    sent, ended,  \* the workers that have sent output, that have returned
    opened, spawned, \* the streams and the tabs opened so far
    mixed

loop == <<turn, wake, keys, unheard>>
overlay == <<pager, back, forward, helpStash, overlayStream, pending>>
bottom == <<scroll, scrollHelp, scrollStream, parked, settle>>
tabsVars == <<tabs, active, shelf, scrolling, spawned>>
workers == <<job, sent, ended, opened>>
vars == <<loop, overlay, bottom, tabsVars, paneFocused, workers, mixed>>

----------------------------------------------------------------------------
(* Views.                                                                  *)

Kinds == {"none", "file", "help", "grep", "git", "transcript", "terminal"}
View == [kind : Kinds, id : 0..MaxStreams, streaming : BOOLEAN,
         tab : 0..MaxTabs, covered : BOOLEAN]

\* A pager with nothing to stream.
Plain(kind, tab) == [kind |-> kind, id |-> 0, streaming |-> FALSE,
                     tab |-> tab, covered |-> FALSE]
NoView == Plain("none", 0)
FileView == Plain("file", 0)
Help(tab) == Plain("help", tab)
\* The empty pager a worker is to fill.
Loading(kind, id, tab) == [Plain(kind, tab) EXCEPT !.id = id, !.streaming = TRUE]
Filled(v) == [v EXCEPT !.streaming = FALSE]
Covered(v) == [v EXCEPT !.covered = @ \/ v.streaming]

\* Help and scrollbacks never go to the history (no_history).
NoHistory == {"none", "help", "transcript", "terminal"}

Tab == IF tabs = <<>> THEN 0 ELSE tabs[active]
OpenTabs == Range(tabs)

NoSettle == [at |-> 0, tab |-> 0, same |-> FALSE]

Init ==
    /\ turn = "input" /\ wake = FALSE /\ keys = 0 /\ unheard = {}
    /\ pager = NoView /\ back = <<>> /\ forward = <<>> /\ helpStash = NoView
    /\ overlayStream = 0 /\ pending = 0
    /\ scroll = NoView /\ scrollHelp = NoView /\ scrollStream = 0 /\ parked = {}
    /\ settle = NoSettle
    /\ tabs = <<>> /\ active = 0 /\ shelf = [t \in TabIds |-> NoView] /\ scrolling = {}
    /\ paneFocused = FALSE
    /\ job = [i \in Ids |-> "none"] /\ sent = {} /\ ended = {}
    /\ opened = 0 /\ spawned = 0
    /\ mixed = FALSE

----------------------------------------------------------------------------
(* The workers.  Each sends what it has and returns; a wake follows the    *)
(* output, and another its end, which drops the sender first.  A worker    *)
(* that finds nothing ends without sending.  One that panics drops its     *)
(* sender as it unwinds, and wakes nobody.                                 *)

WorkerSends(i) ==
    /\ job[i] # "none" /\ i \notin sent \cup ended
    /\ sent' = sent \cup {i} /\ wake' = TRUE /\ unheard' = {}
    /\ UNCHANGED <<turn, keys, overlay, bottom, tabsVars, paneFocused, job, ended, opened,
                   mixed>>

\* A bug: the sender goes after the last wake, so the end is seen by none.
EndsUnheard(i) ==
    /\ job[i] # "none" /\ i \notin ended
    /\ ended' = ended \cup {i}
    /\ UNCHANGED <<loop, overlay, bottom, tabsVars, paneFocused, job, sent, opened, mixed>>
WorkerEnds(i) ==
    /\ job[i] # "none" /\ i \notin ended
    /\ ended' = ended \cup {i} /\ wake' = TRUE /\ unheard' = {}
    /\ UNCHANGED <<turn, keys, overlay, bottom, tabsVars, paneFocused, job, sent, opened,
                   mixed>>

WorkerPanics(i) ==
    /\ job[i] # "none" /\ i \notin ended
    /\ ended' = ended \cup {i}
    /\ unheard' = IF wake \/ i \notin {overlayStream, scrollStream} THEN unheard
                  ELSE unheard \cup {i}
    /\ UNCHANGED <<turn, wake, keys, overlay, bottom, tabsVars, paneFocused, job, sent, opened,
                   mixed>>

\* A stream with a fresh id, and its worker.
NewId == opened + 1
Starts(kind) ==
    /\ opened < MaxStreams
    /\ opened' = NewId /\ job' = [job EXCEPT ![NewId] = kind]
    /\ UNCHANGED <<sent, ended>>
----------------------------------------------------------------------------
(* The loop, before it waits: what has arrived is landed and drained.      *)

\* A buffer closed or covered by another: the newest MaxHistory are kept,
\* and what was gone back from is forgotten.
Remembers(v) ==
    IF v.kind \in NoHistory
    THEN UNCHANGED <<back, forward>>
    ELSE /\ back' = IF Len(back) = MaxHistory THEN Append(Tail(back), v) ELSE Append(back, v)
         /\ forward' = <<>>

\* The pending git view has come: it is mounted with its lines, and its
\* stream stays in the slot for the layout toggle.
GitViewLands ==
    /\ turn = "git" /\ turn' = "overlay"
    /\ pending \in sent
    /\ Remembers(Covered(pager))
    /\ pager' = Filled(Loading("git", pending, 0))
    /\ helpStash' = Covered(helpStash)
    /\ overlayStream' = pending /\ pending' = 0
    /\ UNCHANGED <<wake, keys, unheard, bottom, tabsVars, paneFocused, workers, mixed>>

\* No changes, a failure, or nothing asked for or come yet.
NoGitViewLands ==
    /\ turn = "git" /\ turn' = "overlay"
    /\ pending \notin sent
    /\ pending' = IF pending \in ended THEN 0 ELSE pending
    /\ UNCHANGED <<wake, keys, unheard, pager, back, forward, helpStash, overlayStream, bottom,
                   tabsVars, paneFocused, workers, mixed>>

\* A bug: the pager under the help isn't looked for.
HeldInView == pager.id = overlayStream
\* The overlay's stream has its pager: in view, or under the help.
OverlayHeld == overlayStream \in {pager.id, helpStash.id}

\* A bug: a grep is taken for finished with its first lines.
GrepHasLines == overlayStream \in sent \cup ended
GrepEnded == overlayStream \in ended

\* A grep in view is finished when its worker has dropped the sender, and
\* its stream goes; a git view's has nothing to drain and stays.  A stream
\* no pager holds goes.
DrainsOverlay ==
    /\ turn = "overlay" /\ turn' = "scroll"
    /\ IF overlayStream = 0 \/ ~OverlayHeld
       THEN overlayStream' = 0 /\ UNCHANGED pager
       ELSE IF pager.id = overlayStream /\ job[overlayStream] = "grep" /\ GrepEnded
       THEN overlayStream' = 0 /\ pager' = Filled(pager)
       ELSE UNCHANGED <<overlayStream, pager>>
    /\ UNCHANGED <<wake, keys, unheard, back, forward, helpStash, pending, bottom, tabsVars,
                   paneFocused, workers, mixed>>

\* A transcript in view gets its lines, once; one that resolved to nothing
\* closes, and its tab leaves scroll mode.  A stream whose pager isn't in
\* view goes: those of the tabs out of view are parked.
DrainsScroll ==
    /\ turn = "scroll" /\ turn' = "settle"
    /\ IF scrollStream # 0 /\ scroll.id = scrollStream
       THEN \/ /\ scrollStream \in sent
               /\ scroll' = Filled(scroll) /\ scrollStream' = 0
               /\ UNCHANGED scrolling
            \/ /\ scrollStream \in ended \ sent
               /\ scroll' = NoView /\ scrollStream' = 0
               /\ scrolling' = scrolling \ {Tab}
            \/ /\ scrollStream \notin ended \cup sent
               /\ UNCHANGED <<scroll, scrollStream, scrolling>>
       ELSE scrollStream' = 0 /\ UNCHANGED <<scroll, scrolling>>
    /\ UNCHANGED <<wake, keys, unheard, overlay, scrollHelp, parked, settle, tabs, active, shelf,
                   spawned, paneFocused, workers, mixed>>

\* A scrollback over the active tab's pane, which takes the keyboard.
Installs(v) ==
    /\ scroll' = v /\ scrolling' = scrolling \cup {Tab} /\ paneFocused' = TRUE
    /\ mixed' = (mixed \/ shelf[Tab] # NoView)

\* A bug: the snapshot is taken of whatever tab is active.
AnyTabIsAsker == tabs # <<>>
\* The tab in the place of the one that asked is still the active one.
AskerIsActive == tabs # <<>> /\ active = settle.at

\* A snapshot that is due is taken, which shows nothing when the terminal
\* has no history, or abandoned when another place is active.
Settles ==
    /\ turn = "settle" /\ turn' = "input"
    /\ \/ UNCHANGED <<settle, scroll, scrolling, paneFocused, mixed>>
       \/ /\ settle # NoSettle /\ settle' = NoSettle
          /\ \/ AskerIsActive /\ Installs(Plain("terminal", Tab))
             \/ UNCHANGED <<scroll, scrolling, paneFocused, mixed>>
    /\ UNCHANGED <<wake, keys, unheard, overlay, scrollHelp, scrollStream, parked, tabs, active,
                   shelf, spawned, workers>>

\* A wake, or the deadline of the snapshot: the loop goes round without a
\* key.
Woken ==
    /\ turn = "input" /\ turn' = "git"
    /\ wake \/ settle # NoSettle
    /\ wake' = FALSE /\ unheard' = {}
    /\ UNCHANGED <<keys, overlay, bottom, tabsVars, paneFocused, workers, mixed>>

----------------------------------------------------------------------------
(* Keys.  Each is one message: the loop goes round before the next.  The   *)
(* pager over the list is modal, so while it is open every key is its own, *)
(* the chords that act on the tabs included.                               *)

Key ==
    /\ turn = "input" /\ turn' = "git" /\ unheard' = {} /\ UNCHANGED wake
    /\ keys < MaxKeys /\ keys' = keys + 1
InPager == pager # NoView
InList == ~InPager /\ ~paneFocused
InScroll == ~InPager /\ paneFocused /\ scroll # NoView
Chord == ~InPager

\* :grep mounts its pager at once.
OpenGrep ==
    /\ Key /\ InList /\ Starts("grep")
    /\ pager' = Loading("grep", NewId, 0)
    /\ overlayStream' = NewId /\ helpStash' = Covered(helpStash)
    /\ UNCHANGED <<back, forward, pending, bottom, tabsVars, paneFocused, mixed>>

\* A diff, a commit or a blame is built first, and mounted when it comes.
\* One asked for before and not come yet is dropped.
AskGitView ==
    /\ Key /\ InList /\ Starts("git")
    /\ pending' = NewId
    /\ UNCHANGED <<pager, back, forward, helpStash, overlayStream, bottom, tabsVars,
                   paneFocused, mixed>>

\* Any other pager: a key's, or the outcome of other work, which takes the
\* place of what is in view.
PagerOpens ==
    /\ Key
    /\ pager' = FileView
    /\ UNCHANGED <<back, forward, helpStash, overlayStream, pending, bottom, tabsVars,
                   paneFocused, workers, mixed>>

\* ReopenLastBuffer, and :bprev with no pager open.
ReopenLast ==
    /\ Key /\ InList /\ back # <<>>
    /\ pager' = Last(back) /\ back' = Front(back)
    /\ UNCHANGED <<forward, helpStash, overlayStream, pending, bottom, tabsVars, paneFocused,
                   workers, mixed>>

\* q in the pager over the list.  Its help gives back what it covers, but a
\* scrollback that is under its own help comes back first; a buffer that has
\* its lines is kept in the history, and one still streaming is not.
ClosePager ==
    /\ Key /\ InPager
    /\ IF pager.kind = "help" /\ scrollHelp # NoView
       THEN /\ scroll' = scrollHelp /\ scrollHelp' = NoView /\ mixed' = TRUE
            /\ UNCHANGED <<pager, back, forward, helpStash>>
       ELSE /\ UNCHANGED <<scroll, scrollHelp, mixed>>
            /\ IF pager.kind = "help"
               THEN pager' = helpStash /\ helpStash' = NoView /\ UNCHANGED <<back, forward>>
               ELSE /\ pager' = NoView /\ UNCHANGED helpStash
                    /\ IF pager.streaming THEN UNCHANGED <<back, forward>> ELSE Remembers(pager)
    /\ UNCHANGED <<overlayStream, pending, scrollStream, parked, settle, tabsVars, paneFocused,
                   workers>>

\* H.  With the keyboard on a scrollback it is the scrollback that gets the
\* help, even one under a pager that came meanwhile.
ShowHelp ==
    /\ Key /\ (InPager \/ InScroll)
    /\ IF paneFocused /\ scroll # NoView
       THEN /\ IF scroll.kind = "help"
               THEN UNCHANGED <<scroll, scrollHelp>>
               ELSE scrollHelp' = Covered(scroll) /\ scroll' = Help(Tab)
            /\ UNCHANGED <<pager, helpStash>>
       ELSE /\ helpStash' = IF pager.kind = "help" THEN helpStash ELSE pager
            /\ pager' = Help(0)
            /\ UNCHANGED <<scroll, scrollHelp>>
    /\ UNCHANGED <<back, forward, overlayStream, pending, scrollStream, parked, settle,
                   tabsVars, paneFocused, workers, mixed>>

\* A bug: the pager that is cut keeps the stream it no longer has.
CutNot(v) == [v EXCEPT !.streaming = FALSE]
\* A pager that is left while it streams has what it has, and no stream.
Cut(v) == IF v.streaming THEN [v EXCEPT !.streaming = FALSE, !.id = 0] ELSE v

\* [b and ]b in the pager over the list.  A stream is cut before it is
\* known whether there is another buffer.
Navigate ==
    /\ Key /\ InPager /\ ~(paneFocused /\ scroll # NoView)
    /\ overlayStream' = IF pager.streaming /\ pager.id = overlayStream THEN 0 ELSE overlayStream
    /\ \/ /\ back = <<>> \/ forward = <<>>
          /\ pager' = Cut(pager) /\ UNCHANGED <<back, forward>>
       \/ /\ back # <<>>
          /\ pager' = Last(back)
          /\ back' = Front(back) /\ forward' = Append(forward, Cut(pager))
       \/ /\ forward # <<>>
          /\ pager' = Last(forward)
          /\ forward' = Front(forward) /\ back' = Append(back, Cut(pager))
    /\ UNCHANGED <<helpStash, pending, bottom, tabsVars, paneFocused, workers, mixed>>

\* ^a j and ^a k.
Focus ==
    /\ Key /\ Chord /\ tabs # <<>>
    /\ paneFocused' = ~paneFocused
    /\ UNCHANGED <<overlay, bottom, tabsVars, workers, mixed>>

----------------------------------------------------------------------------
(* The scrollback.                                                         *)

\* ^a v on an agent's tab, ^a t, and r, t and T in a transcript: its worker
\* is started and an empty pager mounted over whatever is there.
OpenTranscript ==
    /\ Key /\ Chord /\ tabs # <<>> /\ Starts("transcript")
    /\ Installs(Loading("transcript", NewId, Tab))
    /\ scrollStream' = NewId
    /\ UNCHANGED <<overlay, scrollHelp, parked, settle, tabs, active, shelf, spawned>>

\* ^a v on any other tab, and T in a transcript: a snapshot of the terminal
\* is due when what the pane is sending has settled.
AskTerminal ==
    /\ Key /\ Chord /\ tabs # <<>>
    /\ settle' = [at |-> active, tab |-> Tab, same |-> TRUE]
    /\ UNCHANGED <<overlay, scroll, scrollHelp, scrollStream, parked, tabsVars, paneFocused,
                   workers, mixed>>

StopsScrolling == scrolling \ {Tab}

\* q in the scrollback, or a scroll past its end; in its help, q gives the
\* scrollback back.
CloseScroll ==
    /\ Key /\ InScroll
    /\ IF scroll.kind = "help"
       THEN scroll' = scrollHelp /\ scrollHelp' = NoView /\ UNCHANGED scrolling
       ELSE scroll' = NoView /\ scrolling' = StopsScrolling /\ UNCHANGED scrollHelp
    /\ UNCHANGED <<overlay, scrollStream, parked, settle, tabs, active, shelf, spawned,
                   paneFocused, workers, mixed>>

----------------------------------------------------------------------------
(* Tabs.  A scrollback is put on the shelf of the tab that is left and     *)
(* taken from that of the tab come to, its stream with it.                 *)

\* The tabs change under a scrollback in view, or under its help.
Strays == scroll # NoView \/ scrollHelp # NoView

\* A bug: the stream of a scrollback on a shelf isn't parked.
ParksNone == FALSE
Parks == scroll.id # 0 /\ scroll.id = scrollStream

\* A bug: the active tab is changed before the scrollback is put away.
StashAfter == IF scroll = NoView THEN shelf ELSE [shelf EXCEPT ![tabs[active']] = scroll]
Stash == IF scroll = NoView THEN shelf ELSE [shelf EXCEPT ![Tab] = scroll]

\* ^a n, ^a p, ^a 1.. and ^a ^a, also to the tab that is active, where ^a ^a
\* leaves the keyboard where it is.
GoToTab(i) ==
    /\ Key /\ Chord /\ i \in DOMAIN tabs
    /\ active' = i
    /\ paneFocused' \in {TRUE, i # active \/ paneFocused}
    /\ LET held == IF Parks THEN parked \cup {scroll.id} ELSE parked
           view == Stash[tabs[i]]
       IN  /\ scroll' = view
           /\ shelf' = [Stash EXCEPT ![tabs[i]] = NoView]
           /\ parked' = held \ {view.id}
           /\ scrollStream' = IF view.id \in held THEN view.id
                              ELSE IF Parks THEN 0 ELSE scrollStream
    /\ mixed' = (mixed \/ scrollHelp # NoView)
    /\ UNCHANGED <<overlay, scrollHelp, settle, tabs, scrolling, spawned, workers>>

\* With no tab left the scrollback in view has no shelf to go to.
GoToNone ==
    /\ Key /\ Chord /\ tabs = <<>> /\ scroll # NoView
    /\ scroll' = NoView
    /\ parked' = IF Parks THEN parked \cup {scroll.id} ELSE parked
    /\ scrollStream' = IF Parks THEN 0 ELSE scrollStream
    /\ UNCHANGED <<overlay, scrollHelp, settle, tabsVars, paneFocused, workers, mixed>>

\* ^a c: the new tab is the last, and active.
OpenTab ==
    /\ Key /\ Chord /\ spawned < MaxTabs
    /\ spawned' = spawned + 1
    /\ tabs' = Append(tabs, spawned') /\ active' = Len(tabs')
    /\ paneFocused' = TRUE
    /\ mixed' = (mixed \/ Strays)
    /\ UNCHANGED <<overlay, bottom, shelf, scrolling, workers>>

\* A bug: the streams of a tab that goes stay parked.
NonePruned(on) == parked
\* What is still parked for a view on these shelves once a tab has gone.
Pruned(on) == parked \cap {shelf[t].id : t \in on}

\* A tab is gone, with what was on its shelf.
Gone(t) ==
    /\ shelf' = [shelf EXCEPT ![t] = NoView]
    /\ scrolling' = scrolling \ {t}
    /\ parked' = Pruned(OpenTabs \ {t})
    /\ settle' = [settle EXCEPT !.same = FALSE]

\* ^a x, and :pane-to-task, which keeps the tab's process.  The scrollback
\* in view stays.
CloseTab ==
    /\ Key /\ Chord /\ tabs # <<>>
    /\ Gone(Tab)
    /\ tabs' = RemoveAt(tabs, active)
    /\ active' = IF active > Len(tabs') THEN Len(tabs') ELSE active
    /\ paneFocused' = (paneFocused /\ tabs' # <<>>)
    /\ mixed' = (mixed \/ Strays)
    /\ UNCHANGED <<overlay, scroll, scrollHelp, scrollStream, spawned, workers>>

\* The tab in place i starts again as a new one, in the same place.
Restarts(i) ==
    /\ spawned < MaxTabs /\ spawned' = spawned + 1
    /\ Gone(tabs[i])
    /\ tabs' = [tabs EXCEPT ![i] = spawned'] /\ UNCHANGED active
    /\ paneFocused' = TRUE
    /\ mixed' = (mixed \/ (i = active /\ Strays))
    /\ UNCHANGED <<overlay, scroll, scrollHelp, scrollStream, workers>>

\* ^a R.
RestartTab == Key /\ Chord /\ tabs # <<>> /\ Restarts(active)

\* The hooks are installed, and the agent of a tab, in view or not, is
\* started again to read them.
AgentRestarts(i) == Key /\ i \in DOMAIN tabs /\ Restarts(i)

----------------------------------------------------------------------------

LoopPass ==
    \/ GitViewLands
    \/ NoGitViewLands
    \/ DrainsOverlay
    \/ DrainsScroll
    \/ Settles

Next ==
    \/ LoopPass
    \/ Woken
    \/ \E i \in Ids : WorkerSends(i) \/ WorkerEnds(i) \/ WorkerPanics(i)
    \/ OpenGrep
    \/ AskGitView
    \/ PagerOpens
    \/ ReopenLast
    \/ ClosePager
    \/ ShowHelp
    \/ Navigate
    \/ Focus
    \/ OpenTranscript
    \/ AskTerminal
    \/ CloseScroll
    \/ \E i \in 1..MaxTabs : GoToTab(i)
    \/ GoToNone
    \/ OpenTab
    \/ CloseTab
    \/ RestartTab
    \/ \E i \in 1..MaxTabs : AgentRestarts(i)

Spec == Init /\ [][Next]_vars

\* The loop goes on and looks when it is woken, and a worker returns in the
\* end, or panics.  No key has to come.
FairSpec ==
    /\ Spec
    /\ WF_vars(LoopPass) /\ WF_vars(Woken)
    /\ \A i \in Ids : WF_vars(WorkerEnds(i))

----------------------------------------------------------------------------
(* Properties.                                                             *)

Views == {pager, helpStash, scroll, scrollHelp} \cup Range(back) \cup Range(forward)
         \cup {shelf[t] : t \in TabIds}

\* A pager that is still waiting for lines has the stream they will come
\* from where it will be looked for: the pager over the list and the one
\* under its help in the overlay's slot, the scrollback in its own, and one
\* on the shelf of a tab among the parked streams.  Tabs, help and buffers
\* come and go meanwhile (drain_one_pager_stream, and the stash and restore
\* of pane_scroll.rs).  Those covered are left out: README, PagerStreams.
Waits(v) == v.streaming /\ ~v.covered
Fed ==
    /\ \A v \in {pager, helpStash} : Waits(v) => overlayStream = v.id
    /\ Waits(scroll) => scrollStream = scroll.id
    /\ \A t \in OpenTabs : Waits(shelf[t]) => shelf[t].id \in parked

\* A pager that says it is finished has all its stream had to give,
\* wherever it was when the last of it came: a grep cut short is no stream's
\* any more (nav_pager_buffer).
Whole ==
    \A v \in Views :
        v.id # 0 /\ ~v.streaming => v.id \in (IF v.kind = "grep" THEN ended ELSE sent)

\* A scrollback is shown on the tab it was opened on and on no other, and
\* on no shelf but that tab's, as long as the tabs only change with no
\* scrollback in view (the stash and restore pair).
OwnScrollback ==
    ~mixed =>
        /\ scroll # NoView => scroll.tab = Tab
        /\ \A t \in TabIds : shelf[t] # NoView => t \in OpenTabs /\ shelf[t].tab = t

\* A stream is parked for a view on the shelf of an open tab, or it is gone:
\* one whose tab was restarted out of view would be kept for ever
\* (prune_orphaned_pager_streams).
ParkedOwned == ~mixed => \A i \in parked : \E t \in OpenTabs : shelf[t].id = i

\* A snapshot of a terminal's history is shown on the tab that asked for it,
\* though others may have been gone to and opened since, as long as none
\* was closed or replaced (decide_scroll_settle).
SnapshotIsTheAskers ==
    [][turn = "settle" /\ settle.same /\ scroll' # scroll => settle.tab = Tab]_vars

\* A transcript in view, a grep in view or a stream whose pager is gone
\* doesn't stay in its slot: with no key pressed it is taken out when its
\* worker is done, or dropped so that its worker stops.  A git view's stays
\* with its pager, and a grep's with its pager under the help.  That of a
\* worker that panicked may wait until the loop is woken by something else,
\* and goes then.
InSlot(i) ==
    \/ scrollStream = i
    \/ overlayStream = i /\ (IF job[i] = "grep" THEN helpStash.id # i ELSE ~OverlayHeld)
LoadsEnd == \A i \in Ids : InSlot(i) ~> ~InSlot(i) \/ i \in unheard

\* "Now each tab has its own stashed_scrollback_pager slot": no scrollback
\* is shown over a tab it was not opened on.
TravelsWithTab == scroll # NoView => scroll.tab = Tab

=============================================================================

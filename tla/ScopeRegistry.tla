----------------------------- MODULE ScopeRegistry -----------------------------
(***************************************************************************)
(* The merge-coordination registry (state/scope_registry.rs, app/mcp.rs,   *)
(* app/mcp_routing.rs, mcp/protocol.rs): claims registered, waited on and  *)
(* released by the agents of several tabs through one event loop.          *)
(*                                                                         *)
(* An owner is one run of one tab: its claim_owner key, its pane id, its   *)
(* agent and that agent's connection.  A restarted tab is another owner.   *)
(* The agents follow docs/AGENT_ORCHESTRATION.md: register, wait for       *)
(* clear, merge, release.  A connection has one call in flight; its server *)
(* thread may give up waiting (reply_budget), and what the loop answers    *)
(* then goes nowhere, but the call is served all the same.                 *)
(*                                                                         *)
(* Paths are what they are compared for: which owners' paths overlap.      *)
(* Unbound connections and session restore are left out.                   *)
(***************************************************************************)
EXTENDS Integers, Sequences, FiniteSets, FiniteSetsExt

CONSTANTS Owners,       \* the tabs' claim_owner keys
          Editors,      \* those that register with intent "editing"
          Projects,     \* the tabs of each project
          Overlap,      \* the pairs {o, p} whose paths conflict
          MaxCalls      \* bound: the calls the agents make in all

ASSUME ScopeAssumption ==
    /\ IsFiniteSet(Owners)
    /\ Editors \subseteq Owners
    /\ Projects \subseteq SUBSET Owners
    /\ Overlap \subseteq {{o, p} : o, p \in Owners}
    /\ MaxCalls \in Nat

VARIABLES open,         \* the owners whose tab is open
          registry,     \* AppState::scope_registry
          waiters,      \* Runtime::scope_waiters
          armed,        \* Deadline::ScopeWait is armed
          loop,         \* where the event loop is
          inbox,        \* the requests sent and not received
          batch,        \* ctx.mcp_pending
          ph,           \* where each agent is in its workflow
          call,         \* history: the number of each agent's last call
          asked,        \* the calls made so far
          ids,          \* the claim_id each agent was last answered
          misreleased   \* history: a release dropped another owner's claim

loopVars == <<loop, inbox, batch>>
agentVars == <<ph, call, asked, ids>>
vars == <<open, registry, waiters, armed, loopVars, agentVars, misreleased>>

Request(o, kind) == [from |-> o, call |-> call[o] + 1, kind |-> kind, id |-> ids[o]]

Asking == {"claiming", "waiting", "releasing"}

Init ==
    /\ open = Owners
    /\ registry = {}
    /\ waiters = {}
    /\ armed = FALSE
    /\ loop = "recv" /\ inbox = <<>> /\ batch = <<>>
    /\ ph = [o \in Owners |-> "free"]
    /\ call = [o \in Owners |-> 0] /\ asked = 0
    /\ ids = [o \in Owners |-> 0]
    /\ misreleased = FALSE

-----------------------------------------------------------------------------
(* The agents and their connections. *)

Ask(o, from, kind, to) ==
    /\ ph[o] \in from
    /\ asked < MaxCalls
    /\ asked' = asked + 1
    /\ inbox' = Append(inbox, Request(o, kind))
    /\ call' = [call EXCEPT ![o] = @ + 1]
    /\ ph' = [ph EXCEPT ![o] = to]
    /\ UNCHANGED <<open, registry, waiters, armed, loop, batch, ids, misreleased>>

Register(o) == Ask(o, {"free", "merged"}, "register", "claiming")

Wait(o) == o \notin Editors /\ Ask(o, {"claimed"}, "wait", "waiting")

(* Done, tired of waiting, or unanswered the last time. *)
Release(o) == Ask(o, {"claimed", "merging", "merged"}, "release", "releasing")

(***************************************************************************)
(* recv_timeout runs out: "spyc did not respond".  The agent does not know *)
(* whether its call was, or will be, served.                               *)
(***************************************************************************)
GiveUp(o) ==
    /\ ph[o] \in Asking
    /\ ph' = [ph EXCEPT ![o] = CASE @ = "claiming"  -> "free"
                                 [] @ = "waiting"   -> "claimed"
                                 [] @ = "releasing" -> "merged"]
    /\ UNCHANGED <<open, registry, waiters, armed, loopVars, call, asked, ids, misreleased>>

-----------------------------------------------------------------------------
(* The event loop. *)

(* A bug: the intent is tested the wrong way round. *)
BlocksEditing(c, o) == c.owner # o /\ c.owner \in Editors /\ {c.owner, o} \in Overlap

(***************************************************************************)
(* conflicts: another owner's merging claims on overlapping paths.         *)
(***************************************************************************)
Blocks(c, o) ==
    /\ c.owner # o
    /\ c.owner \notin Editors
    /\ {c.owner, o} \in Overlap

Conflicts(o) == {c \in registry : Blocks(c, o)}

(* The reply reaches the call's thread if that still waits for it. *)
Heard(o, n) == call[o] = n /\ ph[o] \in Asking

Answer(r, to) == ph' = IF Heard(r.from, r.call) THEN [ph EXCEPT ![r.from] = to] ELSE ph

(***************************************************************************)
(* recv and coalesce_recv buffer a burst of requests into mcp_pending, up  *)
(* to the first input event.                                               *)
(***************************************************************************)
Buffer(n) ==
    /\ loop = "recv"
    /\ batch' = SubSeq(inbox, 1, n)
    /\ inbox' = SubSeq(inbox, n + 1, Len(inbox))
    /\ loop' = "drain"

Recv ==
    /\ \E n \in 1..Len(inbox) : Buffer(n)
    /\ UNCHANGED <<open, registry, waiters, armed, agentVars, misreleased>>

(* The armed deadline: no later than any waiter's. *)
Wake ==
    /\ armed
    /\ \E w \in waiters : w.late
    /\ Buffer(0)
    /\ UNCHANGED <<open, registry, waiters, armed, agentVars, misreleased>>

(***************************************************************************)
(* ^a x and ^a R: the tab's agent goes and its claims are dropped; a wait  *)
(* it parked stays parked.                                                 *)
(***************************************************************************)
CloseTab(o) ==
    /\ o \in open
    /\ \E n \in 0..Len(inbox) : Buffer(n)
    /\ open' = open \ {o}
    /\ registry' = {c \in registry : c.owner # o}
    /\ ph' = [ph EXCEPT ![o] = "gone"]
    /\ UNCHANGED <<waiters, armed, call, asked, ids, misreleased>>

(***************************************************************************)
(* drop_project: the claims of all its tabs, and the waits they parked.    *)
(***************************************************************************)
DropProject(tabs) ==
    /\ tabs # {}
    /\ \E n \in 0..Len(inbox) : Buffer(n)
    /\ open' = open \ tabs
    /\ registry' = {c \in registry : c.owner \notin tabs}
    /\ waiters' = {w \in waiters : w.owner \notin tabs}
    /\ ph' = [o \in Owners |-> IF o \in tabs THEN "gone" ELSE ph[o]]
    /\ UNCHANGED <<armed, call, asked, ids, misreleased>>

NewId == IF registry = {} THEN 1 ELSE Max({c.id : c \in registry}) + 1

(* The next buffered request is taken: route_mcp_request. *)
NextIs(kind) ==
    /\ loop = "drain"
    /\ batch # <<>>
    /\ Head(batch).kind = kind
    /\ batch' = Tail(batch)

(* A bug: a claim is taken from whichever connection asks. *)
ServeRegisterAny ==
    /\ NextIs("register")
    /\ LET r == Head(batch)
       IN  /\ registry' = registry \cup {[id |-> NewId, owner |-> r.from]}
           /\ ids' = IF Heard(r.from, r.call) THEN [ids EXCEPT ![r.from] = NewId] ELSE ids
           /\ Answer(r, "claimed")
    /\ UNCHANGED <<open, waiters, armed, loop, inbox, call, asked, misreleased>>

(***************************************************************************)
(* RegisterScope: the pane id must be an open tab's (resolve_report_target),*)
(* and the claim takes one more than the largest id there is.              *)
(***************************************************************************)
ServeRegister ==
    /\ NextIs("register")
    /\ LET r == Head(batch)
       IN  IF r.from \in open
           THEN /\ registry' = registry \cup {[id |-> NewId, owner |-> r.from]}
                /\ ids' = IF Heard(r.from, r.call) THEN [ids EXCEPT ![r.from] = NewId] ELSE ids
                /\ Answer(r, "claimed")
           ELSE UNCHANGED <<registry, ids, ph>>
    /\ UNCHANGED <<open, waiters, armed, loop, inbox, call, asked, misreleased>>

(***************************************************************************)
(* ReleaseScope drops the claims with that id, whoever asks.               *)
(***************************************************************************)
ServeRelease ==
    /\ NextIs("release")
    /\ LET r == Head(batch)
           dropped == {c \in registry : c.id = r.id}
       IN  /\ registry' = registry \ dropped
           /\ misreleased' = (misreleased \/ \E c \in dropped : c.owner # r.from)
           /\ Answer(r, "free")
    /\ UNCHANGED <<open, waiters, armed, loop, inbox, call, asked, ids>>

(***************************************************************************)
(* handle_scope_wait: answered at once if clear, else parked.              *)
(***************************************************************************)
ServeWait ==
    /\ NextIs("wait")
    /\ LET r == Head(batch)
       IN  IF r.from \notin open
           THEN UNCHANGED <<ph, waiters>>
           ELSE IF Conflicts(r.from) = {}
                THEN Answer(r, "merging") /\ UNCHANGED waiters
                ELSE /\ waiters' = waiters \cup {[owner |-> r.from, call |-> r.call, late |-> FALSE]}
                     /\ UNCHANGED ph
    /\ UNCHANGED <<open, registry, armed, loop, inbox, call, asked, ids, misreleased>>

Clear(w) == Conflicts(w.owner) = {}

(* A bug: the settle arms nothing. *)
ArmedNever(still) == FALSE

(* The scheduler holds the earliest deadline while anyone waits. *)
Armed(still) == still # {}

(* A bug: only a waiter whose time is up is looked at. *)
StillLate == {w \in waiters : ~w.late}

(* wait_outcome: cleared first, then timed out. *)
Still == {w \in waiters : ~Clear(w) /\ ~w.late}

(***************************************************************************)
(* settle_scope_waiters, after the drain of every iteration.               *)
(***************************************************************************)
Settle ==
    /\ loop = "drain"
    /\ batch = <<>>
    /\ loop' = "recv"
    /\ waiters' = Still
    /\ armed' = Armed(Still)
    /\ ph' = [o \in Owners |->
                IF \E w \in waiters \ Still : w.owner = o /\ Heard(o, w.call)
                THEN IF Conflicts(o) = {} THEN "merging" ELSE "claimed"
                ELSE ph[o]]
    /\ UNCHANGED <<open, registry, inbox, batch, call, asked, ids, misreleased>>

(* A waiter's deadline passes. *)
Elapse ==
    /\ \E w \in waiters :
          /\ ~w.late
          /\ waiters' = (waiters \ {w}) \cup {[w EXCEPT !.late = TRUE]}
    /\ UNCHANGED <<open, registry, armed, loopVars, agentVars, misreleased>>

-----------------------------------------------------------------------------
Agent(o) == Register(o) \/ Wait(o) \/ Release(o)
Serve == ServeRegister \/ ServeRelease \/ ServeWait
Loop == Recv \/ Wake \/ Serve \/ Settle

Next ==
    \/ \E o \in Owners : Agent(o) \/ GiveUp(o) \/ CloseTab(o)
    \/ \E p \in Projects : DropProject(p \cap open)
    \/ Loop
    \/ Elapse

Spec == Init /\ [][Next]_vars

(* The loop runs whenever something wakes it, and time passes. *)
FairSpec == Spec /\ WF_vars(Loop) /\ WF_vars(Elapse)

-----------------------------------------------------------------------------
(* What must hold. *)

Phases == Asking \cup {"free", "claimed", "merging", "merged", "gone"}

Requests == [from : Owners, call : Nat \ {0}, kind : {"register", "wait", "release"}, id : Nat]

TypeOK ==
    /\ open \subseteq Owners
    /\ registry \subseteq [id : Nat \ {0}, owner : Owners]
    /\ waiters \subseteq [owner : Owners, call : Nat \ {0}, late : BOOLEAN]
    /\ armed \in BOOLEAN
    /\ loop \in {"recv", "drain"}
    /\ inbox \in Seq(Requests) /\ batch \in Seq(Requests)
    /\ ph \in [Owners -> Phases]
    /\ call \in [Owners -> Nat] /\ asked \in 0..MaxCalls
    /\ ids \in [Owners -> Nat]
    /\ misreleased \in BOOLEAN

(***************************************************************************)
(* A claim_id names one claim, whatever was released before it was given.  *)
(***************************************************************************)
UniqueIds == \A c, d \in registry : c.id = d.id => c = d

(***************************************************************************)
(* "A closed tab never holds a stale one" (close_active_tab_now): no claim *)
(* of a closed, restarted or dropped tab is left, not even one its agent   *)
(* had sent before and the loop serves after.                              *)
(***************************************************************************)
OwnersOpen == \A c \in registry : c.owner \in open

(***************************************************************************)
(* Agents that register, wait and release as documented merge overlapping  *)
(* paths one at a time, whatever calls time out, tabs close or waits give  *)
(* up, unless some release dropped a claim that was not its caller's.      *)
(***************************************************************************)
Merging(o) == ph[o] = "merging"

Exclusive ==
    ~misreleased =>
        \A o, p \in Owners : o # p /\ {o, p} \in Overlap => ~(Merging(o) /\ Merging(p))

(***************************************************************************)
(* When the loop blocks, every parked wait is blocked and its deadline is  *)
(* armed: a release, a close or a dropped project that clears one is       *)
(* settled in the same iteration, and none is left without a wake.         *)
(***************************************************************************)
ParkedAreBlocked ==
    loop = "recv" => /\ \A w \in waiters : ~Clear(w)
                     /\ waiters # {} => armed

(***************************************************************************)
(* A parked wait does not stay parked ("always bounded by a timeout").     *)
(* Calls being bounded, no owner's waits follow one another for ever.      *)
(***************************************************************************)
Waits(o) == \E w \in waiters : w.owner = o

WaitsEnd == \A o \in Owners : Waits(o) ~> ~Waits(o)
=============================================================================

------------------------------- MODULE Sessions -------------------------------
(***************************************************************************)
(* Session files (app/session.rs, app/session_restore.rs,                  *)
(* state/sessions, app/state/restore.rs): several spycs, each saving its   *)
(* tabs to a file of its own, and each able to restore another's file at   *)
(* its start (`spyc -r`).                                                  *)
(*                                                                         *)
(* A tab is the conversation its agent is in.  The picker reads the files  *)
(* when it is shown and the user picks later; a restore opens some tabs    *)
(* beside those of its other projects, keeps others as records (a plan     *)
(* refused, a spawn failed), leaves shut projects in the file, or does     *)
(* nothing when it can open nothing.  Autosave follows a change after a    *)
(* while and its write may fail.  A spyc may be killed at any time.        *)
(*                                                                         *)
(* Left out: scope claims, closed projects, layout, a tab's conversation   *)
(* being known only later, and sessions restored for their split alone.    *)
(***************************************************************************)
EXTENDS Naturals, Sequences, SequencesExt, FiniteSets

CONSTANTS MaxProcs,     \* spycs, numbered in the order they start
          MaxTabs,      \* bound: conversations that are ever begun
          MaxFiles,     \* MAX_SESSIONS
          MayFail,      \* bound: spycs whose saves may fail
          None,         \* no file, no picker row, nothing saved yet
          Respawned     \* a baseline no state of tabs matches

Procs == 1..MaxProcs
Tabs == 1..MaxTabs

Manifests == [by : Procs, open : SUBSET Tabs, kept : SUBSET Tabs]
Prints == [live : SUBSET Tabs, deferred : SUBSET Tabs]

ASSUME SessionAssumption ==
    /\ MaxProcs \in Nat /\ MaxTabs \in Nat /\ MayFail \subseteq Procs
    /\ MaxFiles \in Nat \ {0}
    /\ None \notin Manifests \cup Prints \cup [name : Procs, as : Manifests]
    /\ Respawned \notin Prints \cup {None}

VARIABLES phase,        \* each spyc's: unborn, up or gone
          picker,       \* the row of its picker the user will pick, as read
          sid,          \* its session_id, which names its file
          live,         \* its tabs
          deferred,     \* deferred_tabs: saved tabs it could not open
          base,         \* autosave_last_saved_fp
          file,         \* the session files
          recent,       \* their names, by time of the last write
          begun,        \* how many conversations have begun
          failed,       \* history: spycs whose last save failed
          clashed,      \* history: files adopted from an outdated picker
          excused       \* history: tabs the user closed or a prune or clash took

fileVars == <<file, recent>>
vars == <<phase, picker, sid, live, deferred, base, fileVars, begun, failed, clashed, excused>>

Up(p) == phase[p] = "up"
Contents(m) == IF m = None THEN {} ELSE m.open \cup m.kept
Saved == UNION {Contents(file[f]) : f \in Procs}

Init ==
    /\ phase = [p \in Procs |-> "unborn"] /\ picker = [p \in Procs |-> None]
    /\ sid = [p \in Procs |-> p]
    /\ live = [p \in Procs |-> {}] /\ deferred = [p \in Procs |-> {}]
    /\ base = [p \in Procs |-> None]
    /\ file = [p \in Procs |-> None] /\ recent = <<>>
    /\ begun = 0 /\ failed = {} /\ clashed = {} /\ excused = {}

-----------------------------------------------------------------------------
(* What a save writes, and which files it deletes.                         *)

\* A bug: the records of unopened tabs are not merged back in.
BuildLiveOnly(p) == [by |-> p, open |-> live[p], kept |-> {}]
BuildManifest(p) == [by |-> p, open |-> live[p], kept |-> deferred[p]]

\* The files by their last write, f the newest.
Latest(f) ==
    Append(IF f \in Range(recent)
           THEN RemoveAt(recent, CHOOSE i \in DOMAIN recent : recent[i] = f)
           ELSE recent, f)

Excess(order) == IF Len(order) > MaxFiles THEN Len(order) - MaxFiles ELSE 0
PruneVictims(order, keep) == {order[i] : i \in 1..Excess(order)} \ {keep}

\* A bug: the tabs a restore could not open do not count.
FingerprintLive(p) == [live |-> live[p], deferred |-> {}]
Fingerprint(p) == [live |-> live[p], deferred |-> deferred[p]]

HasRestorable(p) == live[p] \cup deferred[p] # {}

Write(p) ==
    LET f == sid[p]
        order == Latest(f)
        gone == PruneVictims(order, f)
        after == [g \in Procs |-> IF g \in gone THEN None
                                  ELSE IF g = f THEN BuildManifest(p) ELSE file[g]]
    IN  /\ file' = after
        /\ recent' = SubSeq(order, Excess(order) + 1, Len(order))
        /\ excused' = excused \cup (UNION {Contents(file[g]) : g \in gone})
                        \cup (IF f \in clashed THEN Contents(file[f]) ELSE {})

WriteFails(p) ==
    /\ p \in MayFail
    /\ UNCHANGED <<fileVars, excused>>

-----------------------------------------------------------------------------
(* A spyc's life.                                                          *)

Start(p) ==
    /\ phase[p] = "unborn" /\ \A q \in Procs : q < p => phase[q] # "unborn"
    /\ phase' = [phase EXCEPT ![p] = "up"]
    /\ \/ UNCHANGED picker
       \/ \E f \in Procs : /\ Contents(file[f]) # {}       \* show_session_picker
                           /\ picker' = [picker EXCEPT ![p] = [name |-> f, as |-> file[f]]]
    /\ UNCHANGED <<sid, live, deferred, base, fileVars, begun, failed, clashed, excused>>

OpenTab(p) ==
    /\ Up(p) /\ begun < MaxTabs
    /\ begun' = begun + 1
    /\ live' = [live EXCEPT ![p] = @ \cup {begun + 1}]
    /\ UNCHANGED <<phase, picker, sid, deferred, base, fileVars, failed, clashed, excused>>

CloseTab(p) ==
    /\ Up(p)
    /\ \E t \in live[p] : /\ live' = [live EXCEPT ![p] = @ \ {t}]
                          /\ excused' = excused \cup {t}
    /\ UNCHANGED <<phase, picker, sid, deferred, base, fileVars, begun, failed, clashed>>

Dirty(p) == /\ HasRestorable(p) \/ base[p] # None
            /\ base[p] # Fingerprint(p)

\* settle_autosave: the baseline moves whether or not the write succeeded.
Autosave(p) ==
    /\ Up(p) /\ Dirty(p)
    /\ \/ Write(p) /\ failed' = failed \ {p}
       \/ WriteFails(p) /\ failed' = failed \cup {p}
    /\ base' = [base EXCEPT ![p] = Fingerprint(p)]
    /\ UNCHANGED <<phase, picker, sid, live, deferred, begun, clashed>>

Gone(p) ==
    /\ phase' = [phase EXCEPT ![p] = "gone"]
    /\ picker' = [picker EXCEPT ![p] = None]
    /\ live' = [live EXCEPT ![p] = {}]
    /\ deferred' = [deferred EXCEPT ![p] = {}]
    /\ base' = [base EXCEPT ![p] = None]
    /\ sid' = [sid EXCEPT ![p] = p]
    /\ failed' = failed \ {p}
    /\ UNCHANGED <<begun, clashed>>

Quit(p) ==
    /\ Up(p) /\ Gone(p)
    /\ IF HasRestorable(p) \/ file[sid[p]] # None
       THEN Write(p) \/ WriteFails(p)
       ELSE UNCHANGED <<fileVars, excused>>

Crash(p) == Up(p) /\ Gone(p) /\ UNCHANGED <<fileVars, excused>>

-----------------------------------------------------------------------------
(* Restore.                                                                *)

Running(m, p) == m.by # p /\ Up(m.by)

\* A bug: only the file being restored is looked at.
HeldInNone(p) == {}
HeldByRunning(p) ==
    UNION {file[f].open : f \in {g \in Procs : file[g] # None /\ Running(file[g], p)}}

\* A bug: a file is adopted though projects in it stayed shut.
AdoptsShut(m, p, shut) == ~Running(m, p)
Adopts(m, p, shut) == ~Running(m, p) /\ shut = {}

\* The tabs that start with nothing resumed; a conversation of theirs is new.
Fresh(m, p, planned) == IF Running(m, p) THEN planned ELSE planned \cap HeldByRunning(p)

\* A restore of m but for the tabs of projects that stay shut; those a plan
\* refuses or whose spawn fails are kept as records (a fresh one's without the
\* conversation), and those of the spyc's projects not in view stay.
Reopen(p, m, shut, refused, unspawned, stay) ==
    LET planned == Contents(m) \ (shut \cup refused)
        fresh == Fresh(m, p, planned)
        unborn == begun + Cardinality(fresh \cap unspawned)
        f == picker[p].name
        adopt == Adopts(m, p, shut)
        shared == \E q \in Procs \ {p} : Up(q) /\ sid[q] = f
    IN  /\ begun' = begun + Cardinality(fresh) /\ begun' <= MaxTabs
        /\ live' = [live EXCEPT ![p] = stay \cup (planned \ (fresh \cup unspawned))
                                            \cup (unborn + 1)..begun']
        /\ deferred' = [deferred EXCEPT ![p] = refused \cup (unspawned \ fresh)
                                                    \cup (begun + 1)..unborn]
        /\ base' = [base EXCEPT ![p] = IF planned # unspawned /\ @ # None THEN Respawned ELSE @]
        /\ sid' = [sid EXCEPT ![p] = IF adopt THEN f ELSE @]
        /\ clashed' = IF adopt /\ (file[f] # m \/ shared) THEN clashed \cup {f} ELSE clashed
        /\ excused' = excused \cup (live[p] \ stay)

RestoreSession(p) ==
    /\ Up(p) /\ picker[p] # None
    /\ LET m == picker[p].as
       IN  \E shut \in (SUBSET Contents(m)) \ {Contents(m)} :
           \E refused \in SUBSET (Contents(m) \ shut) :
           \E unspawned \in SUBSET (Contents(m) \ (shut \cup refused)) :
           \E stay \in SUBSET live[p] : Reopen(p, m, shut, refused, unspawned, stay)
    /\ picker' = [picker EXCEPT ![p] = None]
    /\ UNCHANGED <<phase, fileVars, failed>>

\* No project of it has a directory left, every tab of the one in view is
\* refused, or its column cannot land: the spyc goes on as it was.
RestoreRefused(p) ==
    /\ Up(p) /\ picker[p] # None
    /\ picker' = [picker EXCEPT ![p] = None]
    /\ UNCHANGED <<phase, sid, live, deferred, base, fileVars, begun, failed, clashed, excused>>

Next == \E p \in Procs : \/ Start(p) \/ OpenTab(p) \/ CloseTab(p) \/ Autosave(p)
                         \/ Quit(p) \/ Crash(p) \/ RestoreSession(p) \/ RestoreRefused(p)
Spec == Init /\ [][Next]_vars
-----------------------------------------------------------------------------
(* Properties.                                                             *)

\* A tab in some session file stays in some session file, through restores,
\* partial restores, copies, saves, failed saves and crashes, unless the user
\* closed or replaced it, the cap pruned its file, or two spycs came to write
\* one file (saved_project merges deferred_tabs; restore_session adopts a file
\* only when it opened everything in it).
SavedStay == [][Saved \ Saved' \subseteq excused']_vars

\* What a spyc with nothing to save runs, and the records it carries, are what
\* its file says, unless the save failed, two spycs write the file, or others
\* have filled the cap since (Fingerprint tracks what build_manifest persists).
SavedWhenClean ==
    \A p \in Procs :
        Up(p) /\ base[p] = Fingerprint(p) /\ p \notin failed /\ sid[p] \notin clashed
            => \/ file[sid[p]] = [by |-> p, open |-> live[p], kept |-> deferred[p]]
               \/ file[sid[p]] = None /\ Len(recent) = MaxFiles

\* No spyc comes into a conversation that another running one is in and has
\* saved: restore_plans starts such a tab fresh, whichever file it is restored
\* from and however old the picker is.
Settled(q) == /\ Up(q) /\ base[q] = Fingerprint(q)
              /\ q \notin failed /\ sid[q] \notin clashed /\ file[sid[q]] # None
NeverSplit ==
    [][\A p \in Procs : \A q \in Procs \ {p} :
           Settled(q) => (live'[p] \ live[p]) \cap live[q] = {}]_vars

=============================================================================

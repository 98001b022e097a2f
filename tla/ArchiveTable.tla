----------------------------- MODULE ArchiveTable -----------------------------
(***************************************************************************)
(* The table of mounted archives (archive/mount.rs, app/archive.rs,        *)
(* app/archive/reads.rs, app/archive/command.rs, app/archive/screen.rs):   *)
(* which archives are mounted, the reads that mount them, what a landing   *)
(* evicts, and what becomes of each one's staging tree.                    *)
(*                                                                         *)
(* The table is the process's; the columns standing in it are the          *)
(* projects'.  Reads, writes and clean-ups run on threads and land when    *)
(* the UI thread drains them.  ArchiveWriteback has what is inside one     *)
(* mount: here it is clean, edited, or dirty.                              *)
(*                                                                         *)
(* One nesting level; an inner archive's copy is extracted in one step.    *)
(* Left out: an effect held back for a mount (every request enters), and   *)
(* projects that close.                                                    *)
(***************************************************************************)
EXTENDS Naturals, FiniteSets

CONSTANTS TopLevel,     \* archives that are files on disk
          Nested,       \* archives that are members of another
          OuterOf,      \* [Nested -> TopLevel]
          Columns,      \* the columns of the open projects
          Edited,       \* bound: archives anyone changes
          MayStick,     \* archives whose tree may turn out not to move
          Outside,      \* where a column is when in no archive
          MaxMounts,    \* the table's cap
          MaxReads,     \* bound: reads in flight at once
          MaxWrites     \* bound: writes that start

Archives == TopLevel \cup Nested

ASSUME TableAssumption ==
    /\ IsFiniteSet(Archives) /\ IsFiniteSet(Columns)
    /\ TopLevel \cap Nested = {}
    /\ OuterOf \in [Nested -> TopLevel]
    /\ MayStick \subseteq TopLevel /\ Edited \subseteq Archives /\ Outside \notin Archives
    /\ MaxMounts \in Nat \ {0} /\ MaxReads \in Nat /\ MaxWrites \in Nat

VARIABLES live,         \* Mounts::live: the mounted archives
          older,        \* last_used: <<x, y>> if x was used before y
          dirty,        \* mounts whose journal has changes
          saved,        \* mounts with an edit the journal has yet to notice
          tree,         \* the copies at each archive's staging path
          copies,       \* inner archives whose copy is in the outer one's tree
          cleaning,     \* trees a clean-up is to delete where they are
          unmovable,    \* trees that can't be moved aside
          left,         \* history: trees left where they were by UnmountFirst
          reads,        \* archive_reads: the archives being read ...
          joined,       \* ... and the columns waiting for each
          worker,       \* the thread of each read, until its outcome is drained
          writing,      \* archive_writes
          col,          \* where each column is
          writes

readVars == <<reads, joined, worker>>
treeVars == <<tree, copies, cleaning, unmovable, left>>
tableVars == <<live, older>>
vars == <<tableVars, dirty, saved, treeVars, readVars, writing, col, writes>>

HasChanges(a) == a \in dirty \cup saved                   \* mount_is_dirty
InnerOf(a) == {n \in Nested : OuterOf[n] = a}

(* Mounts::resolve of a column's directory: the longest mount it is in. *)
Standing(c) ==
    CASE col[c] \in live -> {col[c]}
      [] col[c] \in Nested \ live -> {OuterOf[col[c]]} \cap live
      [] OTHER -> {}

(* The archives a column stands in. *)
Visited == UNION {Standing(c) : c \in Columns}

Init ==
    /\ live = {} /\ older = {} /\ dirty = {} /\ saved = {}
    /\ tree = [a \in Archives |-> "none"] /\ copies = {}
    /\ cleaning = {} /\ left = {}
    /\ unmovable \in {{}} \cup {{a} : a \in MayStick}
    /\ reads = {} /\ joined = [a \in Archives |-> {}]
    /\ worker = [a \in Archives |-> "idle"]
    /\ writing = {}
    /\ col = [c \in Columns |-> Outside]
    /\ writes = 0

-----------------------------------------------------------------------------
(* Staging trees. *)

(* A bug: every tree is cleaned where it is. *)
CleanInPlace(S) ==
    LET there == {a \in S : tree[a] # "none"}
    IN  /\ tree' = [a \in Archives |-> IF a \in there THEN "earlier" ELSE tree[a]]
        /\ copies' = copies
        /\ cleaning' = cleaning \cup there

(***************************************************************************)
(* set_aside: the trees S go from their paths, with the inner archives'    *)
(* copies in them, and a clean-up deletes what was moved.  One that can't  *)
(* be moved is left for the clean-up to delete where it is.                *)
(***************************************************************************)
SetAside(S) ==
    LET there == {a \in S : tree[a] # "none"}
        moved == there \ unmovable
    IN  /\ tree' = [a \in Archives |-> CASE a \in moved -> "none"
                                         [] a \in there \ moved -> "earlier"
                                         [] OTHER -> tree[a]]
        /\ copies' = {n \in copies : OuterOf[n] \notin moved}
        /\ cleaning' = cleaning \cup (there \ moved)

CleanEffects(S) == SetAside(S) /\ UNCHANGED <<unmovable, left>>

(* A clean-up deletes a tree it was handed at its path. *)
CleanRuns(a) ==
    /\ a \in cleaning
    /\ cleaning' = cleaning \ {a}
    /\ tree' = [tree EXCEPT ![a] = "none"]
    /\ copies' = copies \ InnerOf(a)
    /\ UNCHANGED <<tableVars, dirty, saved, unmovable, left, readVars, writing, col, writes>>

-----------------------------------------------------------------------------
(* The mount table. *)

Among(order, S) == order \cap (S \X S)

(* remove: the mounts S go. *)
Drop(S) == live' = live \ S /\ older' = Among(older, live')

(* touch: of the mounts S, a is the last used. *)
Touched(order, S, a) == Among(order, S \ {a}) \cup ((S \ {a}) \X {a})

(* A bug: only the columns of the first project are looked at. *)
ProtectedHere ==
    Standing(CHOOSE c \in Columns : TRUE) \cup (dirty \cap live) \cup (Nested \cap live)

(***************************************************************************)
(* protected_archives, as the table and columns are when a mount lands:    *)
(* those a column stands in, in any project, and those with changes in     *)
(* the journal.  Inner archives add themselves: `resolve` of an inner      *)
(* archive's own address finds the inner one, never the one above it.      *)
(***************************************************************************)
Protected ==
    Visited
    \cup (dirty \cap live)
    \cup (Nested \cap live)

(***************************************************************************)
(* insert: who of the mounts S may be evicted.  The mount that lands is    *)
(* among them, its journal being clean and the protected ones gathered     *)
(* before it lands.                                                        *)
(***************************************************************************)
Victims(S, protected) == S \ (protected \cup dirty)

(* insert: while S is past the cap, the least recently used that may go goes. *)
Evicted(S, order, protected) ==
    LET candidates == Victims(S, protected)
        Before(x) == {y \in candidates : <<y, x>> \in order}
    IN  {x \in candidates : Cardinality(Before(x)) + MaxMounts < Cardinality(S)}

(* enter_mount: the columns S go to a's root. *)
Entered(a, S) == [c \in Columns |-> IF c \in S THEN a ELSE col[c]]

-----------------------------------------------------------------------------
(* Requests to mount, by the user in the column c. *)

(* A read in flight takes a request of the same archive as one more to wait. *)
JoinRead(a, c) ==
    /\ joined' = [joined EXCEPT ![a] = @ \cup {c}]
    /\ UNCHANGED <<tableVars, col, reads, worker>>

StartWorker(a, c) ==
    /\ reads' = reads \cup {a}
    /\ joined' = [joined EXCEPT ![a] = {c}]
    /\ worker' = [worker EXCEPT ![a] = "running"]

StartRead(a, c) ==
    /\ Cardinality(reads) < MaxReads
    /\ StartWorker(a, c)
    /\ UNCHANGED <<tableVars, col>>

EnterMount(a, c) ==
    /\ older' = Touched(older, live, a)
    /\ col' = Entered(a, {c})
    /\ UNCHANGED <<live, readVars>>

Request(a, c) ==
    CASE a \in live -> EnterMount(a, c)
      [] a \notin live /\ a \in reads -> JoinRead(a, c)
      [] OTHER -> StartRead(a, c)

(* request_mount_then: the user opens an archive on disk. *)
RequestMount(a, c) ==
    /\ Request(a, c)
    /\ UNCHANGED <<dirty, saved, treeVars, writing, writes>>

(***************************************************************************)
(* open_member, then request_nested_mount: the user opens an archive that  *)
(* is a member of the one the column is in.  Its copy is extracted into    *)
(* that one's tree unless it is there, and mounted unless the outer one    *)
(* is being written.                                                       *)
(***************************************************************************)
RequestNested(n, c) ==
    LET outer == OuterOf[n]
    IN  /\ outer \in Standing(c)
        /\ copies' = copies \cup {n}
        /\ tree' = [tree EXCEPT ![outer] = IF @ = "none" THEN "current" ELSE @]
        /\ IF n \notin live /\ outer \in writing    \* refuse_inside_written
           THEN UNCHANGED <<tableVars, col, readVars>>
           ELSE Request(n, c)
        /\ UNCHANGED <<dirty, saved, cleaning, unmovable, left, writing, writes>>

(***************************************************************************)
(* The worker of a read.  A compressed tar is extracted as it is read,     *)
(* whether or not the read gets to its end; an inner archive can't be read *)
(* without its copy.                                                       *)
(***************************************************************************)
ReadEnds(a) ==
    /\ worker[a] = "running"
    /\ \E outcome \in {"mounted", "ended"}, fills \in BOOLEAN :
          /\ outcome = "mounted" => a \in TopLevel \cup copies
          /\ fills => a \in TopLevel
          /\ worker' = [worker EXCEPT ![a] = outcome]
          /\ tree' = [tree EXCEPT ![a] = IF fills THEN "current" ELSE @]
    /\ UNCHANGED <<tableVars, dirty, saved, copies, cleaning, unmovable, left, reads, joined,
                   writing, col, writes>>

-----------------------------------------------------------------------------
(* Outcomes landing: the UI thread drains them. *)

(* A bug: only a read that mounts its archive is over. *)
FinishMounted(a) ==
    LET over == IF worker[a] = "mounted" THEN {a} ELSE {}
    IN  /\ reads' = reads \ over
        /\ joined' = [b \in Archives |-> IF b \in over THEN {} ELSE joined[b]]
        /\ worker' = [worker EXCEPT ![a] = "idle"]

(* finish_read: the read is over, however it ended; its joiners are taken. *)
FinishRead(a) ==
    /\ reads' = reads \ {a}
    /\ joined' = [joined EXCEPT ![a] = {}]
    /\ worker' = [worker EXCEPT ![a] = "idle"]

(***************************************************************************)
(* A mount lands: record_mount puts it in the table in place of an earlier *)
(* one and cleans up what that evicts, and the column that asked and each  *)
(* that joined enters it.                                                  *)
(***************************************************************************)
LandMounted(a) ==
    /\ worker[a] = "mounted"
    /\ FinishRead(a)
    /\ LET table == live \cup {a}
           order == Touched(older, table, a)
           out == IF a \in live THEN {} ELSE Evicted(table, order, Protected)
       IN  /\ live' = table \ out /\ older' = Among(order, live')
           /\ dirty' = dirty \ (out \cup {a}) /\ saved' = saved \ (out \cup {a})
           /\ CleanEffects(out)
           /\ col' = IF a \in out THEN col ELSE Entered(a, joined[a])
    /\ UNCHANGED <<writing, writes>>

(* A failed read, a question, or a file that is no archive: nothing is mounted. *)
LandEnded(a) ==
    /\ worker[a] = "ended"
    /\ FinishRead(a)
    /\ UNCHANGED <<tableVars, dirty, saved, treeVars, writing, col, writes>>

(***************************************************************************)
(* A write lands, apply_written: the mount is dropped and read again from  *)
(* an empty staging tree (its worker empties it first), for the column the *)
(* write was asked from.  An inner archive's write is an edit to the outer *)
(* one.                                                                    *)
(***************************************************************************)
LandWritten(a) ==
    /\ a \in writing
    /\ a \in Nested => a \in copies
    /\ writing' = writing \ {a}
    /\ dirty' = dirty \ {a}
    /\ saved' = (saved \ {a}) \cup
                (IF a \in Nested THEN {OuterOf[a]} \cap live ELSE {})
    /\ Drop({a})
    /\ \E c \in Columns : StartWorker(a, c)
    /\ tree' = [tree EXCEPT ![a] = "none"] /\ copies' = copies \ InnerOf(a)
    /\ UNCHANGED <<cleaning, unmovable, left, col, writes>>

LandWriteFailed(a) ==
    /\ a \in writing
    /\ writing' = writing \ {a}
    /\ UNCHANGED <<tableVars, dirty, saved, treeVars, readVars, col, writes>>

-----------------------------------------------------------------------------
(* What the user does in a mounted archive. *)

(* A member is opened, its copy staged; or its staged copy is saved to. *)
OpenMember(a) ==
    /\ a \in TopLevel /\ a \in Visited /\ tree[a] = "none"
    /\ tree' = [tree EXCEPT ![a] = "current"]
    /\ UNCHANGED <<tableVars, dirty, saved, copies, cleaning, unmovable, left, readVars,
                   writing, col, writes>>

SaveCopy(a) ==
    /\ a \in live \cap Edited /\ tree[a] # "none"
    /\ saved' = saved \cup {a}
    /\ UNCHANGED <<tableVars, dirty, treeVars, readVars, writing, col, writes>>

(* settle_archive_edits, or a change made in spyc: the journal has it. *)
RecordChange(a) ==
    /\ a \in live
    /\ a \in saved \/ (a \in Visited \cap Edited /\ a \notin writing)
    /\ dirty' = dirty \cup {a} /\ saved' = saved \ {a}
    /\ UNCHANGED <<tableVars, treeVars, readVars, writing, col, writes>>

(* scan_archive_edits, as any `:archive` command begins. *)
Scanned == dirty \cup saved

Discard(a) ==
    /\ a \in live /\ a \notin writing
    /\ dirty' = Scanned \ {a} /\ saved' = {}
    /\ UNCHANGED <<tableVars, treeVars, readVars, writing, col, writes>>

MountedInside(a) == \E n \in InnerOf(a) : n \in live

(* A bug: the edits nobody has noticed yet are only in the write's plan. *)
StartWriteUnscanned(a) ==
    /\ a \in live /\ a \notin writing /\ HasChanges(a)
    /\ ~MountedInside(a)
    /\ writes < MaxWrites
    /\ writes' = writes + 1
    /\ writing' = writing \cup {a}
    /\ UNCHANGED <<tableVars, dirty, saved, treeVars, readVars, col>>

(* write_effect *)
StartWrite(a) ==
    /\ a \in live /\ a \notin writing /\ HasChanges(a)
    /\ ~MountedInside(a)                                \* refuse_mounted_inside
    /\ writes < MaxWrites
    /\ writes' = writes + 1
    /\ writing' = writing \cup {a}
    /\ dirty' = Scanned /\ saved' = {}
    /\ UNCHANGED <<tableVars, treeVars, readVars, col>>

(* A bug: the tree is left to be found by the next mount. *)
UnmountLeaving(a, c) ==
    /\ a \in Standing(c) /\ a \notin writing /\ a \in TopLevel
    /\ ~MountedInside(a) /\ \A d \in Columns \ {c} : a \notin Standing(d)
    /\ col' = [col EXCEPT ![c] = Outside]
    /\ Drop({a})
    /\ dirty' = Scanned \ {a} /\ saved' = {}
    /\ tree' = [tree EXCEPT ![a] = IF @ = "none" THEN @ ELSE "earlier"]
    /\ UNCHANGED <<copies, cleaning, unmovable, left, readVars, writing, writes>>

(***************************************************************************)
(* `:archive unmount`, the write-first question answered no: the column    *)
(* steps out, and the mount goes unless another column is in it or an      *)
(* archive is mounted inside it.                                           *)
(***************************************************************************)
Unmount(a, c) ==
    /\ a \in Standing(c) /\ a \notin writing
    /\ LET out == IF a \in Nested THEN OuterOf[a] ELSE Outside
           steps == out = Outside \/ out \in live
           others == {d \in Columns \ {c} : a \in Standing(d)}
           goes == steps /\ others = {} /\ ~MountedInside(a)
       IN  /\ col' = IF steps THEN [col EXCEPT ![c] = out] ELSE col
           /\ Drop(IF goes THEN {a} ELSE {})
           /\ dirty' = (IF goes THEN Scanned \ {a} ELSE Scanned) /\ saved' = {}
           /\ CleanEffects(IF goes THEN {a} ELSE {})
    /\ UNCHANGED <<readVars, writing, writes>>

(***************************************************************************)
(* UnmountFirst: the archive file is deleted or moved away, its mount with *)
(* it, and its tree is left where it is until spyc quits.  Another archive *)
(* may come to that path.                                                  *)
(***************************************************************************)
UnmountFirst(a) ==
    /\ a \in TopLevel \cap live /\ ~HasChanges(a)
    /\ \E c \in Columns : a \notin Standing(c)            \* the one it is seen from
    /\ Drop({a})
    /\ tree' = [tree EXCEPT ![a] = IF @ = "none" THEN @ ELSE "earlier"]
    /\ left' = IF tree[a] = "none" THEN left ELSE left \cup {a}
    /\ UNCHANGED <<dirty, saved, copies, cleaning, unmovable, readVars, writing, col, writes>>

(* The column c climbs out of the archive it is in. *)
ClimbOut(c) ==
    /\ col[c] # Outside
    /\ col' = [col EXCEPT ![c] =
                  IF @ \in Nested /\ OuterOf[@] \in live THEN OuterOf[@] ELSE Outside]
    /\ UNCHANGED <<tableVars, dirty, saved, treeVars, readVars, writing, writes>>

-----------------------------------------------------------------------------
Next ==
    \/ \E c \in Columns :
          \/ \E a \in TopLevel : RequestMount(a, c)
          \/ \E n \in Nested : RequestNested(n, c)
          \/ \E a \in Archives : Unmount(a, c)
          \/ ClimbOut(c)
    \/ \E a \in Archives :
          \/ ReadEnds(a) \/ LandMounted(a) \/ LandEnded(a)
          \/ CleanRuns(a) \/ LandWritten(a) \/ LandWriteFailed(a)
          \/ OpenMember(a) \/ SaveCopy(a) \/ RecordChange(a) \/ Discard(a)
          \/ StartWrite(a) \/ UnmountFirst(a)

Spec == Init /\ [][Next]_vars

-----------------------------------------------------------------------------
(***************************************************************************)
(* A landing takes no other mount a column of any project stands in, and   *)
(* none with changes in its journal: both are as the table is when the     *)
(* mount lands, reads and projects away from when it was asked for.        *)
(***************************************************************************)
EvictionSpares ==
    [][\A a \in Archives : LandMounted(a) =>
          \A x \in live \ live' :
              x \notin dirty /\ \A c \in Columns : x \notin Standing(c)]_vars

(***************************************************************************)
(* No clean-up deletes the staging tree of a mounted archive, however late *)
(* it runs and however soon the archive was mounted again, unless the      *)
(* earlier tree couldn't be moved aside.                                   *)
(***************************************************************************)
CleanSpares ==
    [][\A a \in live : CleanRuns(a) => a \in unmovable]_vars

(***************************************************************************)
(* An archive being written has its changes in the journal until the write *)
(* lands, so nothing that lands meanwhile evicts it: the write reads its   *)
(* staged copies.                                                          *)
(***************************************************************************)
WrittenStays == writing \subseteq dirty /\ dirty \subseteq live

(***************************************************************************)
(* A mounted archive's staging tree has no copy an earlier mount left      *)
(* there, unless its file went from under it or its tree couldn't be       *)
(* moved: copies found there are taken for this archive's members.         *)
(***************************************************************************)
FreshUnlessLeft ==
    \A a \in live : tree[a] = "earlier" => a \in left \cup unmovable

(***************************************************************************)
(* Every archive in archive_reads has a worker whose outcome is to land,   *)
(* however the read ends and whatever is asked of it meanwhile: no column  *)
(* is left waiting for a read that is over, and none finds the archive     *)
(* being read for ever.                                                    *)
(***************************************************************************)
JoinersServed ==
    \A a \in Archives : a \in reads \/ joined[a] # {} => worker[a] # "idle"
=============================================================================

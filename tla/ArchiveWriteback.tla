--------------------------- MODULE ArchiveWriteback ---------------------------
(***************************************************************************)
(* One mounted archive and its write-back (app/archive.rs, app/archive/,   *)
(* app/archive_ops.rs, archive/write.rs, archive/read/mod.rs).             *)
(*                                                                         *)
(* The UI thread owns the mount: the index (a name per position, which is  *)
(* a zip's locator), the journal of pending changes, and the stats of the  *)
(* staged copies it extracted.  Reads, extractions, copies and the write   *)
(* itself run each on a thread of its own and land their outcomes in a     *)
(* queue the UI thread drains.  Editors and agents save to the staged      *)
(* copies whenever they like.                                              *)
(*                                                                         *)
(* A (size, mtime) stat is kept as how the file compares with the one      *)
(* stat'ed: no two files written to one path are taken to share a stat.    *)
(* Renames, directories and name collisions are left out, as is a nested   *)
(* archive, whose source is a staged copy.                                 *)
(***************************************************************************)
EXTENDS Integers, Sequences, SequencesExt, FiniteSets

CONSTANTS Members,      \* the archive's members at first
          NewNames,     \* names a file may be brought in under
          Ops,          \* the extractions that may be in flight at once
          NoFile,
          MaxSaves,     \* bound: how often anyone saves or copies in
          MaxWrites,    \* bound: how many writes start
          MaxOpens      \* bound: how many extractions start

ASSUME WritebackAssumption ==
    /\ IsFiniteSet(Members) /\ IsFiniteSet(NewNames)
    /\ Members \cap NewNames = {}
    /\ NoFile \notin [data : [of : Members \cup NewNames, v : Nat], by : {"spyc", "user"}]
    /\ MaxSaves \in Nat /\ MaxWrites \in Nat /\ MaxOpens \in Nat

Names == Members \cup NewNames

(* A content: the member it was made for, and the save that made it. *)
Data == [of : Names, v : 0..MaxSaves]

(* A staged file, and (history) whose write it was. *)
File == [data : Data, by : {"spyc", "user"}]

Stat == {"none",        \* not stat'ed, or not there
         "same",        \* the file is still the one stat'ed
         "stale"}       \* it has been written, or removed, since

VARIABLES streamed,     \* a compressed tar: read and extracted in one pass
          disk,         \* the archive file: its members in order
          mounted, index, journal, recorded,    \* the ArchiveMount
          staging,      \* the staging tree, by journal path
          writing,      \* archive_writes holds the archive ...
          planned,      \* ... with these stats
          writer,       \* the write worker
          reader,       \* the read in archive_reads, and its worker
          mats,         \* the extraction workers
          copying,      \* the worker copying a file in
          landed,       \* archive_results
          held,         \* archive_held
          last,         \* history: each name's last save, and when it came
          saves, writes, opens

mountVars == <<mounted, index, journal, recorded>>
writeVars == <<writing, planned, writer>>
workVars == <<reader, mats, copying>>
boundVars == <<saves, writes, opens>>
vars == <<streamed, disk, mountVars, staging, writeVars, workVars, landed,
          held, last, boundVars>>

Idle == [at |-> "idle"]
NoChanges == [deleted |-> {}, replaced |-> {}, added |-> {}]
NoStats == [m \in Names |-> "none"]
NoFiles == [m \in Names |-> NoFile]
NoSave == [at |-> "none"]

Own(data) == [data |-> data, by |-> "spyc"]
Users(data) == [data |-> data, by |-> "user"]

NamesIn(entries) == [i \in DOMAIN entries |-> entries[i].name]
Stored(m) == \E i \in DOMAIN disk : disk[i].name = m
Bytes(m) == disk[CHOOSE i \in DOMAIN disk : disk[i].name = m].data
Indexed == ToSet(index)
Staged(m) == staging[m] # NoFile
Dirty(j) == j # NoChanges

(* The files S are written or removed: their stats no longer match. *)
Touch(stats, S) ==
    [m \in Names |-> IF m \in S /\ stats[m] = "same" THEN "stale" ELSE stats[m]]

Init ==
    /\ streamed \in BOOLEAN
    /\ disk = LET order == SetToSeq(Members)
              IN  [i \in DOMAIN order |-> [name |-> order[i],
                                           data |-> [of |-> order[i], v |-> 0]]]
    /\ mounted = FALSE /\ index = <<>> /\ journal = NoChanges /\ recorded = NoStats
    /\ staging = NoFiles
    /\ writing = FALSE /\ planned = NoStats /\ writer = Idle
    /\ reader = Idle /\ mats = [o \in Ops |-> Idle] /\ copying = Idle
    /\ landed = <<>>
    /\ held = NoFiles
    /\ last = [m \in Names |-> NoSave]
    /\ saves = 0 /\ writes = 0 /\ opens = 0

-----------------------------------------------------------------------------
(* Saves to the staged copies, by an editor, an agent or a copy in. *)

(* An extraction of m is still to land. *)
Extracting(m) ==
    \/ \E o \in Ops : mats[o] # Idle /\ mats[o].name = m
    \/ \E i \in DOMAIN landed : landed[i].kind = "materialized" /\ landed[i].name = m

(***************************************************************************)
(* When a save to m's copy comes: "recorded" once spyc knows the copy,     *)
(* whether or not a write is under way; of a file brought in before the    *)
(* write that runs, "late_addition": it is in no index entry, so nothing   *)
(* holds it aside, and the re-read drops it.                               *)
(***************************************************************************)
When(m) ==
    CASE ~mounted -> "reread"
      [] mounted /\ writing /\ m \in journal.added -> "late_addition"
      [] mounted /\ ~(writing /\ m \in journal.added)
            /\ m \notin journal.deleted /\ ~Extracting(m)
            /\ (recorded[m] # "none" \/ m \in journal.replaced \cup journal.added)
            -> "recorded"
      [] OTHER -> "unrecorded"

SavedAs(m, data) ==
    /\ staging' = [staging EXCEPT ![m] = Users(data)]
    /\ recorded' = Touch(recorded, {m})
    /\ planned' = Touch(planned, {m})
    /\ last' = [last EXCEPT ![m] = [at |-> When(m), data |-> data]]

Save(m) ==
    /\ saves < MaxSaves
    /\ Staged(m)
    /\ saves' = saves + 1
    /\ SavedAs(m, [of |-> m, v |-> saves + 1])
    /\ UNCHANGED <<streamed, disk, mounted, index, journal, writing, writer,
                   workVars, landed, held, writes, opens>>

-----------------------------------------------------------------------------
(* The workers. *)

Land(outcome) == landed' = Append(landed, outcome)

(***************************************************************************)
(* run_archive_op Mount with reset_staging: the tree goes first, on the    *)
(* same worker.                                                            *)
(***************************************************************************)
ResetStaging ==
    /\ reader.at = "reset"
    /\ staging' = NoFiles
    /\ reader' = [at |-> "read"]
    /\ UNCHANGED <<streamed, disk, mountVars, writeVars, mats, copying, landed,
                   held, last, boundVars>>

(***************************************************************************)
(* The read: an index of what is on disk; a compressed tar is extracted as *)
(* it goes.                                                                *)
(***************************************************************************)
ReadArchive ==
    /\ reader.at = "read"
    /\ reader' = [at |-> "landed"]
    /\ Land([kind |-> "mounted", index |-> NamesIn(disk)])
    /\ staging' = [m \in Names |-> IF streamed /\ Stored(m) THEN Own(Bytes(m)) ELSE staging[m]]
    /\ UNCHANGED <<streamed, disk, mountVars, writeVars, mats, copying, held,
                   last, boundVars>>

(* It fails, or :archive cancel stops it, some members being extracted. *)
ReadFails ==
    /\ reader.at = "read"
    /\ reader' = [at |-> "landed"]
    /\ Land([kind |-> "read_failed"])
    /\ \E done \in SUBSET {m \in Names : streamed /\ Stored(m)} :
          staging' = [m \in Names |-> IF m \in done THEN Own(Bytes(m)) ELSE staging[m]]
    /\ UNCHANGED <<streamed, disk, mountVars, writeVars, mats, copying, held,
                   last, boundVars>>

(***************************************************************************)
(* read::materialize finds the copy there, or reads the member from where  *)
(* its locator points; a streamed member's bytes are nowhere else.         *)
(***************************************************************************)
ExtractRead(o) ==
    /\ mats[o].at = "asked"
    /\ LET op == mats[o]
       IN  IF Staged(op.name)
           THEN /\ mats' = [mats EXCEPT ![o] = Idle]
                /\ Land([kind |-> "materialized", name |-> op.name])
           ELSE /\ ~streamed /\ op.pos \in DOMAIN disk
                /\ mats' = [mats EXCEPT ![o] = [at |-> "read", name |-> op.name,
                                                data |-> disk[op.pos].data]]
                /\ UNCHANGED landed
    /\ UNCHANGED <<streamed, disk, mountVars, staging, writeVars, reader, copying,
                   held, last, boundVars>>

(* The temporary file is renamed to the staging path. *)
ExtractPersist(o) ==
    /\ mats[o].at = "read"
    /\ LET op == mats[o]
       IN  /\ staging' = [staging EXCEPT ![op.name] = Own(op.data)]
           /\ recorded' = Touch(recorded, {op.name})
           /\ planned' = Touch(planned, {op.name})
           /\ Land([kind |-> "materialized", name |-> op.name])
    /\ mats' = [mats EXCEPT ![o] = Idle]
    /\ UNCHANGED <<streamed, disk, mounted, index, journal, writing, writer,
                   reader, copying, held, last, boundVars>>

(* MaterializeFailed, whose landing changes nothing. *)
ExtractFails(o) ==
    /\ mats[o] # Idle
    /\ mats' = [mats EXCEPT ![o] = Idle]
    /\ UNCHANGED <<streamed, disk, mountVars, staging, writeVars, reader, copying,
                   landed, held, last, boundVars>>

CopyLands ==
    /\ copying # Idle
    /\ copying' = Idle
    /\ SavedAs(copying.name, copying.data)
    /\ UNCHANGED <<streamed, disk, mounted, index, journal, writing, writer,
                   reader, mats, landed, held, boundVars>>

CopyFails ==
    /\ copying # Idle
    /\ copying' = Idle
    /\ UNCHANGED <<streamed, disk, mountVars, staging, writeVars, reader, mats,
                   landed, held, last, boundVars>>

(***************************************************************************)
(* repack up to the verified temporary file.  A streamed archive's         *)
(* untouched members come from staging, refilled from the archive if one   *)
(* is missing; a zip's from the archive itself.                            *)
(***************************************************************************)
Refilled(steps) ==
    IF streamed /\ \E i \in DOMAIN steps : steps[i].from = "archive" /\ ~Staged(steps[i].name)
    THEN {m \in Indexed : ~Staged(m) /\ Stored(m)}
    ELSE {}

Repacked(steps, tree) ==
    [i \in DOMAIN steps |->
        [name |-> steps[i].name,
         data |-> IF steps[i].from = "archive" /\ ~streamed
                  THEN Bytes(steps[i].name)
                  ELSE tree[steps[i].name].data]]

Pack ==
    /\ writer.at = "planned"
    /\ LET steps == writer.steps
           tree == [m \in Names |-> IF m \in Refilled(steps) THEN Own(Bytes(m)) ELSE staging[m]]
       IN  /\ staging' = tree
           /\ \A i \in DOMAIN steps :
                 (steps[i].from = "archive" /\ ~streamed) \/ tree[steps[i].name] # NoFile
           /\ writer' = [at |-> "packed", entries |-> Repacked(steps, tree)]
    /\ UNCHANGED <<streamed, disk, mountVars, writing, planned, workVars, landed,
                   held, last, boundVars>>

(* tmp.persist: the new archive is renamed over the old one. *)
Persist ==
    /\ writer.at = "packed"
    /\ disk' = writer.entries
    /\ writer' = Idle
    /\ Land([kind |-> "written"])
    /\ UNCHANGED <<streamed, mountVars, staging, writing, planned, workVars, held,
                   last, boundVars>>

WriteFails ==
    /\ writer # Idle
    /\ writer' = Idle
    /\ Land([kind |-> "write_failed"])
    /\ UNCHANGED <<streamed, disk, mountVars, staging, writing, planned, workVars,
                   held, last, boundVars>>

-----------------------------------------------------------------------------
(* apply_archive_outcomes: one landed outcome. *)

Landing(kind) == landed # <<>> /\ Head(landed).kind = kind /\ landed' = Tail(landed)

(* A bug: an edit to a member already pending is taken to be in the write. *)
LateUnnoticed == {m \in Indexed : /\ Staged(m)
                                 /\ planned[m] # "same" /\ recorded[m] # "same"
                                 /\ m \notin journal.replaced}

(***************************************************************************)
(* finish_write and hold_late_edits: of the members in the index, those    *)
(* staged otherwise than as planned and otherwise than as recorded.        *)
(***************************************************************************)
Late == {m \in Indexed : Staged(m) /\ planned[m] # "same" /\ recorded[m] # "same"}

(* A bug: the mount stays, and is re-entered rather than read again. *)
KeepMounted == journal' = NoChanges /\ recorded' = NoStats /\ UNCHANGED <<mounted, index>>

(* Mounts::remove. *)
Dismount == mounted' = FALSE /\ index' = <<>> /\ journal' = NoChanges /\ recorded' = NoStats

(* A save the archive now holds is no longer pending. *)
Settled(m) == last[m] # NoSave /\ \E i \in DOMAIN disk :
                disk[i].name = m /\ disk[i].data = last[m].data

(* A bug: a failed write is not over. *)
ApplyWriteFailedKeeps ==
    /\ Landing("write_failed")
    /\ UNCHANGED <<streamed, disk, mountVars, staging, writeVars, workVars, held,
                   last, boundVars>>

(* History: move_file failed on these copies, and nothing tracks them now. *)
Unmoved(S) ==
    [m \in Names |-> IF m \in S /\ last[m].at = "recorded"
                     THEN [last[m] EXCEPT !.at = "unmoved"] ELSE last[m]]

(***************************************************************************)
(* What could be moved of the late edits is held; the rest stays in the    *)
(* tree that the re-read empties, and nobody is told.                      *)
(***************************************************************************)
ApplyWritten ==
    /\ Landing("written")
    /\ \E failed \in SUBSET Late :
          LET moved == Late \ failed
          IN  /\ held' = [m \in Names |-> IF m \in moved THEN staging[m] ELSE held[m]]
              /\ staging' = [m \in Names |-> IF m \in moved THEN NoFile ELSE staging[m]]
              /\ last' = [m \in Names |-> IF Settled(m) THEN NoSave ELSE Unmoved(failed)[m]]
    /\ writing' = FALSE /\ planned' = NoStats
    /\ Dismount
    /\ reader' = [at |-> "reset"]
    /\ UNCHANGED <<streamed, disk, writer, mats, copying, boundVars>>

ApplyWriteFailed ==
    /\ Landing("write_failed")
    /\ writing' = FALSE /\ planned' = NoStats
    /\ UNCHANGED <<streamed, disk, mountVars, staging, writer, workVars, held, last, boundVars>>

(***************************************************************************)
(* record_mount takes what is on disk as spyc's own; restore_late_edits    *)
(* then puts back what was held, unless the read extracted the same bytes. *)
(* A copy that can't be moved back stays where it was held, the user is    *)
(* told where, and spyc tracks it no more.                                 *)
(***************************************************************************)
ApplyMounted ==
    /\ Landing("mounted")
    /\ LET read == Head(landed).index
           due == {m \in Names : held[m] # NoFile
                        /\ (staging[m] = NoFile \/ staging[m].data # held[m].data)}
           own == [m \in Names |-> IF m \in ToSet(read) /\ Staged(m) THEN "same" ELSE "none"]
       IN  /\ index' = read
           /\ \E back \in SUBSET due :
                 /\ journal' = [deleted |-> {}, replaced |-> back \cap ToSet(read),
                                added |-> back \ ToSet(read)]
                 /\ recorded' = Touch(own, back)
                 /\ staging' = [m \in Names |-> IF m \in back THEN held[m] ELSE staging[m]]
                 /\ last' = Unmoved(due \ back)
    /\ mounted' = TRUE
    /\ held' = NoFiles
    /\ reader' = Idle
    /\ UNCHANGED <<streamed, disk, writeVars, mats, copying, boundVars>>

ApplyReadFailed ==
    /\ Landing("read_failed")
    /\ reader' = Idle
    /\ UNCHANGED <<streamed, disk, mountVars, staging, writeVars, mats, copying,
                   held, last, boundVars>>

(* record_staged stats whatever is there now. *)
ApplyMaterialized ==
    /\ Landing("materialized")
    /\ LET m == Head(landed).name
       IN  recorded' = IF mounted /\ m \in Indexed /\ Staged(m)
                       THEN [recorded EXCEPT ![m] = "same"]
                       ELSE recorded
    /\ UNCHANGED <<streamed, disk, mounted, index, journal, staging, writeVars,
                   workVars, held, last, boundVars>>

-----------------------------------------------------------------------------
(* The user. *)

(* A bug: a change is made whether or not the archive is being written. *)
ChangeableAlways == mounted

(* refuse_while_written. *)
Changeable == mounted /\ ~writing

(* changed_among: the recorded copies that were written since. *)
Noticed == [journal EXCEPT !.replaced =
                @ \cup {m \in Indexed : recorded[m] = "stale" /\ Staged(m)}]

(***************************************************************************)
(* settle_archive_edits.  An archive with more than AUTO_SCAN_MAX staged   *)
(* members is not scanned on a wake, so a wake may notice nothing.         *)
(***************************************************************************)
Settle ==
    /\ mounted
    /\ journal' = Noticed
    /\ journal' # journal
    /\ UNCHANGED <<streamed, disk, mounted, index, recorded, staging, writeVars,
                   workVars, landed, held, last, boundVars>>

(* request_mount_then: one read at a time, joined by whoever asks meanwhile. *)
Mount ==
    /\ ~mounted
    /\ reader = Idle
    /\ reader' = [at |-> "read"]
    /\ UNCHANGED <<streamed, disk, mountVars, staging, writeVars, mats, copying,
                   landed, held, last, boundVars>>

(***************************************************************************)
(* open_member and extraction_effect: a copy that is there is used, else   *)
(* the member is extracted.  A write under way does not refuse it.         *)
(***************************************************************************)
Open(m, o) ==
    /\ opens < MaxOpens
    /\ mounted
    /\ m \in Indexed \ journal.deleted
    /\ ~Staged(m)
    /\ mats[o] = Idle
    /\ opens' = opens + 1
    /\ mats' = [mats EXCEPT ![o] = [at |-> "asked", name |-> m,
                                    pos |-> CHOOSE i \in DOMAIN index : index[i] = m]]
    /\ UNCHANGED <<streamed, disk, mountVars, staging, writeVars, reader, copying,
                   landed, held, last, saves, writes>>

(* What a file copied in under the name m changes. *)
BroughtIn(m) == IF m \in Indexed THEN [journal EXCEPT !.replaced = @ \cup {m}]
                                  ELSE [journal EXCEPT !.added = @ \cup {m}]

(***************************************************************************)
(* A copy or a put into the archive (RewriteAndRecord): the change is      *)
(* recorded at once and the bytes follow from a worker.  refuse_changes_   *)
(* while_written comes first; a name a delete holds is refused.            *)
(***************************************************************************)
CopyIn(m) ==
    /\ saves < MaxSaves
    /\ Changeable
    /\ m \notin journal.deleted
    /\ copying = Idle
    /\ saves' = saves + 1
    /\ copying' = [at |-> "copying", name |-> m, data |-> [of |-> m, v |-> saves + 1]]
    /\ journal' = BroughtIn(m)
    /\ UNCHANGED <<streamed, disk, mounted, index, recorded, staging, writeVars,
                   reader, mats, landed, held, last, writes, opens>>

(* Deleting a file brought in takes it back out; a member's is recorded. *)
Delete(m) ==
    /\ Changeable
    /\ m \in (Indexed \ journal.deleted) \cup journal.added
    /\ IF m \in journal.added
       THEN /\ journal' = [journal EXCEPT !.added = @ \ {m}]
            /\ staging' = [staging EXCEPT ![m] = NoFile]
            /\ recorded' = Touch(recorded, {m})
       ELSE /\ journal' = [journal EXCEPT !.deleted = @ \cup {m}]
            /\ UNCHANGED <<staging, recorded>>
    /\ last' = [last EXCEPT ![m] = NoSave]
    /\ UNCHANGED <<streamed, disk, mounted, index, writeVars, workVars, landed,
                   held, boundVars>>

(* discard_pending: what the journal says is superseded or added is removed. *)
Discard ==
    /\ Changeable
    /\ LET drop == Noticed.added \cup (Noticed.replaced \cap Indexed)
       IN  /\ staging' = [m \in Names |-> IF m \in drop THEN NoFile ELSE staging[m]]
           /\ recorded' = [m \in Names |-> IF m \in drop THEN "none" ELSE recorded[m]]
    /\ journal' = NoChanges
    /\ last' = [m \in Names |-> NoSave]
    /\ UNCHANGED <<streamed, disk, mounted, index, writeVars, workVars, landed,
                   held, boundVars>>

(***************************************************************************)
(* :archive unmount, after a scan.  Only a mount with pending changes asks *)
(* and may drop them; the tree is moved aside before it is cleaned.        *)
(***************************************************************************)
Unmount ==
    /\ Changeable
    /\ Dismount
    /\ staging' = NoFiles
    /\ last' = [m \in Names |-> IF Dirty(Noticed) THEN NoSave ELSE last[m]]
    /\ UNCHANGED <<streamed, disk, writeVars, workVars, landed, held, boundVars>>

(* takes_from_staging. *)
FromStaging(j, m) == m \in j.replaced \/ (Staged(m) /\ recorded[m] = "stale")

(* The sequences that list S, each element once. *)
Listings(S) == {s \in SeqOf(S, Cardinality(Names)) : ToSet(s) = S /\ IsInjective(s)}

(* The members in the positions `keep`, each from where its bytes are, and
   then the additions. *)
Steps(j, keep, additions) ==
    [i \in DOMAIN keep |->
        [name |-> index[keep[i]],
         from |-> IF FromStaging(j, index[keep[i]]) THEN "staging" ELSE "archive"]]
    \o [i \in DOMAIN additions |-> [name |-> additions[i], from |-> "staging"]]

(* A bug: deleted members are carried across too. *)
PlansAll(j) ==
    {Steps(j, [i \in DOMAIN index |-> i], additions) : additions \in Listings(j.added)}

(***************************************************************************)
(* plan_repack: every member not deleted, in the index's order, from where *)
(* takes_from_staging says its bytes are, then the additions.              *)
(***************************************************************************)
Plans(j) ==
    LET stay == {i \in DOMAIN index : index[i] \notin j.deleted}
        InOrder(keep) == \A i, k \in DOMAIN keep : i < k => keep[i] < keep[k]
    IN  {Steps(j, keep, additions) : keep \in {l \in Listings(stay) : InOrder(l)},
                                     additions \in Listings(j.added)}

Write ==
    /\ writes < MaxWrites
    /\ Changeable
    /\ Dirty(Noticed)
    /\ writes' = writes + 1
    /\ journal' = Noticed
    /\ writing' = TRUE
    /\ planned' = [m \in Names |-> IF m \in Indexed /\ recorded[m] # "none" /\ Staged(m)
                                   THEN "same" ELSE "none"]
    /\ \E steps \in Plans(Noticed) : writer' = [at |-> "planned", steps |-> steps]
    /\ UNCHANGED <<streamed, disk, mounted, index, recorded, staging, workVars,
                   landed, held, last, saves, opens>>

-----------------------------------------------------------------------------
Extract(o) == ExtractRead(o) \/ ExtractPersist(o) \/ ExtractFails(o)
Read == ResetStaging \/ ReadArchive \/ ReadFails
Repack == Pack \/ Persist \/ WriteFails
Copy == CopyLands \/ CopyFails
Drain == ApplyWritten \/ ApplyWriteFailed \/ ApplyMounted \/ ApplyReadFailed \/ ApplyMaterialized

User ==
    \/ Mount \/ Discard \/ Unmount \/ Write
    \/ \E m \in Names : CopyIn(m) \/ Delete(m) \/ \E o \in Ops : Open(m, o)

Next ==
    \/ \E m \in Names : Save(m)
    \/ \E o \in Ops : Extract(o)
    \/ Read \/ Repack \/ Copy \/ Drain \/ Settle
    \/ User

Spec == Init /\ [][Next]_vars

(* Every worker runs to its end and the loop is woken by what it lands. *)
FairSpec == Spec /\ WF_vars(Read) /\ WF_vars(Repack) /\ WF_vars(Drain)

-----------------------------------------------------------------------------
(* What must hold. *)

(***************************************************************************)
(* An edit saved to a copy spyc knows is not lost: until the archive holds *)
(* it, or the user deletes, discards or saves over it, it is pending in    *)
(* the mount (or a scan would still notice it), or held aside for the next *)
(* one.  A write lands without what was saved since it was planned, clears *)
(* the journal and empties the tree, so this is hold_late_edits and        *)
(* restore_late_edits against every order of saves, write and re-read.  An *)
(* edit whose copy could not be moved is no longer recorded (Unmoved).     *)
(***************************************************************************)
Pending(m, data) ==
    /\ mounted
    /\ Staged(m)
    /\ staging[m].data = data
    /\ recorded[m] = "stale" \/ m \in journal.replaced \cup journal.added

Kept(m) ==
    \/ Pending(m, last[m].data)
    \/ (held[m] # NoFile /\ held[m].data = last[m].data)
    \/ Settled(m)

EditsSurvive == \A m \in Names : last[m].at = "recorded" => Kept(m)

(***************************************************************************)
(* "The journal is only cleared once the archive on disk actually holds    *)
(* the changes" (apply_written): what it said when the write lands is      *)
(* true of the new archive, or was held aside for it if it could be moved. *)
(***************************************************************************)
JournalLands ==
    [][writing /\ ~mounted' =>
         /\ \A m \in journal.deleted : ~Stored(m)
         /\ \A m \in journal.added : Stored(m)
         /\ \A m \in journal.replaced \ journal.deleted :
               /\ Stored(m)
               /\ last'[m].at = "recorded" =>
                     held'[m] # NoFile /\ held'[m].data = last[m].data]_vars

(***************************************************************************)
(* Outside a write every locator points at its own member: the index is    *)
(* the archive on disk, so reading by position is right (request_remount). *)
(***************************************************************************)
LocatorsValid == mounted /\ ~writing => index = NamesIn(disk)

(***************************************************************************)
(* A write ends, and its re-read too, so what they own is let go: the      *)
(* refusals end, and the archive can be entered again.                     *)
(***************************************************************************)
WriteReturns == writing ~> (~writing /\ reader = Idle)

-----------------------------------------------------------------------------
(* What the comments and docs say of the hard cases. *)

(***************************************************************************)
(* materialize: "Extract one member's bytes into the staging tree".        *)
(***************************************************************************)
ExtractedIsTheMember ==
    \A m \in Names : Staged(m) /\ staging[m].by = "spyc" => staging[m].data.of = m

=============================================================================

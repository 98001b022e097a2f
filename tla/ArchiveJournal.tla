----------------------------- MODULE ArchiveJournal -----------------------------
(***************************************************************************)
(* The pending changes of one mounted archive and the paths they give its  *)
(* members (archive/journal.rs, archive/listing.rs, archive/mount.rs,      *)
(* app/archive_route.rs, app/archive/screen.rs).                           *)
(*                                                                         *)
(* A member has a key, the path the archive stores it at or a copy was     *)
(* brought in at, and a shown path, its key after the pending renames.     *)
(* The user acts on shown paths; the journal records deletes, additions    *)
(* and replacements by key and renames by shown path.                      *)
(*                                                                         *)
(* made (history) is what the same operations make of a real directory     *)
(* tree: the reference for what is shown and for what a write plans.       *)
(*                                                                         *)
(* A path is a sequence of names, <<>> the archive itself.  Files alone    *)
(* are brought in, as in the code.  The write, edits and the bytes of      *)
(* untouched members are ArchiveWriteback's; links, names that differ in   *)
(* case and an index cut off at its cap are left out.                      *)
(***************************************************************************)
EXTENDS Naturals, Sequences, SequencesExt, FiniteSets

CONSTANTS Names,        \* the names of files
          Indexes,      \* the indexes: sets of [key, kind, implied]
          Paths,        \* the paths a user names
          MaxDepth,     \* bound: how deep a path goes
          MaxChanges,   \* bound: how many changes are pending
          MaxCopies     \* bound: how many files are brought in

(* finish: what an entry is in is one too, stored or implied, if as a file. *)
ASSUME JournalAssumption ==
    /\ \A contents \in Indexes : \A e \in contents :
          /\ e.key \in Seq(Names) \ {<<>>} /\ Len(e.key) <= MaxDepth
          /\ e.kind \in {"dir", "file"} /\ e.implied \in BOOLEAN
          /\ e.implied => e.kind = "dir"
          /\ Len(e.key) > 1 => \E d \in contents : d.key = Front(e.key)
    /\ \A p \in Paths : p \in Seq(Names) /\ Len(p) <= MaxDepth
    /\ MaxDepth \in Nat /\ MaxChanges \in Nat /\ MaxCopies \in Nat

VARIABLES index,        \* ArchiveIndex::entries
          journal,      \* Journal::changes
          staging,      \* the copies in the staging tree, by key: which copy
          broughtIn,    \* how many files were brought in
          made,         \* history: what the user made of the archive
          odd           \* history: what happened that the code gets wrong

journalVars == <<index, journal, staging, broughtIn, made, odd>>

Added(p) == [kind |-> "added", key |-> p]
Deleted(p) == [kind |-> "deleted", key |-> p]
Replaced(p) == [kind |-> "replaced", key |-> p]
Renamed(p, q) == [kind |-> "renamed", from |-> p, to |-> q]

Has(change) == change \in ToSet(journal)
HasRenames == \E c \in ToSet(journal) : c.kind = "renamed"

-----------------------------------------------------------------------------
(* Paths. *)

Parent(p) == Front(p)
Base(p) == Last(p)
Child(dir, p) == Append(dir, Base(p))

(* Where p is once from is to: strip_path_prefix and join_rest. *)
Moved(p, from, to) ==
    IF IsPrefix(from, p) THEN to \o SubSeq(p, Len(from) + 1, Len(p)) ELSE p

Forth(c, p) == IF c.kind = "renamed" THEN Moved(p, c.from, c.to) ELSE p
Back(c, p) == IF c.kind = "renamed" THEN Moved(p, c.to, c.from) ELSE p

(* Where each of the changes leaves what is at a path before them. *)
Trail(changes, key) ==
    LET at[i \in 0..Len(changes)] == IF i = 0 THEN key ELSE Forth(changes[i], at[i - 1])
    IN  at

Effective(key) == Trail(journal, key)[Len(journal)]

(* A bug: the renames are undone first to last. *)
OriginalForwards(shown) ==
    LET at[i \in 0..Len(journal)] == IF i = 0 THEN shown ELSE Back(journal[i], at[i - 1])
    IN  at[Len(journal)]

(* The renames undone, last to first. *)
BackTrail(changes, shown) ==
    LET at[i \in 0..Len(changes)] ==
            IF i = 0 THEN shown ELSE Back(changes[Len(changes) + 1 - i], at[i - 1])
    IN  at

OriginalOf(shown) == BackTrail(journal, shown)[Len(journal)]

IsDeleted(key) == \E c \in ToSet(journal) : c.kind = "deleted" /\ IsPrefix(c.key, key)

Additions == {p \in {c.key : c \in {d \in ToSet(journal) : d.kind = "added"}} : ~IsDeleted(p)}

(* The keys of the members there are. *)
Live == {e.key : e \in {f \in index : ~IsDeleted(f.key)}} \cup Additions

-----------------------------------------------------------------------------
(* What the mount shows, and what is behind it. *)

Row(key, shown, kind) == [at |-> shown, key |-> key, kind |-> kind]

(* children_of: the entries one level below dir, by stored path. *)
ChildrenOf(dir) == {e \in index : Len(e.key) = Len(dir) + 1 /\ IsPrefix(dir, e.key)}

(* A bug: the stored paths are the shown ones whatever was renamed. *)
ListingByStored(dir) ==
    {Row(e.key, e.key, e.kind) : e \in {f \in ChildrenOf(OriginalOf(dir)) : ~IsDeleted(f.key)}}
    \cup {Row(p, Effective(p), "file") : p \in {q \in Additions : Parent(Effective(q)) = dir}}

(***************************************************************************)
(* listing_for: without renames the stored paths are the shown ones; with  *)
(* any, every entry is looked at.                                          *)
(***************************************************************************)
ListingFor(dir) ==
    LET stored == IF HasRenames
                  THEN {Row(e.key, Effective(e.key), e.kind) : e \in {f \in index : ~IsDeleted(f.key)}}
                  ELSE {Row(e.key, e.key, e.kind) :
                           e \in {f \in ChildrenOf(OriginalOf(dir)) : ~IsDeleted(f.key)}}
        added == {Row(p, Effective(p), "file") : p \in Additions}
    IN  {r \in stored \cup added : Parent(r.at) = dir}

(* The rows a user can walk to from the archive's root. *)
Walk(rows) == rows \cup UNION {ListingFor(r.at) : r \in {s \in rows : s.kind = "dir"}}

Rows ==
    LET walked[i \in 0..MaxDepth] == IF i = 0 THEN ListingFor(<<>>) ELSE Walk(walked[i - 1])
    IN  walked[MaxDepth]

ShownAt(p) == {r \in ListingFor(Parent(p)) : r.at = p}

ShowsDir(p) == p = <<>> \/ \E r \in ShownAt(p) : r.kind = "dir"

Keys == {e.key : e \in index}

(* member_at: the key of the member behind a shown path, <<>> for none. *)
MemberAt(p) ==
    LET key == OriginalOf(p)
    IN  IF key \in Keys \cup Additions THEN key ELSE <<>>

-----------------------------------------------------------------------------
(* What the user makes of it: files and directories at their places. *)

File(p, copy) == [at |-> p, key |-> <<>>, copy |-> copy, implied |-> FALSE]

AsStored(contents) ==
    {[at |-> e.key, key |-> e.key, copy |-> 0, implied |-> e.implied] : e \in contents}

Under(p) == {t \in made : IsPrefix(p, t.at)}

TreeMove(from, to) == made' = {[t EXCEPT !.at = Moved(@, from, to)] : t \in made}

TreeRemove(p) == made' = made \ Under(p)

TreeCopy(p, copy) ==
    made' = IF \E t \in made : t.at = p
            THEN {IF t.at = p THEN [t EXCEPT !.copy = copy] ELSE t : t \in made}
            ELSE made \cup {File(p, copy)}

JournalInit ==
    /\ index \in Indexes
    /\ journal = <<>>
    /\ staging = [p \in {} |-> 0]
    /\ broughtIn = 0
    /\ made = AsStored(index)
    /\ odd = {}

-----------------------------------------------------------------------------
(***************************************************************************)
(* plan_repack: every stored member not deleted and every addition, under  *)
(* its shown path, from staging if it was brought in or replaced.          *)
(***************************************************************************)
Plan ==
    {[at |-> Effective(e.key), key |-> e.key, implied |-> FALSE,
      copy |-> IF Has(Replaced(e.key)) THEN staging[e.key] ELSE 0] :
        e \in {f \in index : ~f.implied /\ ~IsDeleted(f.key)}}
    \cup {File(Effective(p), staging[p]) : p \in Additions}

-----------------------------------------------------------------------------
(* The operations, each on one row or one file. *)

(* The bounds on the pending changes; what is odd already is not built on. *)
Sound == odd = {}
Record(change) == Len(journal) < MaxChanges /\ journal' = Append(journal, change)

Note(reason, happened) == odd' = IF happened THEN {reason} ELSE {}

(***************************************************************************)
(* Deleting something else than is shown under the row: what is covered is *)
(* what is stored under the key, wherever it is shown.                     *)
(***************************************************************************)
Straddles(r, key) ==
    \E k \in Live : IsPrefix(key, k) # IsPrefix(r.at, Effective(k))

(* forget_addition: its renames go by where they start. *)
Forgotten(c, key) == c = Added(key) \/ (c.kind = "renamed" /\ c.from = key)

KeptWithout(changes, key) ==
    LET kept[i \in 0..Len(changes)] ==
            IF i = 0 THEN <<>>
            ELSE IF Forgotten(changes[i], key) THEN kept[i - 1]
                                               ELSE Append(kept[i - 1], changes[i])
    IN  kept[Len(changes)]

(* A rename that moved something else starts there too. *)
OthersRename(key) ==
    \E i \in DOMAIN journal :
        /\ journal[i].kind = "renamed" /\ journal[i].from = key
        /\ \E k \in (Keys \cup Additions) \ {key} : IsPrefix(key, Trail(journal, k)[i - 1])

(***************************************************************************)
(* R on a row: an addition is taken back out and its copy removed, any     *)
(* other member recorded as deleted; a row with no member is refused.      *)
(***************************************************************************)
Delete(r) ==
    /\ LET key == MemberAt(r.at)
       IN  /\ key # <<>>
           /\ IF key \in Additions
              THEN /\ journal' = KeptWithout(journal, key)
                   /\ staging' = [p \in DOMAIN staging \ {key} |-> staging[p]]
                   /\ Note("unadded", OthersRename(key))
              ELSE /\ Record(Deleted(key))
                   /\ UNCHANGED staging
                   /\ Note("straddled", Straddles(r, key))
    /\ TreeRemove(r.at)
    /\ UNCHANGED <<index, broughtIn>>

(* index.is_dir: stored as a directory, whatever is shown. *)
IsDir(p) == p = <<>> \/ \E e \in index : e.key = p /\ e.kind = "dir"

(***************************************************************************)
(* M on a row: into what the archive stores as a directory under its own   *)
(* name, else to the path as given.  Neither a name that is taken nor a    *)
(* directory that is not there is refused.                                 *)
(***************************************************************************)
Rename(r, dest) ==
    LET to == IF IsDir(dest) THEN Child(dest, r.at) ELSE dest
    IN  /\ Record(Renamed(r.at, to))
        /\ \A t \in Under(r.at) : Len(Moved(t.at, r.at, to)) <= MaxDepth
        /\ TreeMove(r.at, to)
        /\ odd' = {why \in {"nowhere", "taken"} :
                      \/ why = "nowhere" /\ (~ShowsDir(Parent(to)) \/ IsPrefix(r.at, Parent(to)))
                      \/ why = "taken" /\ ShownAt(to) # {}}
        /\ UNCHANGED <<index, staging, broughtIn>>

(* A bug: only a delete holds a name. *)
ClaimedByDelete(p) == IsDeleted(p)

(* A pending change still holds the name. *)
Claimed(p) == IsDeleted(p) \/ Effective(p) # p

(***************************************************************************)
(* A rename ends at or above where the others left p, and takes what it    *)
(* moved from elsewhere: undoing it takes p there.                         *)
(***************************************************************************)
RenamedTo(p) ==
    \E i \in DOMAIN journal :
        /\ journal[i].kind = "renamed"
        /\ LET at == Trail(journal, p)[i - 1]
           IN  IsPrefix(journal[i].to, at) /\ ~IsPrefix(journal[i].from, at)

(***************************************************************************)
(* c of a file into a shown directory or to a new name in one, and p: a    *)
(* free name takes an addition; c over a file a replacement, or another    *)
(* copy of the addition, if its bytes are kept under the name it shows.    *)
(***************************************************************************)
BringIn(p) ==
    /\ broughtIn < MaxCopies
    /\ p # <<>> /\ ShowsDir(Parent(p))
    /\ \/ /\ ShownAt(p) = {}
          /\ ~Claimed(p)
          /\ Record(Added(p))
          /\ Note("renamed to", RenamedTo(p))
       \/ /\ \E r \in ShownAt(p) : r.kind = "file"
          /\ MemberAt(p) = p
          /\ IF p \in Additions \/ Has(Replaced(p)) THEN UNCHANGED journal
                                                     ELSE Record(Replaced(p))
          /\ UNCHANGED odd
    /\ broughtIn' = broughtIn + 1
    /\ staging' = [q \in DOMAIN staging \cup {p} |-> IF q = p THEN broughtIn + 1 ELSE staging[q]]
    /\ TreeCopy(p, broughtIn + 1)
    /\ UNCHANGED index

-----------------------------------------------------------------------------
JournalNext ==
    /\ Sound
    /\ \/ \E r \in Rows : Delete(r)
       \/ \E r \in Rows, dest \in Paths : Rename(r, dest)
       \/ \E p \in Paths : BringIn(p)

JournalSpec == JournalInit /\ [][JournalNext]_journalVars

-----------------------------------------------------------------------------
(* What must hold. *)

(***************************************************************************)
(* A write plans what the user made: each member under the path it was     *)
(* moved to, with its own bytes or those copied over it, and nothing that  *)
(* was removed.  A copy that lands on the bytes of another member, which   *)
(* renames leave where they were, would write the one under both names     *)
(* (claimed, land); so would renames applied in another order than made.   *)
(* Not where a delete straddles a rename, or an addition is taken out with *)
(* the rename of another member.                                           *)
(***************************************************************************)
PlanIsTree ==
    odd \cap {"straddled", "unadded"} = {} => Plan = {t \in made : ~t.implied}

(***************************************************************************)
(* What a row shows is what is opened, deleted, renamed or copied over     *)
(* there: original_of undoes what effective does, for members and          *)
(* additions, under any renames.  Not for a file brought in where a rename *)
(* ends, nor for two rows at one path, which taking out the rename of      *)
(* another member makes too.                                               *)
(***************************************************************************)
RowsResolve ==
    odd \cap {"renamed to", "taken", "unadded"} = {} => \A r \in Rows : MemberAt(r.at) = r.key

(***************************************************************************)
(* What the user can walk to is what a write plans, with the directories   *)
(* the archive only implies: nothing is written that is not shown, and     *)
(* nothing shown is lost.  So the two listings, with and without renames,  *)
(* agree.  Not for what is moved to where no directory is shown, nor       *)
(* where the plan is not what the user made.                               *)
(***************************************************************************)
ShownIsPlanned ==
    odd \cap {"nowhere", "straddled", "unadded"} = {} =>
        {<<r.at, IF r.key \in Keys THEN r.key ELSE <<>> >> : r \in Rows}
        = {<<t.at, t.key>> : t \in made}
=============================================================================

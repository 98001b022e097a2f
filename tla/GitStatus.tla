------------------------------ MODULE GitStatus ------------------------------
(***************************************************************************)
(* The git markers of a project's columns: what a column shows of its      *)
(* repository's status, against the repository other programs write.       *)
(*                                                                         *)
(* A status walk is slow, so the event loop never makes one: it asks one   *)
(* worker thread, which serves the requests in the order they were sent,   *)
(* and lands the answers in the order they come (app/state/git.rs,         *)
(* app/git_state.rs, git/status.rs).  Two signals ask for a walk: a poll   *)
(* each second, which compares the repository's key (the modification     *)
(* times of its index, branch and configuration) with the key it last saw, *)
(* and the flag a file event leaves, since an edit of the working tree     *)
(* moves no key.  A repository is two version numbers here: key[r] moves   *)
(* with each operation of git, tree[r] with each edit, and a status is the *)
(* pair of versions it was read from.  A repository with no index yet has  *)
(* the key 0, which is no key at all (poll_key is None).                   *)
(*                                                                         *)
(* heard and failed are history: the edits a column was told of, or was    *)
(* asked to show, and that its last walk failed.  The program has neither. *)
(***************************************************************************)
EXTENDS Integers, Sequences, FiniteSets, SequencesExt

CONSTANTS
    Sides,        \* the columns of the project in view
    Dirs,         \* the directories a column can be in
    RepoOf,       \* the repository each directory is in, None in none
    Under,        \* Under[d]: the directories at or below d
    Home,         \* the directory the columns start in
    FirstKey,     \* the key each repository starts with, 0 with no index
    Tries,        \* how often a walk looks for a stable key (3 in the code)
    Written,      \* bound: the repositories others write
    MaxOps, MaxEdits, MaxMoves, \* bounds: operations of git, edits, moves
    MaxQueue,     \* bound: the requests not served yet
    Generations,  \* the generations before the counter wraps (2^64)
    MayMiss,      \* the edits the watcher may not report: {TRUE}, {FALSE}...
    MayFail,      \* whether a walk may fail
    None, Blank   \* no value; no markers

Repos == {RepoOf[d] : d \in Dirs} \ {None}

\* A status as read, cached and shown, a request, and the walk that serves it.
Keys == Nat \ {0}
Entries == [key : Nat, tree : Nat]
Caches == [repo : Repos, key : Keys, entries : Entries]
Marks == [repo : Repos, key : Nat, tree : Nat]
Reqs == [side : Sides, gen : Nat, repo : Repos]
Walks == [req : Reqs, at : {"index", "files", "done"}, before : Keys \cup {None},
          tries : Nat, entries : Entries \cup {None}]

ASSUME GitAssumption ==
    /\ None \notin Nat \cup Entries \cup Caches \cup Walks /\ Blank \notin Marks
    /\ Sides # {} /\ IsFiniteSet(Sides) /\ Home \in Dirs /\ RepoOf[Home] # None
    /\ RepoOf \in [Dirs -> Repos \cup {None}]
    /\ Under \in [Dirs -> SUBSET Dirs] /\ \A d \in Dirs : d \in Under[d]
    /\ FirstKey \in [Repos -> {0, 1}]
    /\ Tries \in Nat \ {0} /\ MaxQueue \in Nat /\ MaxQueue >= Cardinality(Sides)
    /\ MaxOps \in Nat /\ MaxEdits \in Nat /\ MaxMoves \in Nat
    /\ Generations \in Nat /\ Generations > MaxQueue
    /\ Written \subseteq Repos
    /\ MayMiss \subseteq BOOLEAN /\ FALSE \in MayMiss
    /\ MayFail \subseteq BOOLEAN /\ FALSE \in MayFail

VARIABLES
    key, tree,    \* the versions of each repository, on disk
    events,       \* file events on their way: the place and version edited
    col,          \* each column (a Commander with its GitCache)
    queue,        \* requests sent to the worker, oldest first
    walk,         \* the walk the worker is on, None when it waits
    results,      \* answers not landed yet, oldest first
    relist,       \* a listing refresh is due (RefreshQuiet)
    away,         \* another project is in view
    heard, failed,
    ops, edits, moves

disk == <<key, tree>>
worker == <<queue, walk, results>>
counts == <<ops, edits, moves>>
vars == <<key, tree, events, col, worker, relist, away, heard, failed, counts>>

----------------------------------------------------------------------------
(* The column's side: what asks for a walk, and what is shown meanwhile.   *)

\* The freshness key of a repository, the same for the poll and the walk;
\* None outside a repository, and in one whose index can't be read.
PollKey(r) == IF r = None THEN None ELSE IF key[r] = 0 THEN None ELSE key[r]

\* What a column shows of its cached status: the cache it has, whatever
\* repository it is of, and nothing outside one.
Listed(cache) ==
    [repo |-> cache.repo, key |-> cache.entries.key, tree |-> cache.entries.tree]
Markers(c) == IF c.root = None \/ c.cache = None THEN Blank ELSE Listed(c.cache)

\* A bug: a status of this repository is shown again whatever its key.
ReusesAnyKey(c) == c.cache # None /\ c.cache.repo = c.root
\* The cached status can be shown again: it is of this repository, and was
\* stamped with the key the repository has now.
Reuses(c) ==
    /\ c.cache # None
    /\ c.cache.repo = c.root
    /\ PollKey(c.root) # None
    /\ c.cache.key = PollKey(c.root)

Asks(c, force) == c.root # None /\ (force \/ ~Reuses(c))

\* A column after git_file_statuses_cached: it has asked for a walk if it
\* needs one, and goes on showing what it has.
Filed(c, force) ==
    LET asked == IF Asks(c, force)
                 THEN [c EXCEPT !.gen = (@ + 1) % Generations]
                 ELSE c
    IN  [asked EXCEPT !.shown = Markers(asked)]

\* A bug: a flag left by a file event isn't looked at.
MovedKeyOnly(c) == PollKey(c.root) = None \/ PollKey(c.root) # c.poll
\* The poll has something to do: a flagged edit, or a key it hasn't seen.
Moved(c) ==
    \/ c.flag
    \/ PollKey(c.root) = None
    \/ PollKey(c.root) # c.poll

\* A column after refresh_git_state_for.  The flag is taken and the key
\* noted when the walk is asked for, not when it lands.
Polled(c) ==
    IF Moved(c)
    THEN [Filed([c EXCEPT !.flag = FALSE], c.flag) EXCEPT !.poll = PollKey(c.root)]
    ELSE c

\* A bug: the status of another repository is kept.
RootedOnly(c, r) == [c EXCEPT !.root = r]
\* A column after update_repo_root: a status of another repository goes,
\* and one is kept while the column is in none.
Rooted(c, r) ==
    [c EXCEPT !.root = r,
              !.cache = IF r # None /\ @ # None /\ @.repo # r THEN None ELSE @]

\* The requests a step makes, one for each column that asked in it.
Requests(new) ==
    LET askers == SetToSeq({s \in Sides : new[s].gen # col[s].gen})
    IN  [i \in DOMAIN askers |-> [side |-> askers[i], gen |-> new[askers[i]].gen,
                                 repo |-> new[askers[i]].root]]

Outstanding == Len(queue) + Len(results) + (IF walk = None THEN 0 ELSE 1)
Max2(a, b) == IF a >= b THEN a ELSE b

\* The columns become new, and what they asked for is sent (the event loop
\* flushes the outbox before it waits again).  A column that asks is to
\* show at least the edits made so far; one that leaves its repository is
\* owed nothing of it any more.
Send(new) ==
    /\ Outstanding + Len(Requests(new)) <= MaxQueue
    /\ col' = new
    /\ queue' = queue \o Requests(new)
    /\ heard' = [s \in Sides |->
                   IF new[s].gen # col[s].gen THEN tree[new[s].root]
                   ELSE IF new[s].root # col[s].root THEN 0 ELSE heard[s]]
    /\ failed' = [s \in Sides |-> failed[s] /\ new[s].gen = col[s].gen
                                            /\ new[s].root = col[s].root]

\* A column as spyc starts: its first walk is asked for, no key is noted.
NewColumn ==
    [dir |-> Home, root |-> RepoOf[Home], cache |-> None, poll |-> None,
     flag |-> FALSE, gen |-> 1, shown |-> Blank]

Init ==
    /\ key = FirstKey
    /\ tree = [r \in Repos |-> 1]
    /\ events = {}
    /\ col = [s \in Sides |-> NewColumn]
    /\ LET sides == SetToSeq(Sides)
       IN  queue = [i \in DOMAIN sides |-> [side |-> sides[i], gen |-> 1, repo |-> RepoOf[Home]]]
    /\ walk = None /\ results = <<>>
    /\ relist = FALSE /\ away = FALSE
    /\ heard = [s \in Sides |-> 1] /\ failed = [s \in Sides |-> FALSE]
    /\ ops = 0 /\ edits = 0 /\ moves = 0

\* A git operation in another program: it writes the index, or moves the
\* branch.  A repository with no index gets one.
GitOperation(r) ==
    /\ ops < MaxOps
    /\ key' = [key EXCEPT ![r] = @ + 1]
    /\ ops' = ops + 1
    /\ UNCHANGED <<tree, events, col, worker, relist, away, heard, failed, edits, moves>>

\* A file of the working tree is written at d.  The watcher reports it, or
\* misses it: its watch isn't there yet, or the system had none left.
Edit(d, missed) ==
    LET r == RepoOf[d]
    IN  /\ edits < MaxEdits /\ r \in Written
        /\ tree' = [tree EXCEPT ![r] = @ + 1]
        /\ events' = IF missed THEN events
                     ELSE events \cup {[dir |-> d, tree |-> tree[r] + 1]}
        /\ edits' = edits + 1
        /\ UNCHANGED <<key, col, worker, relist, away, heard, failed, ops, moves>>

\* A file event is read: it flags the columns it is below, in the project
\* in view, and makes a listing refresh due.
FileEvent(e) ==
    LET reached == {s \in Sides : ~away /\ e.dir \in Under[col[s].dir]}
    IN  /\ e \in events
        /\ events' = events \ {e}
        /\ col' = [s \in Sides |-> IF s \in reached THEN [col[s] EXCEPT !.flag = TRUE] ELSE col[s]]
        /\ heard' = [s \in Sides |->
                       IF s \in reached THEN Max2(heard[s], e.tree) ELSE heard[s]]
        /\ relist' = (relist \/ reached # {})
        /\ UNCHANGED <<disk, worker, away, failed, counts>>

\* The poll of each second, over both columns; it also runs at once when an
\* event names the index or HEAD.  None runs while no column is in a
\* repository.
Poll ==
    LET new == [s \in Sides |-> Polled(col[s])]
    IN  /\ ~away
        /\ \E s \in Sides : col[s].root # None
        /\ new # col
        /\ Send(new)
        /\ UNCHANGED <<disk, events, walk, results, relist, away, counts>>

\* A refreshed listing is installed in the focused column s, which can be
\* any.  A walk is forced once a second at most, and flagged for the poll
\* otherwise; a listing read before the column changed is dropped.
ListingRefreshed(s, throttled) ==
    /\ relist /\ ~away
    /\ relist' = FALSE
    /\ Send([col EXCEPT ![s] = Filed([@ EXCEPT !.flag = throttled], ~throttled)])
    /\ UNCHANGED <<disk, events, walk, results, away, counts>>

ListingDropped ==
    /\ relist
    /\ relist' = FALSE
    /\ UNCHANGED <<disk, events, col, worker, away, heard, failed, counts>>

\* The column s goes to the directory d; it notes the key there at once.
Chdir(s, d) ==
    LET here == Filed(Rooted([col[s] EXCEPT !.dir = d], RepoOf[d]), FALSE)
    IN  /\ moves < MaxMoves /\ ~away /\ d # col[s].dir
        /\ Send([col EXCEPT ![s] = [here EXCEPT !.poll = PollKey(here.root)]])
        /\ moves' = moves + 1
        /\ UNCHANGED <<disk, events, walk, results, relist, away, ops, edits>>

\* Another project comes into view, and this one isn't polled or watched.
SwitchAway ==
    /\ moves < MaxMoves /\ ~away
    /\ away' = TRUE
    /\ moves' = moves + 1
    /\ UNCHANGED <<disk, events, col, worker, relist, heard, failed, ops, edits>>

\* This project comes back: each column is flagged and polled at once
\* (relist_columns).
SwitchBack ==
    /\ away
    /\ away' = FALSE
    /\ Send([s \in Sides |-> Polled([col[s] EXCEPT !.flag = TRUE])])
    /\ UNCHANGED <<disk, events, walk, results, relist, counts>>

----------------------------------------------------------------------------
(* The worker: one walk at a time, each between two readings of the key.   *)

Idle == walk = None

\* A walk begins, or begins again: the key is read before it.
Begun(req, tried) ==
    [req |-> req, at |-> "index", before |-> PollKey(req.repo), tries |-> tried,
     entries |-> [key |-> 0, tree |-> 0]]

WalkBegins ==
    /\ Idle /\ queue # <<>>
    /\ walk' = Begun(Head(queue), 1)
    /\ queue' = Tail(queue)
    /\ UNCHANGED <<disk, events, col, results, relist, away, heard, failed, counts>>

\* The walk reads the index, then the files; either may be written between.
WalkReadsIndex ==
    /\ ~Idle /\ walk.at = "index"
    /\ walk' = [walk EXCEPT !.at = "files", !.entries.key = key[walk.req.repo]]
    /\ UNCHANGED <<disk, events, col, queue, results, relist, away, heard, failed, counts>>

WalkReadsFiles(fails) ==
    /\ ~Idle /\ walk.at = "files"
    /\ walk' = [walk EXCEPT !.at = "done",
                            !.entries = IF fails THEN None
                                        ELSE [@ EXCEPT !.tree = tree[walk.req.repo]]]
    /\ UNCHANGED <<disk, events, col, queue, results, relist, away, heard, failed, counts>>

\* A bug: the key read after the walk.
StampAfter(w) == PollKey(w.req.repo)
\* The key an answer is stamped with: the one read before the walk.
Stamp(w) == w.before

Stable(w) == PollKey(w.req.repo) = w.before

\* The walk ends with a key that didn't move, or it has been tried often
\* enough; otherwise it is made again.
WalkEnds ==
    /\ ~Idle /\ walk.at = "done"
    /\ IF Stable(walk) \/ walk.tries = Tries
       THEN /\ results' = Append(results, [req |-> walk.req, entries |-> walk.entries,
                                           stamp |-> Stamp(walk)])
            /\ walk' = None
       ELSE /\ walk' = Begun(walk.req, walk.tries + 1)
            /\ UNCHANGED results
    /\ UNCHANGED <<disk, events, col, queue, relist, away, heard, failed, counts>>

\* A bug: the column's repository isn't compared.
CurrentAnyRepo(res) == ~away /\ res.req.gen = col[res.req.side].gen
\* An answer is for its column as it is now: the project is in view, no
\* later request was made, and the column is in the same repository.
Current(res) ==
    LET c == col[res.req.side]
    IN  ~away /\ res.req.gen = c.gen /\ res.req.repo = c.root

\* An answer lands.  One that isn't current, failed or has no key changes
\* nothing; the key noted when it was asked for stays.
Lands ==
    LET res == Head(results)
        s == res.req.side
        landed == [col[s] EXCEPT !.cache = [repo |-> res.req.repo, key |-> res.stamp,
                                            entries |-> res.entries],
                                 !.poll = res.stamp]
    IN  /\ results # <<>>
        /\ results' = Tail(results)
        /\ IF Current(res) /\ res.entries # None /\ res.stamp # None
           THEN col' = [col EXCEPT ![s] = [landed EXCEPT !.shown = Listed(landed.cache)]]
           ELSE UNCHANGED col
        /\ failed' = IF Current(res) /\ res.entries = None
                     THEN [failed EXCEPT ![s] = TRUE] ELSE failed
        /\ UNCHANGED <<disk, events, queue, walk, relist, away, heard, counts>>

Disk ==
    \/ \E r \in Written : GitOperation(r)
    \/ \E d \in Dirs, missed \in MayMiss : Edit(d, missed)

User ==
    \/ \E s \in Sides, d \in Dirs : Chdir(s, d)
    \/ SwitchAway
    \/ SwitchBack

Loop ==
    \/ \E e \in events : FileEvent(e)
    \/ Poll
    \/ \E s \in Sides, throttled \in BOOLEAN : ListingRefreshed(s, throttled)
    \/ ListingDropped
    \/ Lands

Worker ==
    \/ WalkBegins
    \/ WalkReadsIndex
    \/ \E fails \in MayFail : WalkReadsFiles(fails)
    \/ WalkEnds

Next == Disk \/ User \/ Loop \/ Worker

\* The loop reads its events, polls each second and drains the answers; the
\* worker thread goes on.  Nothing makes the user, git or an editor act.
Fairness ==
    /\ WF_vars(\E e \in events : FileEvent(e))
    /\ WF_vars(Poll)
    /\ WF_vars(Lands)
    /\ WF_vars(Worker)

Spec == Init /\ [][Next]_vars /\ Fairness

----------------------------------------------------------------------------
(* Properties.                                                             *)

HasKey(r) == r # None /\ PollKey(r) # None

\* A column never shows the status of a repository it isn't in: not one a
\* walk brought for the directory it left, nor one kept over a move between
\* worktrees (update_repo_root, apply_git_worker_result's relevance gate).
ShownOwn == \A s \in Sides : col[s].shown # Blank => col[s].shown.repo = col[s].root

\* A cached status is never older than the key it is stamped with: a status
\* read before a commit and stamped after it would be taken for fresh for
\* ever (repo_status_stable's guard).
NeverNewerKey ==
    \A s \in Sides :
      LET c == col[s].cache IN c # None => c.entries.key >= c.key

Pending(s) ==
    \/ \E i \in DOMAIN queue : queue[i].side = s /\ queue[i].gen = col[s].gen
    \/ walk # None /\ walk.req.side = s /\ walk.req.gen = col[s].gen
    \/ \E i \in DOMAIN results :
         results[i].req.side = s /\ results[i].req.gen = col[s].gen

\* What the column shows is the repository as git last wrote it, with every
\* edit it heard of.
Fresh(s) ==
    /\ col[s].shown # Blank
    /\ col[s].shown.key = key[col[s].root]
    /\ col[s].shown.tree >= heard[s]

\* Markers that are behind are never taken for fresh: a flag, a key that
\* differs from the one noted, or a walk on its way will bring what is
\* missing, unless the last walk failed (the poll notes the key and takes
\* the flag when it asks, so nothing else remembers).
BehindIsNoticed ==
    \A s \in Sides :
      ~away /\ HasKey(col[s].root) /\ ~failed[s] /\ ~Fresh(s) =>
        Moved(col[s]) \/ Pending(s)

\* Once git, the editors and the user pause, the markers of every column in
\* view come to show all it heard of, and stay so, whatever walks raced what
\* was written (unless the last one failed).
Converges ==
    <>[](\A s \in Sides : ~away /\ HasKey(col[s].root) /\ ~failed[s] => Fresh(s))

=============================================================================

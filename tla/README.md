# Verification of spyc

TLA+ models of spyc (a terminal file commander that hosts coding agents in
panes), the TLC runs that check them on small instances, and TLAPS proofs of
their main properties. `PROJECT.json` lists the components, the runs, the lines
each definition models, the hazards and the theorems. Paths below are relative to
the repository's `src/` unless they start with `docs/`.

## The system

spyc is one process with one event loop. The loop thread owns the model
(`App.state`), and everything slow runs on threads of its own that send a message
back and wake the loop: PTY readers and writers, the git worker, archive and file
workers, pager streams, captures, and one thread per MCP connection. There is no
async runtime and almost no lock: channels, and a few atomics.

| component | state it keeps | operations | what is hard |
|---|---|---|---|
| pane input queue (`pane/pty_host/input_writer.rs`) | byte counter, channel, worker | enqueue (UI), reply (parser thread), confirmed pipe, write, drop | two producers and a worker over one counter; a child that never reads; EOF order |
| archive mount and write-back (`app/archive*`, `archive/`) | index, journal, staged copies and their stats, late edits, queue of outcomes | mount, open, copy in, delete, discard, unmount, write, settle | editors and workers touch the staging tree while the archive is rewritten |
| archive mount table (`archive/mount.rs`, `app/archive.rs`) | up to a cap of mounts, deferred cleanups | insert with eviction, remove, resolve, nested mounts | eviction and cleanup of a mount something still needs |
| archive journal (`archive/journal.rs`) | list of changes | add, delete, rename, replace, plan_repack | paths under several renames and deletes of directories |
| scope registry (`state/scope_registry.rs`, `app/mcp.rs`) | claims, parked waits | register, list, release, wait, settle, drop with tab or project | calls that time out but are served; ids; agents waiting on each other |
| MCP server and proxy (`mcp/`) | connections, reply channels, deadlines | dispatch, bind, take over, time out | nested deadlines; late answers |
| event loop (`app/run.rs`, `app/sources.rs`, `app/pre_recv.rs`, `app/scheduler.rs`) | pending buffers, armed deadlines | recv and coalesce, drain, settle, dispatch, render | lost wake-ups, order of drain and settle |
| projects and tabs (`app/projects.rs`, `app/pane_tabs.rs`) | three parallel maps of projects, tabs | open, close, restart, switch, drop | work still in flight for a project or tab that is gone |
| sessions (`app/session*.rs`, `state/sessions/`) | manifests on disk, the baseline of the last save, tabs kept as records, the picker's rows | autosave, restore, adopt, prune | spycs that restore each other's files; tabs that could not be opened; saves that fail; kills |
| git status (`app/state/git.rs`, `app/git_state.rs`, `git/status.rs`) | per column the cached status, poll key, flag and generation; one worker | poll, file event, request, walk, ingest, change of directory | git writes while a walk reads; columns move while answers are on their way |
| pager streams (`app/pager_stream.rs`, `app/pane_scroll.rs`, `app/pager_history.rs`) | the pager, its history and help, the scrollback, a shelf per tab; the streams, kept apart | open, drain, help, navigate, stash, close, end | a pager and its stream taken apart while lines still come; late snapshots |
| agent status (`agent/`, `app/agent_status.rs`) | the report in force, the held `waiting`, pending questions, scan and output times, the dot | report, scan, settle, arm, ring, settle by a key | reports in any order against keys, expiry, redraws and the loop's sleep |
| captures and tasks (`app/capture.rs`, `app/tasks.rs`) | children, ring buffers | start, stop, reap | order of exit and of the pipe's end, which is the OS's |
| graveyard, worktrees, file operations (`state/graveyard.rs`, `app/worktree*`) | files on disk | single moves, copies and git commands | partial failure of an OS call |
| rendering, keys, configuration, formats, Lua, transcripts | - | - | not concurrent, or pure I/O; not modelled |

Components meet in three ways: the archive and file workers land outcomes on
channels the loop drains before it blocks (`drain_landed_work`,
`settle_before_recv`); MCP connection threads send a request with a reply channel
and wait on it with a time-out; and the panes' PTY threads share the input queue's
counter with the loop.

## Modules

| module | models | extends / uses |
|---|---|---|
| `PtyInput` | the input queue, its two producers and its worker | refines `InputStream` |
| `InputStream` | what the queue promises: an ordered, gap-free stream that ends cleanly or broken | |
| `MCPtyInput` | instance of `PtyInput` for TLC | `PtyInput` |
| `PtyInputProofs` | proofs about `PtyInput` | `PtyInput`, TLAPS |
| `ArchiveWriteback` | one archive: mount, staging, write and re-read | |
| `MCArchiveWriteback` | instance for TLC | `ArchiveWriteback` |
| `ArchiveWritebackProofs` | proofs about `ArchiveWriteback` | `ArchiveWriteback`, TLAPS |
| `ArchiveJournal` | the pending changes of one archive and the paths they give its members | |
| `MCArchiveJournal` | instance for TLC | `ArchiveJournal` |
| `ScopeRegistry` | the scope registry, its waits, the loop that serves them and the agents that use them | |
| `MCScopeRegistry` | instance for TLC | `ScopeRegistry` |
| `ScopeRegistryProofs` | proofs about `ScopeRegistry` | `ScopeRegistry`, TLAPS |
| `ArchiveTable` | the table of mounted archives: reads, eviction, unmounts, clean-ups, one level of nesting | |
| `MCArchiveTable` | instance for TLC | `ArchiveTable` |
| `ArchiveProofs` | proofs about `ArchiveTable` and `ArchiveJournal` | `ArchiveTable`, `ArchiveJournal`, TLAPS |
| `Sessions` | several spycs, their session files and the restores between them | |
| `MCSessions` | instance for TLC | `Sessions` |
| `SessionsProofs` | proofs about `Sessions` | `Sessions`, TLAPS |
| `GitStatus` | the git markers of a project's columns, the worker that walks and the repositories others write | |
| `MCGitStatus` | instances for TLC | `GitStatus` |
| `GitStatusProofs` | proofs about `GitStatus` | `GitStatus`, TLAPS |
| `PagerStreams` | pagers filled by workers, under history, help, tabs and shelves | |
| `MCPagerStreams` | instance for TLC | `PagerStreams` |
| `PagerStreamsProofs` | proofs about `PagerStreams` | `PagerStreams`, TLAPS |
| `AgentStatus` | the activity dot of one agent tab, its reports and the loop that settles it | |
| `MCAgentStatus` | instance for TLC | `AgentStatus` |
| `AgentStatusProofs` | proofs about `AgentStatus` | `AgentStatus`, TLAPS |

The modules meet where the components do, on the loop. Each models the part of a
pass it depends on, in the order of `App::run`: `ScopeRegistry` the buffered
requests and the settle of the waits, `PagerStreams` the landing, the two drains
and the settle of snapshots, `AgentStatus` the scan, the settle of the dot, the
reports and the blocking `recv`, `GitStatus` the poll and the landing of answers.
`ArchiveTable` has mounts as clean, edited or dirty and `ArchiveWriteback` has what
is inside one; `ArchiveJournal` has what its journal says.

Definitions keep the source's names in TLA+ case; `PROJECT.json` gives the lines
of each. An operator introduced by "A bug:" is a wrong form of the definition after
it and is used by nothing in the specification: each property has one that breaks
it (`PROJECT.json`, `mutants`).

### PtyInput

`InputWriter::send` is two atomic steps of one thread, the reservation in the
shared counter (`Reserve`) and the `try_send` (`TrySendOk`, `TrySendFails`), so the
UI thread and the parser thread interleave between them. `outstanding` is the
atomic counter, `queue` and `rxOpen` the `sync_channel`, `alive` the senders that
exist, `worker` and `cur` the worker thread's loop. `Batch::drop`, which gives the
bytes back, is a step wherever a batch is dropped: after a refused send
(`DropRefused`), after a write (`DropCurrent`), and for what is queued when the
worker returned (`DiscardQueued`). `WriteErr` is a child whose end is gone; a
child that stops reading is `WriteOk` never being taken. Bytes are lengths only.

### ArchiveWriteback

`index`, `journal`, `recorded` are the `ArchiveMount`; `staging` is the tree on
disk; `writing` and `planned` are `archive_writes`; `landed` is `archive_results`,
drained one outcome at a time by the `Apply...` actions; `held` is `archive_held`.
A stat is kept as how the file compares with the one stat'ed (`none`, `same`,
`stale`), so any write to a path makes what was recorded of it stale. The write
worker has two steps a save can come between, packing and the rename over the
archive; an extraction has two, the read by locator and the rename into the tree.
The index is a sequence and a locator a position in it, so that a repack moves
members. `streamed` archives are extracted when mounted and have no locators.
`Save` is an editor or an agent, at any time, to any staged file. A copy can fail to
move, aside or back: `hold_late_edits` drops it silently (`app/archive/writes.rs:78`),
so that the re-read deletes it, and `restore_late_edits` leaves it where it was held,
tells the user where, and no longer tracks it. `Unmoved` takes such an edit out of
what the properties follow.

### ArchiveJournal

`journal` is the list of changes, `index` the entries of the archive. A path is a
sequence of names. `Effective`, `OriginalOf`, `IsDeleted`, `ListingFor`, `MemberAt`
and `Plan` are the functions of those names; `Delete`, `Rename` and `BringIn` are
`R`, `M`, and `c` or `p` of one row or file, with the refusals of
`archive_route.rs` and the folding of `record_pending`. `Trail` and `BackTrail` are
the loops of `effective` and `original_of`, one value per change. `made` is the
reference: what the same operations do to a directory tree. An index cut off at its
cap (`truncated`), whose implied directories may be missing, is left out. Five things the code does make
the journal and the reference, or the listing, part; `odd` names the one that happened,
each property excludes the ones that break it and no other, and TLC finds a
counterexample for each when its exclusion is taken out:

| `odd` | what was done | what breaks |
|---|---|---|
| `straddled` | a directory deleted after a member was moved out of it, or something moved or brought into it | the moved member is lost by the write; what was moved in is written though deleted |
| `unadded` | a brought-in file taken back out, where another member's rename starts at its path | that member goes back to its old name, and may land on another's, so that a row stands for the wrong one |
| `renamed to` | a file brought in at or under a path a rename ends at | the row stands for no member, or for another, deleted one |
| `nowhere` | a rename to where no directory is shown, as into a directory that was renamed or deleted | the member is in no listing, though the write carries it |
| `taken` | a rename to a name that is shown | two members of one name; `verify` refuses the write |

A journal that is already odd is not extended. Chained renames of a file that is
taken back out leave renames nothing uses behind; that only refuses a name, and no
property is about it.

### ScopeRegistry

`registry` is the list of claims, `waiters` the parked `wait_for_scope_clear`
calls, `armed` the scheduler's `ScopeWait` deadline. The loop alternates between
`recv`, where it buffers a burst of requests or wakes for the deadline or is given
a key that closes a tab, and `drain`, where it serves the buffered requests in
order and then settles the waits. An agent has one call in flight on its
connection; `GiveUp` is the connection thread's `recv_timeout`, after which the call
is still in the queue and still served, its answer going nowhere. Agents follow
`docs/AGENT_ORCHESTRATION.md`: register, wait, merge, release; an agent that was
told it timed out may release or, unclear about it, try again.

### ArchiveTable

`live` is `Mounts::live` and `older` the order of its `last_used` ticks, `reads` and `joined` are `archive_reads`,
`writing` is `archive_writes`, `worker` the thread of a read until its outcome is
drained. A mount is clean, `saved` (an edit no scan has noticed yet) or `dirty` (in
its journal). `tree` is what lies at an archive's staging path: nothing, copies of
this mount, or `earlier` ones. `RequestMount` and `RequestNested` enter a mounted
archive, join its read or start one, `LandMounted` is `apply_mounted` with the eviction and
`record_mount`, `SetAside` moves trees away for a clean-up thread, `CleanRuns` is
that thread, and `Protected` is `protected_archives`. What the code does at the
edges:

- A mount that lands when every other is protected is itself evicted. A re-read that
  lands is not protected by a column standing in it.
- `protected_archives` resolves an inner archive to itself (`app/archive.rs:720`), so
  the outer one of a nested mount can be evicted.
- `UnmountFirst` (the archive's file deleted or moved) leaves the staging tree where
  it is (`app/archive/screen.rs:105`): an archive put there later is mounted over the
  earlier copies. `FreshUnlessLeft` leaves those out by the history variable `left`.
- An edit that was saved and noticed by no scan goes with an evicted mount.

### Sessions

`phase` is a spyc's life, `picker` the row its user will pick, as it was when the
picker read it, `live` and `deferred` its tabs and `deferred_tabs`, `base` is
`autosave_last_saved_fp`, `file` and `recent` the files and their order. A tab is the
conversation its agent is in. `RestoreSession` is `restore_session` with
`restore_plans`: which tabs open, which stay records, whether the file is adopted,
which conversations another running spyc holds. Its own other projects keep their tabs,
and a tab that was to start fresh and did not becomes a record without the
conversation: a new number, in `deferred`. `RestoreRefused` is its early returns, which
leave the session untouched. `Crash` leaves the files as they are. Told here, since no run states them:

- `restore_session` acts on the manifest the picker read
  (`app/session_restore.rs:180`). If the spyc that wrote it saved more and quit since,
  its file is adopted as it was, and the next autosave overwrites what it saved last,
  though `ARCHITECTURE.md:1443-1444` says that nothing a restore did not open is ever
  overwritten. `clashed` marks such files, and those that two running spycs write;
  `SavedStay` and `SavedWhenClean` excuse them.
- An autosave whose write fails counts as clean (`app/session.rs:612`): nothing tries
  again before the next change, and a kill loses it. `failed` excuses it.
- Two spycs that restore one conversation before either has saved share it, as the
  documentation says. A prune can delete the file of a spyc that runs but is idle.

### GitStatus

`key[r]` and `tree[r]` are the version git last wrote of a repository and the version
of its working tree; a status is the pair it was read from. `col[s]` is a column's
`GitCache`, `queue`, `walk` and `results` the worker and its channels. `Polled` is
`refresh_git_state_for`, `Filed` is `git_file_statuses_cached`, `Rooted` is
`update_repo_root`, `WalkBegins` to `WalkEnds` are `repo_status_stable` with its
retries, `Lands` is `apply_git_worker_result`. `heard` and `failed` are history. Met
while modelling:

- A walk that fails leaves the key noted and the flag taken, so nothing asks again
  until the next change; `failed` excuses it.
- An edit made while a column is outside its repository is not in its markers when it
  comes back, since no key moved and the kept cache is shown again
  (`app/state/listing.rs:450`), though the comment at
  `app/state/git_cache.rs:195-198` says
  that staleness is bounded to one poll. `Send` asks nothing of such a column, so
  `Fresh` is about what it heard while it was there.
- A repository with no index has no key: it is walked each second and never shown
  from the cache. Edits in directories that are not watched are missed until git
  writes.

### PagerStreams

`pager`, `back`, `forward`, `helpStash`, `scroll`, `scrollHelp` and `shelf` are the
places a pager can be; `overlayStream`, `scrollStream` and `parked` those of a
stream. `LoopPass` is the part of a pass before `recv`: a git view landing, the two
drains, the settle of a snapshot. Each key that moves a pager is an action. `mixed`
is set by what the code does to scrollbacks when the tabs change under them:

1. Opening, closing or restarting a tab with a scrollback in view leaves it over
   another tab; the next change of tab stashes it there, over what was on that shelf,
   whose stream then stays until the next prune (run `pager_stray`).
2. `q` in the help over the list gives back the scrollback's stash
   (`app/pager_handler/motion.rs:342-353`), which can bring a closed scrollback back.
3. Closing a tab makes its neighbour active without taking that one's scrollback off
   its shelf.

And, kept out of `Fed` by `covered`, or outside what a property says: help opened
over a loading transcript drops its stream at the next drain and the transcript
comes back frozen (`docs/archive/CODE_REVIEW_2026-06.md:449` recommends a fix); a git
view that lands over a running grep freezes the grep in the history; `[b` at the
start of the history cuts a running grep; a snapshot is matched by the tab's place,
so closing the asker can show another tab's history (`settle.same`); a git view that
lands over the help loses the pager under it.

`WorkerPanics` is a worker that unwinds: it drops its sender and never reaches the last
wake (`app/pager_stream.rs:170-173`). Its pager stays loading until the loop wakes for
something else: within a second in a git repository, whose poll is a deadline of the
loop's, and otherwise at the next key or message. `unheard` has the streams in that
state, and `LoadsEnd` leaves them out; any wake that comes empties it.

### AgentStatus

The tab's fields keep their names (`reported`, `heldWaiting`, `turnOpen`, `recovery`,
`scrape`, `notified`, `unseenDone`); `activity` is the dot; `idleIn` and `scrapeIn`
are the ticks to `Deadline::AgentIdle` and `Deadline::ScrapeQuiet`. `chan` is the
loop's channel, `pending` the reports a drain has taken and not served. A pass is
`Land`, `Settle` (with the ring), `Serve` per report and `Recv`, which blocks only if
the frame is clean and handles at most one key. `Meet` is how a report meets a live
`waiting`, `Recovered` is `CodexRecovery`, `Effective`, `NextFlip` and `UnseenAfter`
are the settle, `LeftByKey` is what Enter and Escape leave. The agent's hooks are
`Agent`'s actions; each agent sends only what its hook table has. Time is the ticks
left of a deadline or the age of an event, capped at the longest window. The poll for
git would wake the loop each second; it is left out, which only makes `NeverStale`
stronger. Not faults by themselves, but worth knowing:

- Reports are served after the dot was settled, and the frame they make dirty
  forbids the loop to block, so that the next pass settles them.
- An Enter that answers an approval in the middle of a turn drops a held `waiting`
  (`app/effect.rs:371`), so the turn ends as done while work is pending.
- A key is dispatched before the reports of the same burst are served
  (`app/sources.rs:128`): a block that the key answered is served after it, and stays.
- A turn that begins and ends within one drain after a `done` makes no edge: nothing
  rings and no unseen done is set.
- A question of Codex's is retired by a report of its own that is not `blocked`; its
  answer is then refused. A cancelled turn of Claude Code's is open for spyc until the
  next event, as no hook reports it.

Agents in shell tabs, other projects' bells, notes and labels, requested shorter
lifetimes and lost hooks are left out.

## Runs

| run | instance | bounds | states | shows |
|---|---|---|---|---|
| `pty_input` | both producers, payloads of 1 and 5 bytes, plain or confirmed | 4 bytes, 2 batches, 4 accepted | 94 439 | both limits are met with the worker blocked; a confirmed pipe passes the byte limit only alone; EOF and errors at every point; the stream refines `InputStream` |
| `archive_writeback` | two members and one new name, zip and streamed | 2 saves, 2 writes, 1 extraction | about 1 100 000 | saves, copies in, deletes, discards and unmounts against one write after another and the re-reads between |
| `archive_journal` | one directory and two files, the directory stored or implied; seven paths | 4 pending changes, 2 files brought in, paths of 3 names | 195 458 | plan, listing and lookup against the reference |
| `archive_table` | two archives on disk, one inside the first, two columns | 2 mounts, 1 read of the user's, 1 write | about 867 000 | who waits for a read, what is evicted, cleaned and found in a staging tree |
| `scope_registry` | two merging agents and an editing one, in two projects | 4 calls | 143 760 | exclusion, ids, closed tabs and wake-ups with time-outs anywhere |
| `sessions` | three spycs, three conversations | 2 files, saves of the first may fail | 1 107 536 | what saves, restores, prunes and kills may lose, and who may resume what |
| `git_status` | one column; a repository, one with no index, and none | 2 operations of git, 1 edit, 2 moves, 2 tries, queue of 2 | 262 823 | markers against writers, moves, failures and other projects |
| `pager_streams` | two streams, two tabs | 6 keys, history of 2 | 1 140 383 | pagers and their streams under tabs, help and history |
| `agent_status` | one tab, of each kind of agent, in view or away | 3 reports, 1 key, queue of 2, windows of 1, lifetimes of 2 | 5 574 430 | the dot while the loop sleeps, questions, rings and unseen turns |
| `agent_forms` | Codex or agy with an approval form | 2 reports, 1 key, quiet window of 2 | 293 720 | a form is shown in the end |

The bounds are those at which the cases happen: two members, because a deletion
must move another's position; two saves and two writes, because what is held aside
by one write must survive the next; four changes, because a name must be able to be
left, taken and left again with one change beside it (`unadded` needs four); four
calls, because one agent must register and wait while another registers and
releases; a cap of two mounts with three archives, so that each landing evicts;
three spycs, because one must save a file, one restore it and one hold it; two
operations of git, because a walk must be overtaken twice to give up; six keys,
because a transcript is asked for, left, found again and closed on one tab while
another is opened; three reports, because a wait is announced, its turn ends and a
nudge follows. Larger instances were run without a difference: `scope_registry` with
five calls (1 088 274 states), `git_status` with two columns and with more edits (up
to 20 million states, invariants only), `pager_streams` with seven keys (4.0
million, safety only), `agent_status` with one kind of agent at a time and wider bounds (up to 15
million). The `Max...` constants, `Generations` and `MaxQueue` bound counters the
code leaves open (the git generation wraps at 2^64), except `MaxBytes`, `MaxBatches`,
`MaxMounts`, `MaxFiles`, `MaxHistory` and `PendingLimit`, which are the code's own
limits made small. `Calls` are interchangeable, and `agent_status` uses that
symmetry; it checks no liveness. Deadlock is not checked: each of these systems stops
when its bounded inputs are spent, and the queue when its host is gone.

Every property has a mutant of the code, an operator introduced by "A bug:", that
breaks it under the same instance.

Two violation runs each check one sentence of the repository that the code does not
keep:

| run | what happens |
|---|---|
| `archive_stale_locator` | an extraction asked for before a write ends reads by its old position and puts another member's bytes under its name |
| `pager_stray` | a tab opened, closed or restarted under a scrollback leaves it over another tab |

The same modules have further behaviours that part from a comment or a document;
they are described here, and excluded from the properties by name:

- *Added edits.* A file brought in before a write and edited while it runs is in no
  index entry, so it is not held aside, and the re-read empties the tree: the edit is
  lost (`app/archive/writes.rs:61`).
- *Own copies.* A member spyc extracts during a write comes back as an edit nobody
  made (`app/archive/writes.rs:66`).
- *Carried across, brought in.* `d/x` moved to `x`, then `d` deleted: `x` disappears
  and is not written. `d` renamed to `e`, then a file copied to `e/x`: the row is no
  member. Both are `odd` in `ArchiveJournal`.
- *Scope ids.* The id of a new claim is the largest plus one, so a late release can
  drop the claim another agent got the same id for. Two agents that register before
  either waits block each other until they time out. `Exclusive` is about releases
  that took no other's claim.

## Fairness

- `PtyInput`: a thread that can step does (`ThreadFairness`); nothing makes the
  child read. `SendReturns` holds with that alone: no send waits for the child.
  `AcceptedArrives` takes a child that reads or goes away (`ChildReads`) as its
  hypothesis.
- `ArchiveWriteback`: the read and the write workers run to their end and the loop
  drains what they land (each landing wakes it). No fairness for saves, the user,
  extractions or copies.
- `ScopeRegistry`: the loop runs when something wakes it, and a parked wait's
  deadline passes. No agent has to call, and no claim has to be released.
- `GitStatus`: file events arrive, the loop polls (its tick is a deadline of its own),
  it lands what the worker sends, and the worker goes on. Nobody has to write, move or
  come back to the project.
- `PagerStreams`: the loop makes its pass and looks when it is woken, and a worker
  returns in the end, or panics. No key has to come.
- `AgentStatus`: the loop runs when something wakes it; time passes, however busy the
  loop is (strong fairness of `Tick`, which a busy pass disables); an agent that was
  given a key draws what came of it. No report, key or form has to come.
- `ArchiveTable` and `Sessions` state safety only and need none.

## Proofs

`PtyInputProofs`, for any limits and payload sizes:

- `TypeCorrect`, `AccountingHolds`, `BoundedHolds`: the counter is exactly the bytes
  of the batches that exist, and passes the limit only for a single confirmed
  batch. The counter alone is not inductive: the proof carries `Chain`, that the
  queued batches' end offsets run from `taken` to `sent` without a gap, so the
  bytes of the queue are a difference of two numbers and need no sum over a
  sequence; and `Holds`, what each thread holds in each of its states. That a sole
  batch of the full count leaves the queue empty then follows from the chain.
- `CountIsExact`: the same with the sum written out. `QueuedBytes` is the recursive
  function that adds the queue up; `QueueAdded` shows that along the chain it is the
  difference of the two ends, counting up as in `ArchiveProofs`.
- `EofHolds`: the child sees EOF only after all that was accepted, from `Order`:
  accepted is delivered, then the current batch, then the queue.
- `WriterIsStream`: the queue refines `InputStream`. A `try_send` that succeeds maps
  to the stream's accepting, a write to its delivering, an error or the worker's
  return to its end, and every other step stutters; `Order` makes what is written the
  next that was accepted, and `Chain` that nothing between is skipped.

`ArchiveWritebackProofs`, for any members, names, saves, writes and extractions:

- `LocatorsHold`: outside a write the index is that of the archive on disk. The
  invariant is `Phases`: a write is in its worker or its outcome in the queue, never
  both and never two, a read only of an archive that isn't mounted, so the archive is
  replaced only while the mount is on its way out.
- `EditsHold`: an edit saved to a copy spyc knows is pending, held or written, unless
  its copy could not be moved. The
  property says nothing of a write half done, so the invariant follows the edit
  through it: `Safe` (where it is, mounted or not, that no extraction is to land over
  it, and while the archive is read again that the read brings back nothing that would
  pass for it), and that it `IsLate` (it will be held when the write lands) or
  `Carried` (the plan takes it from its copy, then the packed archive, then the one on
  disk has it). The re-read restores it because bytes equal to it would mean that it
  is in the archive already.
- `JournalLandsHolds`: from `WriteFits`, that the plan, the packed archive and the
  written one have the members the journal says, which rests on the journal's
  deletions and additions standing still while the archive is written, and from the
  same `Carried`.

`ArchiveProofs` on `ArchiveTable`, for any archives, columns, cap and number of reads and writes:

- `EvictionHolds`: a landing evicts none that `Protected` has, however many mounts are
  past the cap (the run's instance gets one past it at most).
- `CleanHolds` and `FreshHolds`: from `StuckOrLeft`, which says of every tree, mounted
  or not, what the two properties say of mounted ones: an archive is mounted over
  whatever lies at its path by then.
- `WrittenHolds`: carried by `ReadsUnmounted` (a landing replaces no mount, so it can't
  take one that is being written) and `SavedMounted`.
- `JoinersHold` is inductive as it stands.

`ArchiveProofs` on `ArchiveJournal`, for any names, indexes, paths and bounds, however
many changes are pending:

- `JournalTypeHolds`, `PlanHolds`, `RowsHold`, `ListingHolds`, from one invariant,
  `JournalInv`. None of the three properties is inductive: each follows from what the
  journal does to every member's place. `MadeIsLive` says that what the user made is
  the members there are, each at its `Effective` path with its copy; `AllClear` that
  each rename was clear of a member's place when it was made, so that `OriginalOf`
  undoes it (`OrigUndoes`); `Rooted` that a member is at the top or in what another is
  shown as; `KeysApart` that stored keys and additions do not meet. Each holds as long as
  nothing `odd` that breaks it happened.
- One lemma per operation (`RenameKeeps`, `AddKeeps`, `CopyKeeps`, `DeleteKeeps`,
  `TakeOutKeeps`). A rename is one change more at the end of each trail, so what it does
  to a place is what it does to the member there. Taking an addition out drops changes
  from the middle: `KeptSame` shows that a key none of the dropped renames moves is where
  it was, which is where `unadded` has to be excluded.
- `ListingHolds` also needs that what can be walked to is every member with a row
  (`RowsAreAll`), by going up from a member to the root. Its hypothesis, that what an
  entry is in is a directory, is not one of the module's: an archive may store both a
  file `a` and a file `a/b`, and nothing leads to the second.
- `PlainHolds`: with no rename pending, and none dropped with an addition, the plan and
  the rows are right with no exclusion at all. Of `odd`, all but `unadded` needs a rename
  in the journal (`OddsAreRenames`), and `unadded` one that was there.
- `Trail`, `BackTrail`, `KeptWithout` and `Rows` are recursive functions over `0..n`.
  That the function there is, and only one, is proved by counting up: of the numbers
  where a claim fails one is the least (`Least`, from the well-foundedness of `<` on the
  naturals), and it is neither 0 nor one more than a number where the claim holds
  (`UpTo`).

`ScopeRegistryProofs`, for any owners, projects, overlaps and number of calls:

- `TypesHold`, `IdsUnique` (the new id is above every id there is), `NoStaleOwner`.
- `MergesExclude`: no two agents merge overlapping paths at once unless a release
  dropped a claim that was not its caller's. An agent told that all is clear
  merges later than it was told, so the invariant is not inductive: the proof
  carries `HasClaim`, that an agent told of its claim has it in the registry until
  its own release is served, which rests on requests being served in the order
  they were made (`Queues`) and on waits being parked only for open or closed
  owners that asked (`Waiters`).
- `NoLostWakeup`: when the loop blocks, every parked wait is in conflict and armed.

`SessionsProofs`, for any number of spycs, tabs and files:

- `RestoreNeverSplits`: no restore brings a spyc into a conversation that another
  running one is in and has saved. What a restore sees is files, so the invariant is
  `FileIsBase`, that the file of a spyc with nothing to save says what it runs. It
  rests on `OneWriter` (two running spycs write one file only after a clash), `Born`
  and `PickFirst` (a file is named after a spyc that has started, and none keeps
  records before its restore), and on `Numbered`: a new conversation is in no file.
- `CleanIsSaved`: `FileIsBase` again, with `Capped`: a spyc that has saved misses its
  file only when the others have filled the cap. A prune happens at a save that leaves
  the cap full, so the order of the files (`Latest`, `Excess`) never shrinks below it.
- `SavedTabsStay`: an action property, from an invariant about where each saved tab is
  safe (`Held`): in a file whose running owners all have it among their tabs or
  records, so that their next save writes it again (or two write the file, which is
  excused). A restore that adopts a file opens
  all of it but what another running spyc is in; that one has it in its own file
  (`OwnTabs`), which no one else writes (`Writer`).

`GitStatusProofs`, for any columns, directories, repositories and tries:

- `NeverAnotherRepository`: carried by the cache, which is of the column's repository
  whenever the column is in one; a column outside keeps its cache but shows nothing.
- `NeverStampedNewer`: carried by `WalkInOrder` and `AnswersInOrder`. A walk reads its
  key before the index, and keys only grow, so what it read is no older than the key
  it is stamped with, whatever git writes meanwhile.
- `NeverTakenForFresh`: markers that are behind have a flag, a key that moved or a walk
  left. The generations decide it: the requests of a column are behind one another in
  the order of their age (`InTurn`, which needs a counter that doesn't wrap within one
  queue), so one at most is the newest (`OneNewest`), and what that one read or will
  read has what was heard of (`HeardOf`). With none on its way, what is shown is the
  status of the key noted (`UpToPoll`).

`PagerStreamsProofs`, for any streams, tabs, keys and history:

- `WaitingAreFed`: a pager that waits has its stream where it will be drained from.
  A swap of two pagers keeps that only if no third one has the id of either, so the
  invariant (`StreamsPaired`) carries that ids are used once, that no other place
  holds a waiting pager's id (`OverlayAlone`, `ScrollAlone`, and between shelves), and
  that nothing in the history waits.
- `FinishedAreWhole`: a view takes its id wherever it goes and what has come from a
  stream only grows, so the set of views fit to be anywhere (`Sound`) only grows, and
  every place holds one of it. The two drains end a grep and a transcript by different
  signs; that each has its own kind before it is `Jobs` and `OverPane`.
- `ScrollbacksStay` and `ParkedHaveOwners`, from one invariant (`Own`): a scrollback in
  view is the active tab's and that tab's shelf is empty meanwhile, or the stash would
  write over a shelf a stream is parked for.
- `SnapshotsReachAskers`: an action property, from `Due`: the place a snapshot was
  asked from is the asker's, as new tabs come at the end only, until one is closed or
  replaced.

`AgentStatusProofs`, for any windows, lifetimes and bounds on what comes:

- `DotNeverStale`: while the loop sleeps the dot is what the state gives afresh. The
  invariant (`DeadlineArmed`) is that the armed deadline comes no later than the first
  flip of what was settled, and that a tick takes no more from a report's time than
  from the deadline. Nothing is assumed of what the reports say, so it holds for any
  agent's hooks.

The other four say that nothing the agent said is lost on its way. What the loop has
taken and what its channel holds is one line of messages (`Line`, served from its
front), and each invariant has the same two cases: what it follows is in the line with
nothing behind it that ends it (`Behind`), or the tab has it with nothing in the line
that ends it. A key can be taken out of the middle of the line, as the loop handles it
before the reports of its burst.

- `QuestionsNeverDrop` (`QuestionInv`): an open question is in the line, or among the
  tab's pending ones with the report in force blocked, and behind it are only messages
  that leave that block (`Spares`): keys, which do not settle a question, other
  questions and their answers, reviews, the agent's own `blocked`. Past `PendingLimit` the tab has the overflow mark in its place.
- `EveryAskRung` (`RungInv`): an ask that nothing was rung for has found the agent not
  blocked when last notified, and is coming. A served report leaves `notified` alone,
  so the settle that follows sees the edge, and no loop sleeps before that settle.
- `TurnsHeard` (`TurnInv`) is the lemma of the next two, and of interest by itself:
  `turnOpen` as it will be once the line is served is the agent's own turn, but that
  Claude Code may end one silently; a `waiting` is held in an open turn only, and in
  force outside of one only.
- `PendingWorkIsShown` (`PendingInv`): the wait the agent last spoke of is in the line,
  in force, or held for the end of the turn, and at most one end of a turn is behind
  it.
- `FinishedTurnIsShown` (`OwedInv`): the end of the turn is in the line, in force, or
  remembered as unseen. The end is not shown as done if a wait is left to take it for
  the end of something else, so it rests on `ClearInv`: an agent other than Claude Code
  that announced nothing leaves, once the line is served, no wait at all.

The assumptions are the named `ASSUME`s of the modules: types and finiteness, that the
placeholders (`None`, `Blank`, `Respawned`) are none of the values they stand beside,
and that the git generation has more values (2^64 in the code) than there are requests
at a time. Type correctness is proved (`TypeCorrect`, `TypesHold`, `JournalTypeHolds`, and `TypeInv` or
its like within the other invariants), so no run repeats it.

Every invariant and every action property of a passing run is a theorem. Only the
liveness properties (`SendReturns`, `AcceptedArrives`, `WriteReturns`, `WaitsEnd`,
`Converges`, `LoadsEnd`, `FormsShown`) are model-checked alone: they need fairness and
`ENABLED`, which the prover does not have.

## Not modelled

The map covers a small part of the repository's lines. Most of them are drawing,
widgets, key tables, file formats, parsers of agents' logs, bindings to a terminal
engine and tests, and the models are of the parts where several actors meet.

- *Rendering, widgets, key dispatch, prompts*: pure functions of state, or tables of
  single-step handlers; the handlers the modules need are modelled there.
- *Archive formats, transcripts, agent HUDs, git models, syntax, skills*: parsers of
  bytes, tested by examples and fuzz targets; a model would restate them.
- *Terminal engine*: a binding to a vendored library.
- *Captures and tasks*: what matters is how the OS orders an exit, the end of a pipe
  and the reaping; the code only observes it.
- *File watcher*: which events come is the notifier's; what the loop makes of one is in
  `GitStatus`.
- *Graveyard, worktrees, file operations*: OS and git calls in sequence on one thread,
  with the user behind each.
- *MCP proxy and socket*: the nested deadlines are constants that a test compares
  (`mcp/deadline.rs:68`); the framing is I/O. The call path with its time-outs and late
  answers is in `ScopeRegistry`.
- *Projects*: a switch moves whole structures between maps and shares no state with a
  worker that the modules do not have; `drop_project` is in `ScopeRegistry`, leaving
  and coming back in `GitStatus`.
- *Configuration, Lua*: files parsed and rewritten, and an interpreter.

Within the modelled components: the copies' bytes, `[archive]` budgets, links,
passwords, names that differ only in case, and what a mount was asked for (`then`);
a nested read under way while its outer archive is written; the scope claims a
restore brings back (claims made since the save are lost,
`app/session_restore.rs:193`) and connections bound to no tab; a tab's conversation
that is known only later, the split and closed projects in session files; mtime
granularity, the branch string and deleted files' ghosts in git status; task viewers,
right-column pagers, pickers and pane zoom around pager streams. `PROJECT.json` lists
every component with what is left of it, and the hazards no property covers.

## Plan

All modules of the plan are written, in this order: `PtyInput` and `InputStream`,
`ArchiveWriteback`, `ScopeRegistry`, `ArchiveJournal`, `ArchiveTable`, `Sessions`,
`GitStatus`, `PagerStreams`, `AgentStatus`. What would add most next:

1. The archive modules composed: `ArchiveWriteback` as a refinement of a map from
   names to contents that is replaced atomically, and `ArchiveTable`'s mounts with
   what is inside them.
2. The claims of `ScopeRegistry` through a restore, composed with `Sessions`.

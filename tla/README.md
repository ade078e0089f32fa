# RimStudio in TLA+

RimStudio is a desktop application for RimWorld modders: a Rust backend of layered crates, a Preact
user interface and thin shells around them. This project models the parts of the backend whose
correctness rests on the order of steps: several threads, several processes, a crash between two
changes of the disk, a person who edits a file by hand. TLC checks each model on small instances,
TLAPS proves the properties that matter most for every value of the constants.

Paths below are relative to the repository; `-io` stands for `crates/rimstudio-io/src`, `-app` for
`crates/rimstudio-app/src`, `-toolkit` for `crates/rimstudio-toolkit/src`, `-manager` for
`crates/rimstudio-manager/src`, `-library` for `crates/rimstudio-library/src`, `-core` for
`crates/rimstudio-core/src`, `-devserver` for `crates/rimstudio-devserver/src`, `ipc` for
`apps/desktop/src/shared/ipc`.

## 1. The system

### Layers

| Layer | Crates | State that outlives a call |
|---|---|---|
| domain | core, ipc-types | none: types, parsers, the node tree |
| infrastructure | io, xml, platform | files: atomic writes, settings, collections, backups; collection indexes in memory |
| engines | xpath, defs, design | none: pure pipelines and formulas |
| services | library, workspace, steam | scan manifest, immutable session snapshots |
| features | manager, toolkit | settings files, drafts, project records, undo journals |
| application | app | job registry, workspace hub, library handle, current settings |
| shells | cli, devserver, desktop shell, user interface | event streams, the task centre |

A command reaches `dispatch` of the application crate by name, from the desktop shell, the
development bridge or the command line tool. Short commands run on the calling thread; long ones are
jobs: the caller chooses an id, the job runner starts the work on a blocking thread and sends events
to the caller's sink. The work calls the manager or the toolkit, which read and write through the
io crate. Two shells may be open on the same data folders, so files are shared between processes
too; locks are per process.

### Components, their operations and what is hard about them

| Component | State | Operations | What is hard | What makes it correct |
|---|---|---|---|---|
| Job runner (`-app/jobs.rs`) | registry of entries by id, one emitter, token and sink per run, a condition variable | spawn, report, cancel, cancel_all, end, status, wait_terminal, wait_idle, drop | an id may be reused, a sink may be closed, notify happens outside the lock, the clock moves back | a run owns its entry until it recorded its end; ended entries are final; events come in order with one end; nobody sleeps through an answer; every run ends |
| Layout fix (`-toolkit/project/fix_apply.rs`, `journal.rs`, `undo.rs`, `-io/rename.rs`) | the project on disk, `LoadFolders.xml`, an undo journal | apply the chosen items of a plan, undo a journal | a crash between a change and its record, pairs of items, other programs | no content is lost; a stopped apply can be undone; undo gives everything back |
| Plan apply of the designer (`-toolkit/designer/plan.rs`, `apply.rs`, `patch_remove.rs`, `shared/writer.rs`) | the files of a project, backups, a report | export a plan, apply it, remove a generated patch | no lock: other programs and other applies change the files between the looks; a file fails in the middle | only what the plan found is replaced, and it is backed up; a gate never stands without its patches; the answer names all that was changed |
| Link of a project (`-library/deploy`, `-io/fence.rs`) | an entry in the game's Mods folder, its ownership record | create, remove, inspect | a crash between the record and the entry, a person at the folder, two processes | what the program made is recorded; what a person put there is not touched |
| Workspace hub (`-app/workspace.rs`, `-app/api`, `-manager/detect.rs`) | the built context, its key, a generation; overrides, report, library | bump, designer_ctx, write_env and the calls that change what they read | an input changes while a plan reads it; the lock is held while it builds; the scan inside the plan bumps | a context the next call returns unseen has the key of now; every call returns |
| Document arena (`-core/tree/arena.rs`) | slots with generations, links, a free list, a cached numbering | create, append, insert, replace, detach, remove, clear, clone, import, compare, axes | slots are used again, a batch can fail in the middle, the numbering is older than the tree | it is an ordered forest; a freed handle never names a node again; comparisons follow document order |
| Document collection (`-io/collection.rs`) | a file per document, a quarantine, an index in memory and on disk | put, get with a lazy migration, delete, scan, list, rebuild_index | reads without the lock, the index and the documents change in two steps | unreadable bytes are kept; newer documents are kept; a listing tells the truth |
| Atomic replacement (`-io/atomic.rs`) | target, temporary and aside names | write, cleanup of leftovers | crashes and losses of power between any two calls | a confirmed write stays; only a cleanup can tear or lose a copy |
| Settings store (`-io/store.rs`, `-manager/settings.rs`, `ctx.rs`) | one settings file, its backups, its copy from before a migration | load, save, edit, ensure_file | each call opens a store of its own; hand edits in between | a file that could not be read is not replaced; what is replaced is backed up; an update keeps the other settings |
| Task centre (`ipc/jobs.ts`, `client.ts`, `-devserver/events.rs`, `rpc.rs`) | a table of rows, calls bound to jobs, a queue of events for each stream | trackCall, finish, applyEvent, dismiss, clear; broadcast, connect | events and answers travel apart, a stream breaks or is dropped, jobs of other pages | an ended job keeps its outcome; in the end nothing is shown as running but a job whose last event was lost |
| Manifest writer (`-library/cache.rs`) | a pending manifest, the last write | offer, poll, flush | a write that fails | the newest manifest is written in the end |
| Backup retention (`-io/backup.rs`) | dated copies | rotate, select_keep | day and count limits | the newest copies stay |

The remaining parts (XML, XPath, the def pipeline, the item formulas, Steam files, the scanner, what
a designer's plan says, the user interface's components) are pure functions, single calls or view code;
`PROJECT.json` lists each with the reason it is not modelled.

## 2. The modules

| Module | Kind | Models |
|---|---|---|
| `Jobs` | model | the job runner |
| `JobPromise` | abstract specification | what the runner promises of one run: registry state and events |
| `ProjectTree` | operators | trees of files and the file system steps on them |
| `LayoutFix` | model | the apply, the journal and the undo, over `ProjectTree` |
| `PlanApply` | model | applies of designs and of removals, over the shared writer |
| `Deploy` | model | the entry of a project in the Mods folder, its record and the write fence |
| `Hub` | model | the workspace hub and the calls that change what it is built from |
| `Arena` | model | the mutable document |
| `Forest` | abstract specification | the ordered forest the arena implements |
| `Collection` | model | the collection, its quarantine and its index |
| `AtomicWrite` | model | one file's replacement and the cleanup |
| `Store` | model | one settings file and the calls that change it |
| `TaskCentre` | model | the page's table of jobs, the event stream and the answers |
| `MCJobs`, `MCLayoutFix`, `MCPlanApply`, `MCDeploy`, `MCHub`, `MCArena`, `MCCollection`, `MCStore`, `MCTaskCentre` | instances | symmetry, requests, projects and plans for TLC |
| `JobsProofs`, `LayoutFixProofs`, `PlanApplyProofs`, `HubProofs`, `ArenaProofs`, `ArenaOrderProofs`, `CollectionProofs`, `StoreProofs` | proofs | 37 theorems, see section 5; `CollectionProofs` is also about `AtomicWrite`, `JobsProofs` about `TaskCentre`, `LayoutFixProofs` about `Deploy` |

How they fit together: `Collection`, `Store`, `LayoutFix` and `PlanApply` treat the write of a file as
one step, and `AtomicWrite` shows what is below that step. `Hub` saves `workspace.jsonc` in one step,
and `Store` shows what is below that. `TaskCentre` starts where `JobPromise` ends: it takes the events
of a run in the order promised there. `LayoutFix` starts with any project of a constant set, a tree
with its plan; the planner is not modelled, but what it promises of its plans is an operator of the
module, `PlannerPromise`, which TLC evaluates for the plans checked. `PlanApply` makes its plans itself.

### Jobs

A *run* is one call of `spawn` with all it creates. The registry maps ids to entries, and the
emitter of a run finds its entry by id, while its cancel token is found by reference; the model keeps
this difference, since a later run may have the same id. Every critical section of the registry
mutex, every send to a sink and every `notify_all` is one action. The emitter's own mutex is held
from the first to the last step of one report, so one program counter per run is enough. The wall
clock moves to any value at any time. Labels and messages are left out; a progress record is its
number.

| Actions | Code |
|---|---|
| `Spawn`, `SendStarted`, `MarkStarted`, `Schedule`, `StartWork` | `JobRunner::spawn`, the thread pool |
| `HoldReport`, `OfferReport`, `SendReport`, `MarkReport` | `Emitter::report`, `RateLimiter::offer`, `deliver` |
| `Return`, `Flush`, `MarkFlush`, `RecordTerminal`, `SendTerminal`, `MarkTerminal`, `Notify` | `run_job`, `Emitter::terminal` |
| `Cancel`, `CancelAll`, `Status` | the calls of the same names |
| `BeginWait`, `CheckOrSleep`, `TimeOut` | `wait_terminal`, `wait_idle` |
| `BeginDrop`, `FinishDrop` | `Drop`, `shutdown_background` |
| `SetClock`, `DropSink` | the environment |

`JobPromise` is what a client may rely on: for each run, the registry goes from running to cancelling
to one end to gone, and the events are one start, rising progress and at most one terminal event
that agrees with the recorded end. `Jobs` implements it under the mapping `Reg`
(property `KeepsPromise`).

### LayoutFix

The project is a tree of paths; a file's content is its identity. `LoadFolders.xml` is a set of
listed folders. The apply takes the chosen items in order; before each change of the disk, and after
it, the journal is written. A move of a file is two steps, a hard link and the removal of the old
name, as `move_path` does them; a move of a folder is one rename. When the removal fails, or there is
nothing to remove any more, the link is taken back, or both names stay when that fails too (`FailItem`,
`LoseSource`, `FailBack`). What cannot be read when the apply begins has no hash in the journal
(`NewItem`). The undo first computes all its steps from the journal and the disk (`Preflight`) and then
carries them out, checking each again. It may start at any moment, also beside an apply that runs: nothing
in the code keeps it from that.
Another program writes a file in place (`EditFile`, through all its names), saves one by renaming a new
file over it (`SaveFile`, under one name), deletes one, adds one, or edits `LoadFolders.xml`. A content
it deletes or writes over is not `owned` any more. Crashes, failing calls and these changes are bounded
by constants. Two history variables serve the exceptions of the properties: `exposed` has what another program
put under one of the two names that a file has in the middle of its move (`HalfMoves`), and `concurrent` tells
that an undo started while an apply ran. Every path a tree names
has its folders in the tree (`Closed`), as on any file system; every step keeps that, which is part of
the proof of `FixLosesNothing`. The two loops of the checks, over the items and over the folder moves, are
recursive functions (`Reversed`, `Carried`).

`PlannerPromise` is what `fix.rs` gives every plan with a gate. The gate comes before all moves, file moves
before the move of a legacy folder, that one before the renaming of its entry, which requires it
(`build`, `finish`); the patches go below the gated folder to free places, and the legacy folder to a free
place (`Ctx::place`, `legacy_drafts`); everything else has its places elsewhere, in the standard folders
(`folder_case` and `missing_standard_folders` of `check.rs`).

### Collection

Each thread has a program counter; it holds the write lock exactly while the counter is in `Locked`.
The first read of a `get` and the reads of a `scan` happen without the lock, and what they read is
acted on later. Contents are current, older, newer, unreadable or oversized. The index is a set of at
most one map in memory and one in the file; up to `EagerLimit` rows the file is written at once.

### AtomicWrite

A write is a number, a file holds the bytes of one write, whole or torn. A loss of power may undo
changes of the folder since it was last synced and tears any file that was not synced. The cleanup
looks at the leftovers in any order, and its age limit is any prefix of the writes. `Written` and `Moved`
are the two changes of a file's names; the module's definitions carry `File` or `file` in their names
(`FileSpec`, `fileVars`), so that one proof module can extend it beside `Collection`.

### Store

A call opens its own store, so the state of the store is part of the call's record. Calls of
`settings.jsonc` edit one setting in the text on disk; calls of `workspace.jsonc` save the whole
document they loaded. A text is a version (current, older, newer, undecodable, unparsable) and a value
for each setting.

### PlanApply

A job is one review and one apply of a request: a design with its files, or the removal of a generated
patch. A text is what the program's own sections say and whether anything stands outside them. The
apply rebuilds the plan, compares its id with the reviewed one, checks every file and then writes the
files in the order of their kinds, assets and defs first, `LoadFolders.xml` last. Nothing is locked, so
each look at a file, its backup, the second look and the replacement are steps of their own, between
which another program or another job may act.

| Actions | Code |
|---|---|
| `Review`, `Rebuild`, `Refuse` | `designer_export_plan`, the rebuilt plan and its id in `apply.rs` |
| `Preflight`, `Cancel` | the check of all files before the first write; the cancel token is polled before each file |
| `BeginFile`, `LeaveAlone`, `BackUp`, `LastLook`, `Replace`, `Verify` | `GuardedWriter` (`writer.rs`, `copy.rs`, `remove.rs`), the read back of `apply.rs` |
| `Fail`, `Finish`, `Crash` | errors, the report |
| `EditFile`, `EditSource` | other programs |

`Rebuild` and `Preflight` are one step each: a file is compared again before its own write, so a change
in between shows there; files a plan leaves unchanged are only compared in the preflight. Refusals that
depend on what is left out (a path outside the project, a plan with errors, a text that cannot be
merged) may happen at any such point. Backups of one day are all kept.

### Deploy

One name in the Mods folder, which several projects may want. A process makes one call at a time (the
process wide lock); record and entry are shared by all processes, and a person may change the entry at
any moment. `Begin`, `DecideCreate`, `PutRecord`, `MakeLink`, `CheckFree`, `StartCopy`, `FinishCopy`,
`FailCopy` and `Forget` are the create of `ops.rs` and the fence's part of it (`fence.rs:418-531`);
`DecideRemove`, `Seed`, `CheckOwned`, `TakeAway` and `FailTake` the remove; `Crash` and `ByHand` the
environment. The entry carries who had a hand in it, which no code sees. The specification is
`LinkSpec`, so that one proof module can extend it beside `LayoutFix`. Left out: targets that cannot
be resolved, projects that already are in the Mods folder, and the reasons of a refusal, which may
happen whenever the code has one.

### Hub

Inputs are the overrides and sources in `workspace.jsonc`, the cached detection report, the library
snapshot, and on the disk the game's version and the presence of Combat Extended. `Update`, `DetectRun`,
`Sources` and `Scan` are the handlers that change an input; each changes it and bumps the generation in
steps of their own. `Designer` takes the context as it is if the generation did not move (`TakeCached`),
else it takes the lock and plans: `ReadWorkspace`, `ReadReport` (a detection when there is none),
`ReadLibrary` (a scan inside the plan when there is no snapshot), `ReadAgain`, and then confirms the
context under the same key or builds a new one under the generation it read before it planned.
`WriteEnv` reads the same without the lock. `Upgrade` and `MoveMod` change the disk. The revision
check of settings, the link of machines and the Steam folder are left out.

### Arena and Forest

One owner, so a call is an action, and a refused call is a stutter. A handle is a slot with the
generation it was given out for; a freed slot is recycled unless its generation is the last one.
`Create`, `AppendNew`, `AppendChildren`, `PrependChildren`, `InsertBefore`, `InsertAfter`,
`ReplaceWith`, `Detach`, `RemoveNode`, `ClearChildren`, `SetTextContent`, `DeepClone`, `FailBuild` and
`PrepareOrder` are the calls of `arena.rs` that change it; `Less`, `Following` and `Preceding` are its
reads. A successful import is a sequence of creations and links, so only the failing one, which frees
what it took, is an action. The free list is a set: which slot a creation takes is left open.
The loops over a batch are `LinkAll` and `UnlinkAll`, one node after the other.
`Capacity` and `MaxGeneration` stand for the limits of `u32`. `Forest` has names, children and the set
of names ever given out; a batch moves into one place, but its order inside the run is not part of it.

### TaskCentre

A job is a number in the order of the starts; the row of a call of this page carries the job's number
until the first event binds it to a job (`Resolve`). Each handler of the page is one action, since they
run one after the other. The pipe holds what is in the hub's queue and what is on its way; a broadcast
to a full queue drops the stream, a break loses a part of the pipe, and the page connects again. An
answer is given after the last event was broadcast, and may be applied before it.

| Actions | Code |
|---|---|
| `StartHere`, `AnswerCall`, `Fail` | `call` of `client.ts` with `trackCall` and `finish` |
| `StartElsewhere` | a job of another page, or of a command not yet known to be a job |
| `Report`, `End`, `Refuse` | `rpc.rs`, `dispatch_blocking_with`, `EventHub::broadcast` |
| `Connect`, `Break` | `serve_events`, `EventSource` |
| `Apply`, `Dismiss`, `ClearFinished` | `applyEvent`, `dismissJob`, `clearFinishedJobs` |

## 3. The runs

| Run | Instance | States | What it shows |
|---|---|---|---|
| `jobs_reuse_window` | 1 id, 2 runs, no waiter, 1 thread, clock 0..1, 2 reports | 671 thousand | a run owns its entry although the id is reused, ended entries stay ended, the newest record goes out before the end, `JobPromise` is implemented |
| `jobs_live` | 2 ids, 2 runs, 1 waiter, 1 thread | 164 thousand | no lost wake up; every run ends and every waiter returns, under fair threads |
| `fix` | two projects of 4 items each, 2 failures, 2 crashes, 1 foreign change | 1.05 million | no content lost, patches stay gated, a stopped apply can be undone, undo restores, with the exceptions the properties name |
| `plan_apply` | an asset, a patch and `LoadFolders.xml`; 2 jobs, each a design or a removal; 1 upset | 891 thousand | only what the plan found is replaced, and it is backed up; the gate stands beside its patches; the answer names all changes |
| `deploy` | 2 processes, 2 projects, 3 calls, 3 upsets | 372 thousand | what the program made is recorded; what a person put there is touched only in the fence's window |
| `hub` | 2 threads, 3 calls, 1 upset | 627 thousand | a context returned unseen has the key of now; every call returns, under fair threads |
| `arena` | 4 slots, generations 0 and 1, lists of at most 2 nodes | 29 thousand | the arena is an ordered forest, a freed handle stays stale, comparisons follow document order |
| `collection` | 2 ids, 2 threads, 3 calls, 1 upset | 2.0 million | newer and unreadable documents kept, listings tell the truth, only a scan misjudges |
| `collection_scan` | 1 id, 2 threads, 2 calls, no upset | (stops at the violation) | the finding of section 4 |
| `atomic_write` | 3 writes, 4 failing calls, 2 crashes or losses of power | 1.4 million | confirmed writes stay; only a cleanup tears a target or loses a copy |
| `store` | 2 callers, 2 settings, 2 values, 3 calls, 1 upset | 3.7 million | nothing unreadable replaced, what is replaced is backed up, updates keep the other settings |
| `task_centre` | 2 commands, 2 jobs, 2 records each, a queue of 1, 2 upsets | 1.1 million | an ended job keeps its outcome; in the end nothing is shown as running but what lost its last event |

### Why the bounds are enough

*Jobs.* Everything the runner does for a run goes through the entry of its id. Two runs under one id
meet every case of reuse: a duplicate while the first lives, a replacement after a prune, a late
delivery of the first on the entry of the second. One blocking thread makes the second run wait in
the queue. A clock with two values passes the retention window and comes back, and two reports give a
sent record with a held one that supersedes it. The waiter has a run of its own: with an id used
again, or a clock that never settles, nothing more could be promised to it.

*LayoutFix.* Every initial state of the one run picks a project. The two plans hold every kind of item, a
pair of items, two items on one destination folder, two edits of one file and a folder move that
carries an earlier move's result along. Two crashes reach an undo that is started again after a crashed
undo; one failure and one foreign change at any step are enough for a step that finds the disk other
than it was checked, and a second failure for a take back that fails as well, or for two items that cannot
be read. The other program may put a file over a folder the plan moves something into. Once an undo
started beside the apply and another program changed something, no property says anything of this state or a
later one, so the search stops there (`Explored`); with no change by another program, all that two such actors
do is explored.

*PlanApply.* One file of each kind that the order of the writes tells apart. Two jobs meet as two
designs, two removals and one of each; the third actor, another program, has the one upset, or an error
or a crash takes it. Each property names one job, one file of it and one disturbance.

*Deploy.* The calls of one process follow each other, so a second process brings every overlap. Three
calls are a create, a remove and a create of another project; three upsets are a crash, a hand that
changes the entry and a failing call in one behaviour.

*Hub.* A stale context needs a plan, a change of an input beside it and a call that returns the context:
two threads and three calls. The requests change each kind of input, one of them in two steps.

*Arena.* Four slots hold a parent with three children or a chain with a sibling, and each is used twice
before it is retired, so a handle, a list and the numbering can all name a slot that holds another
node by now. A list of two is the shortest whose second element can fail.

*Collection.* Interference needs a reader without the lock and a writer under it: two threads. Two ids
with an `EagerLimit` of one reach both modes of the index file. Both threads' values have the same
size, the hard case of the check by size.

*AtomicWrite.* A leftover of an interrupted write, an aside file of a second and a third write on top
of both are the longest chain the cleanup distinguishes. Four failing calls fail the rename of two
writes together with the cleanup of what they left.

*Store.* Two calls overlap and a third finds what they left. Two settings are the edited one and
another; all upsets share one budget, since each property speaks of one call's write.

*TaskCentre.* A row is mixed up only with another row, so two jobs are enough, of one command or of two,
of this page or of another. A queue of one is full after the first event. Two upsets break the stream
again after it connected again, or break it and refuse a call.

### Fairness

Two runs use it. `jobs_live` assumes weak fairness of each run's own steps and of a woken waiter's check:
the operating system schedules threads, every critical section ends, and the work of a job polls its
token and is finite, which the trait of the work demands. Nothing is assumed of callers, of the
timeouts of waiters, of the clock or of the receiver of events. `hub` assumes weak fairness of each
thread's steps: the same of the threads, and that a detection, a scan and a build come to an end. A
thread that waits for the hub's lock has no step of its own until the lock is free; with finitely many
calls the lock is free from some moment on, and the run says no more than that. No failure, refusal or
change of the disk is ever assumed to happen. `CHECK_DEADLOCK FALSE` stands in the runs where all calls
can be used up; `jobs_reuse_window` does without it, since its clock can always move.

## 4. Findings

`collection_scan`: a scan judges a document without the lock and moves whatever is there later into the
quarantine, a valid new document too (`-io/collection.rs:1006`, against lines 31 and 34). `get` reads
again under the lock (lines 490 to 497), the scan does not.

Observed while modelling, and left in the models as they are, without a run of their own:

*Jobs*

- A refused delivery marks the entry of its id: after retention and reuse of the id that is another
  run's entry, which then says cancelling although nobody cancelled it (`-app/jobs.rs:325` and 193).

*Layout fix*

- After a crash between the hard link and the removal of the old name, the undo refuses the journal
  (`-io/rename.rs:109-111`, `undo.rs:239`), while `docs/features/mod-layout.md:315` says that a crash at
  any point leaves a journal an undo can use. `StoppedCanUndo` excepts that state by name (`HalfMoved`). The
  same state is left without a crash, when the removal of the old name fails and the link cannot be
  taken back either (`rename.rs:103-112`), and the second name can travel on with the folder it lies in.
- A crash in the middle of an undo leaves a journal that lists reversed items as done, and a second
  undo refuses it (`undo.rs:258`). A failed move leaves the folders it created (`journal.rs:60`).
- A pair of a gate and a patch is not undone as one (`mod-layout.md:309`), and an undo that is refused
  midway stops midway (`undo.rs:381`).
- A file is moved by a link and a removal (`rename.rs:103-112`). What another program saves under the old
  name in between, by renaming a new file over it as many editors do, is deleted by the removal; and what is
  put under the new name is deleted when the link is taken back. `docs/features/mod-layout.md:273` says that
  the apply never deletes content. `NothingLost` excepts these contents by name (`exposed`).
- What an item moves may be unreadable when the apply begins: then the journal has no hash of it
  (`fix_apply.rs:230-233`), the item fails or, for a folder that can be read later, gets its hash then, and as
  long as it has none the undo refuses the whole journal as damaged (`undo.rs:210-215`), all other items
  included, against `mod-layout.md:315`. `StoppedCanUndo` excepts such a journal (`Unhashed`).
- An undo may start on the journal of an apply that is still running (`undo.rs:383-404`); only the page keeps
  the two apart. Each then acts on checks that the other makes stale: the project may be left half restored, a
  patch without its gate, and the next write of the apply's journal takes back "The apply was undone"
  (`journal.rs:76`). `UndoRestores` and `PatchIsGated` except this by name (`concurrent`). `NothingLost` holds
  there as long as no other program interferes. TLC showed that it needs that: with a delete and an edit by
  another program in between, the apply and the undo remove one name each of the same file.

*Plan apply*

- The id of a plan leaves out what the files hold now (`plan.rs:362-379`), and a removed file has an
  empty text in it (`patch_remove.rs:206`). A patch that is edited between the review and the apply,
  inside what goes away, keeps the id and is removed, with a backup, although
  `docs/adr/0060-remove-generated-patch.md:11` says that a file changed since the plan is not
  overwritten. The rebuilt plan found the edited text, so `PlannedAndKept` holds.
- A dry apply whose read back fails loses the report (`apply.rs:370`). A file whose verification fails
  is answered as not written although its bytes are on the disk.
- A file that is changed and changed back between the backup and the last look passes. Two backups of
  one file in the same millisecond can choose one name. Between the last look and the rename another
  program's text can still be replaced (`writer.rs:381`); `PlannedAndKept` excepts what was changed in
  that moment.

*Link of a project*

- Two processes that create the same name: the loser deletes the winner's record (`ops.rs:230`), so
  `AlwaysRecorded` speaks of calls that do not overlap.
- An interrupted copy stays as a recorded folder without a marker, which create and remove both refuse;
  a failed copy whose cleanup fails leaves a partial copy without a record.
- A create writes into a folder or a link that appears after the check that the name is free. A link
  made by hand that equals the recorded one is removed as if the program had made it
  (`ops.rs:282-284`, against `inspect.rs:21-22`).

*Hub*

- The key leaves the overrides out, so after a change of an override that does not change the report or
  the library the old context, with its old write fence, is confirmed (`workspace.rs:73-78`, against
  line 9, "a changed override or a newly added mod folder rebuilds them", and line 287). `KeyFresh`
  speaks of the key alone; `denied`, what the fence protects, is in the model and no property
  constrains it.
- A context that was built while the game could not be found stays until an input changes
  (`workspace.rs:203-247`, 400-412).
- Two overlapping scans may take the same revision (`-app/context.rs:215-237`, against the comment at 176).
  A path change that is refused after an earlier one of the same call was saved, a failed or cancelled
  scan and the detection `write_env` runs itself change inputs without a bump
  (`api/settings.rs:266`). `expectedRev` is compared with a view that was read before the update
  (`api/settings.rs:254`).

*Collection, atomic writes, settings*

- The write back of a `get` creates a document again that was deleted in the meantime
  (`collection.rs:503` and 651, against line 28).
- An index row can be stale for a document rewritten with the same size between a crash and the next
  listing (`collection.rs:85`); `ListingMatches` excepts these documents by name.
- A cleanup can complete a torn temporary file and delete both good copies (`atomic.rs:227`, against line
  187); `OnlyCleanupTears` and `CopyLostOnlyToCleanup` say that nothing else can. A leftover of an
  interrupted write brings a deleted document back at the next cleanup (`atomic.rs:216`).
- A newer or undecodable settings file that appears between load and save is replaced by the save
  (`store.rs:337`); `UnreadableKept` speaks of what the load or the read found. A `.bak-vN` copy may be
  replaced by an already migrated text when two calls overlap (`store.rs:372`). `ensure_file` replaces
  a file that appears after its test, without a backup (`settings.rs:311`). Overlapping saves of
  `workspace.jsonc` lose one of two changes.

*Task centre*

- The first event of a job is bound to the oldest waiting call of its command, even if the job is another
  call's or another page's (`jobs.ts:65-66` admits it), so the answer of one call can show another job as
  ended until that job's own last event arrives. `OutcomeShown` holds since that event puts it right.
- An answer that comes before any event of its job leaves a second row, and a refused call can leave two.
- A job whose last event was dropped with its stream stays shown as running and cannot be dismissed
  (`TaskCentre.tsx:32`); nothing asks the registry, as `docs/design/ui-inventory.md` (SH-07) would need.
  `NothingLeftRunning` excepts these jobs by name.

## 5. The proofs

The theorems hold for all ids, threads, callers, slots, files, values and bounds that satisfy the named
assumptions on the constants (`JobsAssumption`, `AbsentAssumption`, `CollectionAssumption`,
`PlanAssumption` of `LayoutFix` and of `PlanApply`, `BoundAssumption`, `DefaultAssumption`,
`BoundsAssumption`, `HubAssumption`, `DeployAssumption`, `ArenaAssumption`, `AtomicAssumption`,
`TaskAssumption`), which TLC evaluates in the runs. The only ones that say more than the type of a constant
are those of `LayoutFix`: a project starts as a tree in which every path lies in folders, the items of
its plan that move or create something name a place below the root (`writer.rs` `check_relative`), and
an item requires items of the same plan. No theorem assumes that an undo waits for the apply: where it
matters, the statement itself ends with the first undo that does not. `PatchesGated` alone also assumes `PlannerPromise`
(`PlannerAssumption` of `MCLayoutFix`). Each theorem follows the same way: an inductive invariant holds
initially and is preserved by every action, and the property follows from it, in one step for action
properties.

- **JobsProofs.** `TypeCorrect` needs `OutcomeKnown`, since `RecordTerminal` writes the outcome into the
  registry. `LiveRunOwnsItsEntry` rests on `EntryShape`: an entry is terminal exactly when it has an
  end time, so a prune never removes an entry of a run that has not recorded its end, and a second
  spawn finds it there. `EndIsFinal` follows in one step from the same invariant.
  `NeverSleepsThroughAnswer` adds `WakeInv`: whenever a sleeping waiter could be answered, some run is
  between recording its end and its notify. The answer appears only by a record, which is followed by
  a notify, or by a prune of an entry that already had one.
  `NewestRecordFlushed` rests on `LogInv`, which says for each point of a run how the last record in
  its sink compares with the newest one reported: equal, or older by what the limiter holds back or the
  run has in its hand; and that a refused delivery means a receiver that is gone, so no terminal event
  can follow a gap. `RunnerKeepsPromise` is the refinement of `JobPromise`. Every step of `Jobs` is, for
  each run, one of the promise's registry moves or a stutter, and one of its sends or a stutter
  (`RegMove`, `LogMove`); that the terminal event agrees with the recorded end needs `EndInv`: from the
  record on, the entry of the run says its outcome or is gone, which is also what it is once a later run
  has the id.
  *The task centre.* `EndShown` and `AllEnds` rest on `PageInv`: the events in the pipe say what the backend
  did, in an order in which nothing of a job follows its end (`PipeInv`), and for each job the two rows
  it can have agree with its stage, its answer and what is still to come (`RowInv`). A job whose last event
  is in the pipe or is `lost` is `Unheard`; of the others the row shows the end or is absent.
- **CollectionProofs.** `LockInv` says what a thread under the lock knows: that the file it will move is
  corrupt, that the one it will migrate over is older, that the one it deletes by moving is oversized.
  Other threads cannot change files while the lock is held, and another program changes them only
  while it is free, so what was read under the lock stays true. `NewerDocumentsKept`,
  `MigrationNeverReplacesCurrent` and `QuarantineMisjudgedOnlyByScan` follow in one step.
  `UnreadableNeverLost` adds `KeptInv`: only a write, a delete and another program make a content
  disappear; a thread at its write knows that nothing unreadable is under it, the others account for
  what they take. `ServedListingMatches` adds `ListInv`: the rows a reader would believe (of the index in
  memory, or of its file while there is none) are true of every document but the stale ones, named by the
  model, and the one whose write is done and whose row is not; that one has a lock holder who knows
  what it wrote.
  *The file below.* `FileInv` says of every state the disk may fall back to, not only of the one seen: the
  target is whole and not older than the last confirmed write, or is a leftover that a cleanup
  completed; some file is a whole copy of that write or a later one, or the same excuse holds; and names
  carry the number of their write, so nobody takes another write's file. Between its steps the writer knows
  of its own files what a loss of power cannot undo. `ConfirmedStays`, `TornOnlyByCleanup` and `CopyStays`
  are parts of it.
- **LayoutFixProofs.** Both theorems about the fix are proved for all that happens until an undo starts
  while the apply runs: their invariants have the form `concurrent \/ Inv`, and `concurrent` never becomes
  false again (`ConcurrentStays`). Until then an undo runs only while no apply does (`UndoInv`).
  `FixLosesNothing`: no step of an apply or an undo, no failure, no crash and no change by another program
  loses a content the user has and that is not `exposed`, for any plan, wanted or foolish. Creating folders,
  linking and listing lose nothing. Between the two halves of a move, what either name shows is in another
  file as well unless it is exposed (`Shared`), so the name that goes does not matter; a change by another
  program keeps that, since it exposes what it puts under one name and writes in place through both
  (`ChangedPlace`). A rename loses nothing because the tree is closed, the destination is free and in
  folders, and does not lie below the source (`MoveInv`); that it takes the files along without merging two
  of them is the lemma `RenamedSound`, which rests on lemmas about paths (`PrefixChain`, `RebaseBack`,
  `RebasedAncestors`). The proof attempt found what the model had wrong: a folder was created, and a file
  or folder moved, where a file lay in the way or into itself, and a failed move always took its link back.
  `PatchesGated` holds of the plans the planner makes. A patch has two *spots*, its gated place and where a
  legacy folder takes it; everything else an item does is `Clear` of both (`OthersClear`). The invariant
  `GateInv` has five parts. `ShapeInv` says how the journal goes with the chosen items, and that their order
  and requirements are the plan's. `PlaceInv`: a file at a spot has an entry in the journal with its content,
  and while the legacy folder stands at its new place the old one is gone and its move is in the journal.
  `TextInv`: while a patch is at a spot, `LoadFolders.xml` lists the gated folder, or the entry was renamed and
  the legacy folder has left; and a renaming knows the gated text as the one before it. For an undo that runs,
  `UndoPlace` says that the legacy folder goes back before anything goes back into it, and `UndoText` that the
  gate is taken back only after the patch, and the legacy folder only after its entry
  (`RestoredLast`, `RestoredFirst`). That the steps of an undo have this order when it starts, whatever was
  interrupted, an undo too, is proved of `Reversed` by induction over the number of items it has seen, as a
  set of numbers (`FoldAll`, with `FoldInv` for what holds of the steps planned so far): a patch that stands at
  a spot is found by the checks and goes back (`PatchReversed`), the folder that carried it too
  (`LegacyReversed`), and so does the text if the renaming is what it shows (`RenameReversed`).
  Of `Deploy`: `PersonStays` follows from `quiet`, which says of a process that nobody changed the entry
  since the fence looked: a quiet process acts on exactly what it saw. `MadeIsRecorded` needs that a
  create records its entry before it makes it, that the name was free when it decided, and that no other
  process forgets the record in between, which is what `overlapped` excludes. `TypeCorrect` is proved and
  not run.
- **StoreProofs.** `StoreInv` adds to the types what each call remembers: a call past its load is not
  blocked unless it only reads, what it loaded is of a version it can save, what it will write is the
  text it read last with its own setting changed, and what it read when it rotated is in the backups,
  which never shrink. No clause speaks of the file on disk, which others may change at any time; that
  is why the properties are about what the call read, and why they survive every interleaving.
  `UnreadableNeverReplaced`, `ReplacedHasBackup` and `OthersStay` are consequences for the step that
  replaces the file.
- **HubProofs.** `KeyAlwaysFresh` rests on three facts. What a planning thread read of an input is at
  most as old as the generation it read before it began, or the change that came since still has its
  bump to make (*news*). Every step that changes an input leaves news, which only the bump after it
  removes. And while the lock is held nobody else replaces the context, so the built generation stays
  below the generation until the plan ends. `TypeCorrect` is proved and not run.
- **ArenaProofs.** `HandlesDated` says that no handle was ever given out for a free slot at its present
  generation. A freed slot gets the next generation before it is free, and a slot of the last one is
  never free again, so `StaleStays` follows: a creation takes a free or a new slot, and every old handle
  of it has a smaller generation.
  `LinksStaySound` rests on the invariant `Linked`: links of nodes lead to nodes, each agrees with its
  counterpart (`NearEnds`, `NearSides`), a slot without a node is blank, and *no* set of slots is closed
  under the parent link or under the next link (`NoCycle`), which says without paths that every walk
  ends; and `Places` says where the slots with nodes, the free ones and the count are. The primitives
  are `Joined` and `Parted`, for one link each. What makes a batch legal is `BatchFits`: the listed
  slots are roots, and none of them is above the place they go to, since a listed root above it
  would be what `root_of` finds there. A copy mirrors its original link by link (`CopyGood`). What a walk,
  a `Subtree` or a loop over a batch reaches is proved by induction over a *set* of numbers, the ones
  for which the statement holds (`Induction`), which needs no operator as a parameter.
  `TypeCorrect` needs, for the cached numbering, that a walk in document order ends (`TourOnce`): the step
  from a slot goes down to its first child or up through last children to a next sibling (`AdvanceIs`), and
  no two slots have the same step, since what was climbed through is below one of them and not the
  other (`ClimbOnce`, `AfterOnce`). A walk without repetition is no longer than there are slots.
  `ForestKept` is the refinement of `Forest`, with the invariant `Linked /\ Past`. It goes in two stages.
  First the children of a slot as a sequence, the `Chain` from its first child along the next links: a chain
  exists because walks end, is unique, and ends in the last child. Each primitive changes one chain, by one
  slot put in or taken out, and leaves the others (`JoinedChain`, `PartedChain`); a loop over a batch does
  so slot by slot and leaves the whole batch as one run. Then the names (`KeepsForest` is about those): since a slot has one
  generation at a time, names of different nodes differ (`NamesApart`), names of nodes that stay do not
  change, and new ones were never given out (`FreshNames`, from `Past`), so what is true of chains is true
  of the lists of names, and what is below a slot is below its name (`BelowIs`). Each call is then one step
  of `Forest`; a refused build and the numbering are stutters.
- **ArenaOrderProofs.** `ReadersKeepOrder` is about what the readers compute, `Less`, `Following` and
  `Preceding`, against document order as `DocBefore` defines it: a node before what is below it, and what is below a child before what
  is below a later one. First this is a strict order of each tree, total on it (`Ordered`, `Leads`), over
  any family of children and of what is below. One `Advance` leads from a node to the next in that order
  (`AdvanceFollows`) and one `Backward` step to the one before (`BackPrecedes`), so that a walk along
  either yields all of the rest, each once, in turn (`LinedSpans`, `PreOrderInTurn`): that gives `FollowingIs` and,
  without what is above, `PrecedingIs`, and that the number of a node is its place (`NumbersDecide`).
  `order_slow` compares two climbs to the root, aligned at the end: where they first have the same parent
  the nodes are siblings or roots, whose order decides that of everything below them (`ClimbsMeet`,
  `MeetDecides`), and where they never differ one node is above the other (`AboveDecides`). The invariant
  is `Linked /\ Fresh`: a cached numbering is that of the present links. A creation keeps the cache since the
  new slot is linked to nothing; the copy of a single node is the one other case (`LoneCopy`).
- **PlanApplyProofs.** `ApplyInv` says of each job that the file in hand is as it was last seen unless the
  job is marked as raced, that its backup is there unless it is marked as stirred, that the files it
  finds and writes have the shape of its plan, that patches are written before the gate, and that what
  it changed is among what it will name. A step of anybody else that changes the file in hand marks the
  job. `OnlyPlanned`, `GateLast` and `NothingUnnamed` are read off it.

Only model-checked: liveness (`EveryRunEnds`, `EveryWaiterReturns`, `EveryCallReturns`), which the prover
cannot express with fairness; `NothingLost` once an undo runs beside the apply; `UndoRestores` and
`StoppedCanUndo` of `LayoutFix`, which compare the whole tree with the outcome of a whole plan:
`PlannerPromise` speaks of the gated folder only, and they need as much of every pair of items.

## 6. What is left out

File systems without hard links, where a move falls back to a plain rename (`-io/rename.rs`); two undos
of one project at once; programs that move files of a project;
messages, labels and elapsed times; the text layout and comments of settings files; names that differ
by letter case, links and volume boundaries in projects; the limits on the number of backups and
journals; id syntax; the creation of the collection folder and its bulk writes without fsync; attributes
and texts of nodes; what a designer's plan contains.

Most of the source is outside the models, since its difficulty is not in the order of steps. The
engines (XPath, the def pipeline, the item formulas, the Combat Extended generator), the parsers (XML, VDF,
JSONC), the validators and the command line are functions of their input, with thousands of cases each
that say what RimWorld and its mods mean: a model of them would be the code again, and their tests
compare with recorded data. The domain crates are types. The user interface beside the task centre
renders what commands return. `PROJECT.json` gives the reason for each component.

## 7. Plan

Done: the job runner with its promise, the layout fix, the plan apply, the link of a project, the workspace
hub, the document arena with the abstract forest, the collection, the atomic replacement, the settings
store, the task centre; proofs about all of them.

Next, in this order:

1. `ManifestWriter` (`-library/cache.rs`): the debounced writer with failing writes and a moving clock. A
   failed write loses the pending manifest (line 585); the promise to state is that the newest manifest
   reaches the disk unless a write failed after it was offered.
2. `BackupRetention` (`-io/backup.rs`): `select_keep` as an operator against a definition by ranks, over
   all small sets of dated copies, and `rotate` by two processes.
3. The settings handler with its revision check as a caller of `Store`, and the hub over it, so that a
   lost update shows as a context built from it.
4. Proofs: the promises of the planner about any two items, from which `StoppedCanUndo` and `UndoRestores`
   follow.
5. The pure parts with a short definition and a long implementation: the inheritance of defs and the
   order of patch operations in the def pipeline, duplicates in the library index.

----------------------------- MODULE LayoutFix -----------------------------
(* The layout fix of a mod project: the apply that carries out the selected *)
(* items of a reviewed plan, the undo journal it keeps in the data root,    *)
(* and the undo that reverses it, with a crash possible between any two     *)
(* changes of the disk (rimstudio-toolkit project/fix_apply.rs, journal.rs, *)
(* undo.rs). Another program may change the project in between.             *)
(* Optional values (Option in the code) are sets of at most one element.    *)
EXTENDS ProjectTree

CONSTANTS
    Projects,    \* the projects: records [plan, tree, text, intruded]
    MaxFaults,   \* bound: file system operations that fail
    MaxCrashes,  \* bound: crashes of the apply or the undo
    MaxForeign   \* bound: changes made by another program

Kinds == {"create-folder", "move-file", "move-folder", "gate", "rename-entry"}
MoveKinds == {"move-file", "move-folder"}
EditKinds == {"gate", "rename-entry"}

\* What the planner promises of a plan with an item g that gates the Combat Extended folder (fix.rs). The
\* patches that need the gate go below the folder, to places that are free. At most one folder move, the
\* one of a legacy name, takes the folder to a free place, after every file move; the entry is renamed
\* after that and only with it. Nothing else touches either place.
Apart(p, q) == ~IsPrefix(p, q) /\ ~IsPrefix(q, p)
Gates(plan) == {g \in DOMAIN plan : plan[g].kind = "gate"}
Patches(plan, g) == {i \in DOMAIN plan : plan[i].kind = "move-file" /\ g \in plan[i].requires}
Legacy(plan, g) == {f \in DOMAIN plan : plan[f].kind = "move-folder" /\ plan[f].from = plan[g].to}
Renames(plan) == {r \in DOMAIN plan : plan[r].kind = "rename-entry"}
Moves(plan) == {i \in DOMAIN plan : plan[i].kind \in MoveKinds}
FileMoves(plan) == {i \in Moves(plan) : plan[i].kind = "move-file"}

PlannedOrder(plan, g) ==
    /\ Gates(plan) = {g} /\ \A i \in Moves(plan) : g < i
    /\ \A r, r2 \in Renames(plan) : r = r2
    /\ \A f \in Legacy(plan, g) :
         (\A i \in FileMoves(plan) : i < f) /\ \A f2 \in Legacy(plan, g) : f = f2
    /\ \A r \in Renames(plan) : \E f \in Legacy(plan, g) : f \in plan[r].requires /\ f < r

PlannedPlaces(plan, onDisk, g) ==
    LET places == {plan[g].to} \cup {plan[f].to : f \in Legacy(plan, g)}
    IN  /\ \A i \in Moves(plan) : plan[i].from \in DOMAIN onDisk
        /\ \A i \in FileMoves(plan) : plan[i].from \in Files(onDisk)
        /\ \A i \in Patches(plan, g) :
             /\ IsPrefix(plan[g].to, plan[i].to) /\ plan[i].to # plan[g].to
             /\ plan[i].to \notin DOMAIN onDisk
        /\ \A f \in Legacy(plan, g) : plan[f].to \notin DOMAIN onDisk /\ Apart(plan[f].to, plan[g].to)
        /\ \A i \in DOMAIN plan \ (Patches(plan, g) \cup Legacy(plan, g)) : \A place \in places :
             /\ plan[i].kind \in MoveKinds \cup {"create-folder"} => Apart(plan[i].to, place)
             /\ plan[i].kind = "move-folder" => Apart(plan[i].from, place)

PlannerPromise ==
    \A p \in Projects : \A g \in Gates(p.plan) :
        PlannedOrder(p.plan, g) /\ PlannedPlaces(p.plan, p.tree, g)

ASSUME PlanAssumption ==
    \A p \in Projects :
        /\ p.plan \in Seq([kind : Kinds, from : Seq(STRING), to : Seq(STRING), requires : SUBSET Nat])
        /\ \A i \in DOMAIN p.plan :
             /\ p.plan[i].requires \subseteq DOMAIN p.plan
             /\ p.plan[i].kind \in MoveKinds \cup {"create-folder"} => p.plan[i].to \in Path
        /\ Closed(p.tree) /\ p.intruded \subseteq Path
ASSUME BoundAssumption == MaxFaults \in Nat /\ MaxCrashes \in Nat /\ MaxForeign \in Nat

Foreign == "foreign"   \* what another program writes

VARIABLES
    project,    \* the project the fix is for
    tree,       \* the project on disk, LoadFolders.xml excepted
    text,       \* LoadFolders.xml on disk
    journal,    \* the journal on disk: {} or {[state, items]}
    apc, queue, n, mem, finished,  \* the apply: program point, chosen items, position,
                                   \* its copy of the journal, the items finished
    cancel,     \* the cancel token of the apply job
    upc, umem, steps, k,           \* the undo: program point, the journal it read, its steps,
                                   \* the next one
    faults, crashes, foreign,      \* what the bounds count
    owned,      \* history: the file contents the user has, those of StartTree and what came after them
    exposed,    \* history: the ones of these that another program put under one of the two names a file
                \* has in the middle of its move
    concurrent  \* history: an undo started while the apply was running

\* The plan: a sequence of items; the items that edit LoadFolders.xml list the folder `to` (gate) or
\* rename the entry `from`. The project when the plan was made, without LoadFolders.xml, and that file
\* then: {} or {set of listed folders}. The paths where another program may put a file.
Plan == project.plan
StartTree == project.tree
StartText == project.text
Intruded == project.intruded

disk == <<tree, text>>
applying == <<apc, queue, n, mem, finished>>
undoing == <<upc, umem, steps, k>>
budget == <<faults, crashes, foreign, owned, exposed, concurrent>>
vars == <<project, disk, journal, applying, cancel, undoing, budget>>

ApplyRuns == apc \notin {"idle", "ended", "dead"}
UndoRuns == upc \in {"run", "linked", "moved", "reversed"}

\* choose(): the selected items, without those that need an item that is not among them.
Chosen(selected) ==
    UNION {S \in SUBSET selected : \A i \in S : Plan[i].requires \subseteq S}

\* new_item(): what the journal knows of an item before anything changes. What is to be moved has no hash
\* when it cannot be read.
NewItem(i, unread) ==
    LET item == Plan[i]
        top == MissingTop(tree, item.to)
    IN  [id |-> i, kind |-> item.kind, to |-> item.to, status |-> "pending",
         from |-> IF item.kind = "create-folder"
                  THEN IF top = {} THEN item.to ELSE CHOOSE p \in top : TRUE
                  ELSE item.from,
         hash |-> IF item.kind \in MoveKinds /\ item.from \in DOMAIN tree /\ i \notin unread
                  THEN {HashTree(tree, item.from)} ELSE {},
         top |-> IF item.kind \in MoveKinds THEN top ELSE {},
         before |-> {}, after |-> {}]

Init ==
    /\ project \in Projects
    /\ tree = StartTree /\ text = StartText /\ journal = {}
    /\ apc = "idle" /\ queue = <<>> /\ n = 1 /\ mem = [state |-> "started", items |-> <<>>]
    /\ finished = {} /\ cancel = FALSE
    /\ upc = "idle" /\ umem = mem /\ steps = <<>> /\ k = 1
    /\ faults = 0 /\ crashes = 0 /\ foreign = 0
    /\ owned = {tree[p] : p \in Files(tree)} /\ exposed = {} /\ concurrent = FALSE
-----------------------------------------------------------------------------
(* The apply. *)

Item == Plan[queue[n]]
Entry == mem.items[n]

\* The plan order of S: there is one.
Ordered(S) == {q \in [1..Cardinality(S) -> S] : \A i, j \in DOMAIN q : i < j => q[i] < q[j]}

\* Every change of the apply's copy is written to disk at once.
Journaled(row) ==
    /\ mem' = [mem EXCEPT !.items[n] = row]
    /\ journal' = {mem'}

\* apply_with() up to the first journal write. The plan is built again: a project that changed since
\* the review is refused (nothing happens).
BeginApply(selected) ==
    /\ apc = "idle" /\ tree = StartTree /\ text = StartText /\ ~cancel
    /\ Chosen(selected) # {}
    /\ \E order \in Ordered(Chosen(selected)) : queue' = order
    /\ \E unread \in SUBSET (Chosen(selected) \cap Moves(Plan)) :
         /\ faults + Cardinality(unread) <= MaxFaults /\ faults' = faults + Cardinality(unread)
         /\ mem' = [state |-> "started", items |-> [i \in DOMAIN queue' |-> NewItem(queue'[i], unread)]]
    /\ journal' = {mem'}
    /\ apc' = "next"
    /\ UNCHANGED <<project, disk, n, finished, cancel, undoing, crashes, foreign, owned, exposed, concurrent>>

\* The loop head: the job observes its cancel token between items only.
EndApply ==
    /\ apc = "next" /\ (n > Len(queue) \/ cancel)
    /\ mem' = [mem EXCEPT !.state = IF n <= Len(queue) THEN "cancelled" ELSE "complete"]
    /\ journal' = {mem'}
    /\ apc' = "ended"
    /\ UNCHANGED <<project, disk, queue, n, finished, cancel, undoing, budget>>

\* Mutant of PartnerMissing: a patch moves although its gate failed.
PartnerIgnored == FALSE

\* An earlier item this one needs was carried out before it and is not finished.
PartnerMissing ==
    \E r \in Item.requires : (\E j \in 1..n - 1 : queue[j] = r) /\ r \notin finished

CarryOut == apc = "next" /\ n <= Len(queue) /\ ~cancel /\ ~PartnerMissing

\* Outcome::Skipped, Err, and a partner that was not applied: recorded, and the next item.
Record(status) ==
    /\ Journaled([Entry EXCEPT !.status = status])
    /\ n' = n + 1 /\ apc' = "next"
    /\ UNCHANGED <<queue, finished>>

\* What an edit of LoadFolders.xml would write now (gate_text, rename_entries), {} when it cannot.
NewText ==
    IF Item.kind = "gate"
    THEN IF text = StartText
         THEN {(UNION StartText) \cup {Item.to} \cup (IF StartText = {} THEN {<<>>} ELSE {})} ELSE {}
    ELSE {{IF e = Item.from THEN Item.to ELSE e : e \in t} : t \in text}

SkipItem ==
    /\ apc = "next" /\ n <= Len(queue) /\ ~cancel
    /\ \/ PartnerMissing
       \/ Item.kind = "create-folder" /\ Item.to \in DOMAIN tree
       \/ Item.kind = "gate" /\ NewText # {} /\ NewText = text
       \/ Item.kind = "rename-entry" /\ NewText = text
    /\ Record("skipped")
    /\ UNCHANGED <<project, disk, cancel, undoing, budget>>

\* Runner::run, CreateFolder.
MakeFolder ==
    /\ CarryOut /\ Item.kind = "create-folder" /\ Item.to \notin DOMAIN tree
    /\ CanMake(tree, Ancestors(Item.to))
    /\ tree' = WithFolders(tree, Ancestors(Item.to) \cup {Item.to})
    /\ apc' = "changed"
    /\ UNCHANGED <<project, text, journal, queue, n, mem, finished, cancel, undoing, budget>>

\* Mutant of CheckMove: the hash of a folder stays the one taken before the earlier items.
CheckMoveOldHash ==
    /\ CarryOut /\ Item.kind \in MoveKinds /\ Item.from \in DOMAIN tree
    /\ Item.kind = "move-file" => Entry.hash = {HashTree(tree, Item.from)}
    /\ apc' = "checked"
    /\ UNCHANGED <<project, disk, journal, queue, n, mem, finished, cancel, undoing, budget>>

\* Runner::run, MoveFile and MoveFolder up to move_path. A file must still be the one recorded; what
\* is in a folder now is journaled before it moves.
CheckMove ==
    /\ CarryOut /\ Item.kind \in MoveKinds
    /\ Item.from \in DOMAIN tree
    /\ LET now == HashTree(tree, Item.from)
       IN  \/ /\ Item.kind = "move-file" /\ Entry.hash = {now}
              /\ UNCHANGED <<mem, journal>>
           \/ Item.kind = "move-folder" /\ Journaled([Entry EXCEPT !.hash = {now}])
    /\ apc' = "checked"
    /\ UNCHANGED <<project, disk, queue, n, finished, cancel, undoing, budget>>

RefuseMove ==
    /\ CarryOut /\ Item.kind \in MoveKinds
    /\ \/ Item.from \notin DOMAIN tree
       \/ Item.kind = "move-file" /\ Entry.hash # {HashTree(tree, Item.from)}
    /\ Record("failed")
    /\ UNCHANGED <<project, disk, cancel, undoing, budget>>

\* move_path: both paths are checked, then the folders on the way are created. A folder cannot be moved
\* into itself.
MakeParents ==
    /\ apc = "checked" /\ Item.from \in DOMAIN tree /\ Item.to \notin DOMAIN tree
    /\ ~IsPrefix(Item.from, Item.to)
    /\ CanMake(tree, Ancestors(Item.to))
    /\ tree' = WithFolders(tree, Ancestors(Item.to))
    /\ apc' = "parents"
    /\ UNCHANGED <<project, text, journal, queue, n, mem, finished, cancel, undoing, budget>>

\* move_path of a file: a hard link first, which fails when the name exists or its folder went.
LinkFile ==
    /\ apc = "parents"
    /\ Item.from \in Files(tree) /\ Item.to \notin DOMAIN tree /\ InFolders(tree, Item.to)
    /\ tree' = Linked(tree, Item.from, Item.to)
    /\ apc' = "linked"
    /\ UNCHANGED <<project, text, journal, queue, n, mem, finished, cancel, undoing, budget>>

UnlinkFile ==
    /\ apc = "linked" /\ Item.from \in Files(tree)
    /\ tree' = Unlinked(tree, Item.from)
    /\ apc' = "changed"
    /\ UNCHANGED <<project, text, journal, queue, n, mem, finished, cancel, undoing, budget>>

\* The old name is gone, so its removal fails, and the link is taken back.
LoseSource ==
    /\ apc = "linked" /\ Item.from \notin Files(tree)
    /\ tree' = TakenBack(tree, Item.to)
    /\ Record("failed")
    /\ UNCHANGED <<project, text, cancel, undoing, budget>>

\* move_path of a folder: one rename.
RenameFolder ==
    /\ apc = "parents"
    /\ Item.from \in DOMAIN tree \ Files(tree) /\ Item.to \notin DOMAIN tree /\ InFolders(tree, Item.to)
    /\ tree' = Renamed(tree, Item.from, Item.to)
    /\ apc' = "changed"
    /\ UNCHANGED <<project, text, journal, queue, n, mem, finished, cancel, undoing, budget>>

\* Runner::edit: the journal knows the edit before the file does.
JournalEdit ==
    /\ CarryOut /\ Item.kind \in EditKinds /\ NewText # {} /\ NewText # text
    /\ Journaled([Entry EXCEPT !.before = text, !.after = NewText])
    /\ apc' = "journaled"
    /\ UNCHANGED <<project, disk, queue, n, finished, cancel, undoing, budget>>

\* GuardedWriter::write_expecting: a last look at the previous text, then the bytes go down.
CheckText ==
    /\ apc = "journaled" /\ text = Entry.before
    /\ apc' = "expected"
    /\ UNCHANGED <<project, disk, journal, queue, n, mem, finished, cancel, undoing, budget>>

WriteText ==
    /\ apc = "expected"
    /\ text' = Entry.after
    /\ apc' = "changed"
    /\ UNCHANGED <<project, tree, journal, queue, n, mem, finished, cancel, undoing, budget>>

\* A step found the disk other than it checked it: a destination that appeared, a source that went,
\* a file where a folder must be, another text in LoadFolders.xml.
RefuseLate ==
    /\ \/ apc \in {"checked", "parents"} /\ (Item.from \notin DOMAIN tree \/ Item.to \in DOMAIN tree)
       \/ apc = "checked" /\ IsPrefix(Item.from, Item.to)
       \/ apc = "parents" /\ ~InFolders(tree, Item.to)
       \/ (apc = "checked" \/ (CarryOut /\ Item.kind = "create-folder")) /\ ~CanMake(tree, Ancestors(Item.to))
       \/ apc = "journaled" /\ text # Entry.before
       \/ CarryOut /\ Item.kind = "gate" /\ NewText = {}
    /\ Record("failed")
    /\ UNCHANGED <<project, disk, cancel, undoing, budget>>

\* A file system operation fails. The link of a file whose source cannot be removed is taken back
\* when it can be; an edit fails before its bytes go down, or after, when they cannot be read back.
FailItem ==
    /\ faults < MaxFaults
    /\ \/ CarryOut /\ UNCHANGED disk
       \/ apc \in {"checked", "parents", "journaled", "expected"} /\ UNCHANGED disk
       \/ apc = "linked" /\ tree' \in {TakenBack(tree, Item.to), tree} /\ UNCHANGED text
       \/ apc = "changed" /\ Item.kind \in EditKinds /\ UNCHANGED disk
    /\ Record("failed")
    /\ faults' = faults + 1
    /\ UNCHANGED <<project, cancel, undoing, crashes, foreign, owned, exposed, concurrent>>

RecordDone ==
    /\ apc = "changed"
    /\ Journaled([Entry EXCEPT !.status = "done"])
    /\ finished' = finished \cup {queue[n]}
    /\ n' = n + 1 /\ apc' = "next"
    /\ UNCHANGED <<project, disk, queue, cancel, undoing, budget>>

\* The process dies, or the journal cannot be written: nothing more is done.
CrashApply ==
    /\ ApplyRuns /\ crashes < MaxCrashes
    /\ apc' = "dead" /\ crashes' = crashes + 1
    /\ UNCHANGED <<project, disk, journal, queue, n, mem, finished, cancel, undoing>>
    /\ UNCHANGED <<faults, foreign, owned, exposed, concurrent>>

Cancel ==
    /\ ~cancel /\ cancel' = TRUE
    /\ UNCHANGED <<project, disk, journal, applying, undoing, budget>>
-----------------------------------------------------------------------------
(* The undo. *)

MoveBack(item) == [op |-> "move-back", from |-> item.from, to |-> item.to,
                   hash |-> item.hash, top |-> item.top]

\* The place of `path` after the folder moves of the undo's list, which has the latest first.
Carried(moves, path) ==
    LET at[m \in 0..Len(moves)] ==
            IF m = 0 THEN path
            ELSE LET move == moves[Len(moves) + 1 - m] IN Rebase(at[m - 1], move.from, move.to)
    IN  at[Len(moves)]

\* move_step(): reverse the move when its destination, wherever later moves took it, holds exactly
\* what was recorded and the source is free; nothing to do when the source never left. A journal without the
\* hash is taken for damaged.
ReverseMove(item, acc) ==
    LET loc == Carried(acc.later, item.to)
        held == loc \in DOMAIN tree
        same == held /\ item.hash = {HashTree(tree, loc)}
        back == item.from \in DOMAIN tree
    IN  CASE same /\ ~back ->
               [acc EXCEPT !.steps = Append(@, MoveBack(item)),
                           !.later = IF item.kind = "move-folder" THEN Append(@, MoveBack(item)) ELSE @]
          [] item.hash # {} /\ ~same /\ back /\ item.status # "done" -> acc
          [] OTHER -> [acc EXCEPT !.ok = FALSE]

\* Mutant of ReverseEdit: an edit the journal still lists as pending never happened.
ReverseDoneEdit(item, acc) ==
    IF item.status = "done"
    THEN [acc EXCEPT !.steps = Append(@, [op |-> "restore", text |-> item.before, now |-> item.after])]
    ELSE acc

\* The edit of LoadFolders.xml, seen through the edits reversed before it.
ReverseEdit(item, acc) ==
    LET now == acc.text
    IN  CASE item.after = {} -> acc
          [] item.after # {} /\ now = item.after ->
               [acc EXCEPT !.steps = Append(@, [op |-> "restore", text |-> item.before, now |-> now]),
                           !.text = item.before]
          [] item.after # {} /\ now # item.after /\ now = item.before -> acc
          [] OTHER -> [acc EXCEPT !.ok = FALSE]

ReverseItem(item, acc) ==
    CASE ~acc.ok \/ item.status = "skipped" -> acc
      [] acc.ok /\ item.status # "skipped" /\ item.kind \in MoveKinds -> ReverseMove(item, acc)
      [] acc.ok /\ item.status # "skipped" /\ item.kind \in EditKinds -> ReverseEdit(item, acc)
      [] OTHER -> IF item.status \in {"done", "pending"}
                  THEN [acc EXCEPT !.steps =
                           Append(@, [op |-> "remove-folders", to |-> item.to, top |-> item.from])]
                  ELSE acc

\* The items reversed one after the other, the last first.
Reversed(items) ==
    LET acc[m \in 0..Len(items)] ==
            IF m = 0 THEN [ok |-> TRUE, steps |-> <<>>, later |-> <<>>, text |-> text]
            ELSE ReverseItem(items[Len(items) + 1 - m], acc[m - 1])
    IN  acc[Len(items)]

\* preflight(): all checks, last item first, before anything changes.
Preflight(j) ==
    IF j.state = "undone" THEN [ok |-> FALSE, steps |-> <<>>, later |-> <<>>, text |-> {}]
    ELSE Reversed(j.items)

\* undo() up to the end of the checks. Nothing in the code keeps it from an apply that still runs. One undo
\* runs at a time in the model.
BeginUndo ==
    /\ journal # {} /\ ~UndoRuns
    /\ \E j \in journal :
         LET plan == Preflight(j)
         IN  /\ upc' = IF plan.ok THEN "run" ELSE "refused"
             /\ umem' = j /\ steps' = plan.steps
    /\ k' = 1
    /\ concurrent' = (concurrent \/ ApplyRuns)
    /\ UNCHANGED <<project, disk, journal, applying, cancel, faults, crashes, foreign, owned, exposed>>

Step == steps[k]
NextStep == k' = k + 1 /\ upc' = "run" /\ UNCHANGED <<umem, steps>>

\* What the undo and move_path check before a move back: the paths, the content, that the original place
\* is free and can be made.
CanMoveBack ==
    /\ upc = "run" /\ k <= Len(steps) /\ Step.op = "move-back"
    /\ Step.from \in Path /\ ~IsPrefix(Step.to, Step.from)
    /\ Step.to \in DOMAIN tree /\ Step.hash = {HashTree(tree, Step.to)}
    /\ Step.from \notin DOMAIN tree /\ CanMake(tree, Ancestors(Step.from))

\* Mutant of LinkBack: the original place is not looked at again.
ReplaceBack ==
    /\ upc = "run" /\ k <= Len(steps) /\ Step.op = "move-back"
    /\ Step.to \in Files(tree) /\ Step.hash = {HashTree(tree, Step.to)}
    /\ tree' = (Step.from :> tree[Step.to]) @@ WithFolders(tree, Ancestors(Step.from))
    /\ upc' = "linked"
    /\ UNCHANGED <<project, text, journal, applying, cancel, umem, steps, k, budget>>

\* MoveBack of a file: the check and the link, then the removal of the moved name.
LinkBack ==
    /\ CanMoveBack /\ Step.to \in Files(tree)
    /\ tree' = Linked(WithFolders(tree, Ancestors(Step.from)), Step.to, Step.from)
    /\ upc' = "linked"
    /\ UNCHANGED <<project, text, journal, applying, cancel, umem, steps, k, budget>>

UnlinkBack ==
    /\ upc = "linked" /\ Step.to \in Files(tree)
    /\ tree' = Unlinked(tree, Step.to)
    /\ upc' = "moved"
    /\ UNCHANGED <<project, text, journal, applying, cancel, umem, steps, k, budget>>

\* The moved name cannot be removed, or is gone: the link is taken back when it can be, and the undo stops.
FailBack ==
    /\ upc = "linked"
    /\ \/ /\ faults < MaxFaults /\ faults' = faults + 1
          /\ tree' \in {TakenBack(tree, Step.from), tree}
       \/ /\ Step.to \notin Files(tree) /\ UNCHANGED faults
          /\ tree' = TakenBack(tree, Step.from)
    /\ upc' = "refused"
    /\ UNCHANGED <<project, text, journal, applying, cancel, umem, steps, k>>
    /\ UNCHANGED <<crashes, foreign, owned, exposed, concurrent>>

\* MoveBack of a folder.
RenameBack ==
    /\ CanMoveBack /\ Step.to \notin Files(tree)
    /\ tree' = Renamed(WithFolders(tree, Ancestors(Step.from)), Step.to, Step.from)
    /\ upc' = "moved"
    /\ UNCHANGED <<project, text, journal, applying, cancel, umem, steps, k, budget>>

\* The folders the move created go while they are empty.
RemoveCreated ==
    /\ upc = "moved"
    /\ tree' = IF Step.top = {} THEN tree
               ELSE WithoutChain(tree, Parent(Step.to), CHOOSE p \in Step.top : TRUE)
    /\ NextStep
    /\ UNCHANGED <<project, text, journal, applying, cancel, budget>>

RemoveFolders ==
    /\ upc = "run" /\ k <= Len(steps) /\ Step.op = "remove-folders" /\ Step.to \notin Files(tree)
    /\ tree' = WithoutChain(tree, Step.to, Step.top)
    /\ NextStep
    /\ UNCHANGED <<project, text, journal, applying, cancel, budget>>

\* Restore and RemoveFile: the text the apply wrote must be there.
RestoreText ==
    /\ upc = "run" /\ k <= Len(steps) /\ Step.op = "restore" /\ text = Step.now
    /\ text' = Step.text
    /\ NextStep
    /\ UNCHANGED <<project, tree, journal, applying, cancel, budget>>

\* execute() found the disk changed since the checks.
RefuseStep ==
    /\ upc = "run" /\ k <= Len(steps)
    /\ \/ Step.op = "move-back" /\ ~CanMoveBack
       \/ Step.op = "remove-folders" /\ Step.to \in Files(tree)
       \/ Step.op = "restore" /\ text # Step.now
    /\ upc' = "refused"
    /\ UNCHANGED <<project, disk, journal, applying, cancel, umem, steps, k, budget>>

FinishUndo ==
    /\ upc = "run" /\ k > Len(steps)
    /\ journal' = {[umem EXCEPT !.state = "undone"]}
    /\ upc' = "undone"
    /\ UNCHANGED <<project, disk, applying, cancel, umem, steps, k, budget>>

\* The process dies, or an operation that changes nothing fails: nothing more is done.
CrashUndo ==
    /\ UndoRuns /\ crashes < MaxCrashes
    /\ upc' = "dead" /\ crashes' = crashes + 1
    /\ UNCHANGED <<project, disk, journal, applying, cancel, umem, steps, k>>
    /\ UNCHANGED <<faults, foreign, owned, exposed, concurrent>>
-----------------------------------------------------------------------------
(* Another program. *)

\* The two names of a file in the middle of its move. What is put under one of them alone is exposed.
HalfMoves == (IF apc = "linked" THEN {{Item.from, Item.to}} ELSE {})
             \cup (IF upc = "linked" THEN {{Step.from, Step.to}} ELSE {})
Expose(p) == exposed' = exposed \cup {Foreign : names \in {m \in HalfMoves : p \in m}}

\* A file is written in place: the other name a half moved file has shows the same bytes.
EditFile(p) ==
    /\ tree' = [q \in DOMAIN tree |-> IF tree[q] = tree[p] THEN Foreign ELSE tree[q]]
    /\ owned' = (owned \ {tree[p]}) \cup {Foreign}
    /\ IF \A m \in HalfMoves : p \in m => \A q \in m : q \in Files(tree) /\ tree[q] = tree[p]
       THEN UNCHANGED exposed ELSE Expose(p)
    /\ UNCHANGED text

\* A file is saved: written under another name, which is then renamed over the old one.
SaveFile(p) ==
    /\ tree' = [tree EXCEPT ![p] = Foreign]
    /\ owned' = (owned \ {tree[p]}) \cup {Foreign}
    /\ Expose(p)
    /\ UNCHANGED text

DeleteFile(p) ==
    /\ tree' = Unlinked(tree, p)
    /\ owned' = owned \ {tree[p]}
    /\ UNCHANGED <<text, exposed>>

AddFile(p) ==
    /\ p \notin DOMAIN tree /\ InFolders(tree, p)
    /\ tree' = WithFile(tree, p, Foreign)
    /\ owned' = owned \cup {Foreign}
    /\ Expose(p)
    /\ UNCHANGED text

EditText ==
    /\ text # {}
    /\ text' = {t \cup {<<Foreign>>} : t \in text}
    /\ UNCHANGED <<tree, owned, exposed>>

ForeignChange ==
    /\ foreign < MaxForeign
    /\ \/ \E p \in Files(tree) : EditFile(p) \/ SaveFile(p) \/ DeleteFile(p)
       \/ \E p \in Intruded : AddFile(p)
       \/ EditText
    /\ foreign' = foreign + 1
    /\ UNCHANGED <<project, journal, applying, cancel, undoing, faults, crashes, concurrent>>

Next ==
    \/ (\E selected \in SUBSET DOMAIN Plan : BeginApply(selected)) \/ EndApply
    \/ SkipItem \/ MakeFolder
    \/ CheckMove \/ RefuseMove \/ MakeParents \/ LinkFile \/ UnlinkFile \/ LoseSource \/ RenameFolder
    \/ JournalEdit \/ CheckText \/ WriteText \/ RefuseLate \/ FailItem \/ RecordDone
    \/ CrashApply \/ Cancel
    \/ BeginUndo \/ LinkBack \/ UnlinkBack \/ FailBack \/ RenameBack \/ RemoveCreated \/ RemoveFolders
    \/ RestoreText \/ RefuseStep \/ FinishUndo \/ CrashUndo
    \/ ForeignChange

Spec == Init /\ [][Next]_vars
-----------------------------------------------------------------------------
(* Properties. *)

\* Every content the user has is in some file of the project at every moment, whatever is interrupted,
\* refused or changed by another program: moves never overwrite and never drop a file. Two things are
\* excepted: what another program puts under one of the two names that a file has between the two halves
\* of its move (rename.rs:109-111), and changes of another program while an undo runs beside the apply.
NothingLost ==
    (concurrent => foreign = 0) => \A c \in owned \ exposed : \E p \in Files(tree) : tree[p] = c

\* A completed undo of an apply that stopped anywhere gives back every file and LoadFolders.xml; when
\* nothing failed or was interrupted, every folder as well.
UndoRestores ==
    (upc = "undone" /\ ~concurrent /\ foreign = 0) =>
        /\ text = StartText
        /\ Files(tree) = Files(StartTree) /\ \A p \in Files(tree) : tree[p] = StartTree[p]
        /\ (faults = 0 /\ crashes = 0) => tree = StartTree

\* A patch is at its gated place only while LoadFolders.xml lists the gated folder, also halfway
\* through an apply or an undo and after any failure, unless an undo ran beside the apply.
PatchIsGated ==
    \A i \in DOMAIN Plan : \A g \in Plan[i].requires :
        (/\ foreign = 0 /\ ~concurrent /\ Plan[i].kind = "move-file" /\ Plan[g].kind = "gate"
         /\ Plan[i].to \in Files(tree))
            => \E t \in text : Plan[g].to \in t

\* A file has two names (the files of the checked projects differ in content).
HalfMoved == \E p, q \in Files(tree) : p # q /\ tree[p] = tree[q]

\* The journal has an item that moves something and no hash of it.
Unhashed(j) == \E i \in DOMAIN j.items : /\ j.items[i].kind \in MoveKinds /\ j.items[i].hash = {}
                                         /\ j.items[i].status # "skipped"

Stopped == journal # {} /\ apc \in {"ended", "dead"} /\ foreign = 0

\* Wherever an apply stopped, its journal can be undone, unless a file still has both its names or what
\* an item moves could not be read when the apply began and when the item was carried out.
StoppedCanUndo ==
    (Stopped /\ upc = "idle" /\ ~HalfMoved) => \A j \in journal : Unhashed(j) \/ Preflight(j).ok
=============================================================================

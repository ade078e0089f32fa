----------------------------- MODULE PlanApply -----------------------------
(* designer_export_plan and designer_apply_plan (rimstudio-toolkit           *)
(* designer/plan.rs, patch_remove.rs and apply.rs) over the guarded writer   *)
(* (shared/writer.rs, copy.rs, remove.rs).  A job rebuilds the plan that a   *)
(* person reviewed, checks every file, and then writes the files one by one: *)
(* compare, back up, compare again, replace, read back.  No lock is held, so *)
(* other programs and other applies change the same project at any time.     *)
(*                                                                           *)
(* A text is what RimStudio's sections say and whether anything is written   *)
(* outside them; the bytes of an asset are such a text too.  An optional     *)
(* value (Option in the code) is a set of at most one element.               *)
EXTENDS Naturals, FiniteSets

CONSTANTS
    Files,       \* the paths of a plan, as numbers in path order
    Kind,        \* what each is: FileKind
    Jobs,        \* applies; each is reviewed and run once
    Requests,    \* what may be asked for
    MaxUpsets    \* bound: changes by another program, failing steps and crashes

Kinds == {"copy", "defs", "patch", "gate"}    \* gate: LoadFolders.xml

ASSUME PlanAssumption ==
    /\ Files \subseteq Nat /\ IsFiniteSet(Files)
    /\ Kind \in [Files -> Kinds]
    /\ Requests \subseteq [remove : BOOLEAN, backup : BOOLEAN, dry : BOOLEAN]
    /\ MaxUpsets \in Nat

Texts == [section : {"none", "design", "other"}, outside : BOOLEAN]
Held == SUBSET Texts
AtMostOne(s, S) == s \subseteq S /\ \A x, y \in s : x = y

VARIABLES
    disk,        \* the project: what each path holds
    source,      \* the asset that is to be copied into it
    backups,     \* the copies of each path in the backup folder
    job,         \* each job: program point, request, reviewed plan id, rebuilt plan, what is
                 \* left and what is written of it, the file in hand, and the answer's failed file
    raced,       \* jobs whose file in hand somebody else changed since their last look at it
    stirred,     \* jobs whose file in hand somebody else changed since they backed it up
    did,         \* the files each job changed
    disturbed,   \* files last changed by another program, or by taking a section out
    upsets

vars == <<disk, source, backups, job, raced, stirred, did, disturbed, upsets>>
ghosts == <<raced, stirred, did, disturbed>>
-----------------------------------------------------------------------------
(* Plans (plan.rs, patch_remove.rs). *)

\* render_new, merge_into: the design's section, and everything outside kept.
Rendered(held) ==
    IF held = {} THEN {[section |-> "design", outside |-> FALSE]}
    ELSE {[t EXCEPT !.section = "design"] : t \in held}

\* remove_sections: nothing is left of a file without anything outside its sections.
Stripped(held) == {[t EXCEPT !.section = "none"] : t \in {x \in held : x.outside}}

HasSection(held) == \E t \in held : t.section # "none"

\* realize, remove_plan: the files of the plan, what it found in each and what each shall hold.
Plan(request) ==
    [files |-> IF request.remove THEN {f \in Files : Kind[f] = "patch" /\ HasSection(disk[f])}
                                 ELSE Files,
     previous |-> disk,
     text |-> [f \in Files |-> IF request.remove THEN Stripped(disk[f])
                               ELSE IF Kind[f] = "copy" THEN source ELSE Rendered(disk[f])]]

Pending(plan) == {f \in plan.files : plan.previous[f] # plan.text[f]}

\* FileAction
Action(plan, f) ==
    IF plan.previous[f] = plan.text[f] THEN "unchanged"
    ELSE IF plan.text[f] = {} THEN "delete"
    ELSE IF plan.previous[f] = {} THEN "create" ELSE "update"

\* plan_id_of: of what a file held before, only the hash of an asset is part of the id.
PlanId(plan) ==
    [f \in Files |-> IF f \notin plan.files THEN {}
                     ELSE {[action |-> Action(plan, f), text |-> plan.text[f],
                            existing |-> IF Kind[f] = "copy" THEN plan.previous[f] ELSE {}]}]

\* Mutant of WriteRank: the gate is written before the patches.
GateFirst(kind) == CASE kind = "copy" -> 0 [] kind = "defs" -> 1 [] kind = "patch" -> 4 [] kind = "gate" -> 3

\* write_rank
WriteRank(kind) == CASE kind = "copy" -> 0 [] kind = "defs" -> 1 [] kind = "patch" -> 3 [] kind = "gate" -> 4

\* realize sorts by rank and path; the files of a removal are all of one kind.
Ahead(f, g) == \/ WriteRank(Kind[f]) < WriteRank(Kind[g])
               \/ WriteRank(Kind[f]) = WriteRank(Kind[g]) /\ f <= g
-----------------------------------------------------------------------------
PCs == {"idle", "reviewed", "rebuilt", "next", "begun", "backedUp", "looked", "put", "dry",
        "refused", "cancelled", "error", "unread", "report", "dead"}
Plans == [files : SUBSET Files, previous : [Files -> Held], text : [Files -> Held]]
Entries == [action : {"create", "update", "unchanged", "delete"}, text : Held, existing : Held]
Applies == [pc : PCs, request : Requests, id : [Files -> SUBSET Entries], plan : Plans,
            todo : SUBSET Files, written : SUBSET Files, file : SUBSET Files]
NoPlan == [files |-> {}, previous |-> [f \in Files |-> {}], text |-> [f \in Files |-> {}]]

Init ==
    /\ disk \in [Files -> {{}, {[section |-> "none", outside |-> TRUE]}}]
    /\ source = {[section |-> "other", outside |-> TRUE]}
    /\ backups = [f \in Files |-> {}]
    /\ \E request \in Requests :
         job = [j \in Jobs |-> [pc |-> "idle", request |-> request, id |-> PlanId(NoPlan),
                                plan |-> NoPlan, todo |-> {}, written |-> {}, file |-> {}]]
    /\ raced = {} /\ stirred = {} /\ did = [j \in Jobs |-> {}] /\ disturbed = {}
    /\ upsets = 0

At(j, pc) == job[j].pc = pc
Goto(j, pc) == job' = [job EXCEPT ![j].pc = pc]
Upset == upsets < MaxUpsets /\ upsets' = upsets + 1

\* The file in hand (none before the first), what the plan found in it and what it shall hold.
Current(j, f) == f \in job[j].file
Expected(j, f) == disk[f] = job[j].plan.previous[f]
New(j, f) == job[j].plan.text[f]
Deletes(j, f) == New(j, f) = {}

InHand(j) == job[j].pc \in {"begun", "backedUp", "looked", "put"}
Writing(j) == At(j, "rebuilt") \/ At(j, "next") \/ InHand(j)

\* designer_export_plan: the person sees the plan and keeps its id.
Review(j) ==
    /\ At(j, "idle")
    /\ \E request \in Requests :
         job' = [job EXCEPT ![j].pc = "reviewed", ![j].request = request, ![j].id = PlanId(Plan(request))]
    /\ UNCHANGED <<disk, source, backups, ghosts, upsets>>

\* apply_plan: prepare again; a missing asset and a removal that finds nothing are errors of the plan.
Rebuild(j) ==
    /\ At(j, "reviewed")
    /\ LET plan == Plan(job[j].request)
       IN  \/ /\ PlanId(plan) = job[j].id
              /\ plan.files # {} /\ \A f \in plan.files : Kind[f] = "copy" => source # {}
              /\ job' = [job EXCEPT ![j].pc = "rebuilt", ![j].plan = plan, ![j].todo = Pending(plan)]
           \/ Goto(j, "refused")
    /\ UNCHANGED <<disk, source, backups, ghosts, upsets>>

\* apply_built before the first write: paths, flags, contents and the asset; the paths and flags, which
\* are not modelled, may be refused at will.
Preflight(j) ==
    /\ At(j, "rebuilt")
    /\ \/ /\ \A f \in job[j].todo : Expected(j, f) /\ (Kind[f] = "copy" => source = New(j, f))
          /\ Goto(j, "next")
       \/ Goto(j, "refused")
    /\ UNCHANGED <<disk, source, backups, ghosts, upsets>>

\* The token is polled between files: an error while nothing is written, a report afterwards.
Cancel(j) ==
    /\ \/ At(j, "reviewed") /\ Goto(j, "cancelled")
       \/ At(j, "next") /\ job[j].todo # {}
          /\ job' = [job EXCEPT ![j].pc = IF job[j].written = {} THEN "cancelled" ELSE "report",
                                ![j].file = {}]
    /\ UNCHANGED <<disk, source, backups, ghosts, upsets>>

\* write_expecting, copy_in, remove_expecting: the first comparison, of the next file in write order.
BeginFile(j) ==
    /\ At(j, "next")
    /\ \E f \in job[j].todo :
         /\ \A g \in job[j].todo : Ahead(f, g)
         /\ Expected(j, f)
         /\ job' = [job EXCEPT ![j].pc = "begun", ![j].file = {f}]
    /\ UNCHANGED <<disk, source, backups, ghosts, upsets>>

\* Mutant of Written: the file stays among those to be written.
WrittenTwice(j, f) == job' = [job EXCEPT ![j].pc = "next", ![j].written = @ \cup {f}]

Written(j, f) == job' = [job EXCEPT ![j].pc = "next", ![j].todo = @ \ {f}, ![j].written = @ \cup {f}]

\* copy_in leaves a target alone that now holds the asset, remove_expecting a file that is gone.
LeaveAlone(j) ==
    /\ At(j, "begun")
    /\ \E f \in job[j].file :
         /\ disk[f] = New(j, f) /\ (Kind[f] = "copy" \/ Deletes(j, f))
         /\ Written(j, f)
    /\ UNCHANGED <<disk, source, backups, ghosts, upsets>>

\* rotate: a removed file always, a replaced one when the request says so.
BackUp(j) ==
    /\ At(j, "begun")
    /\ \E f \in job[j].file :
         backups' = IF Deletes(j, f) \/ job[j].request.backup
                    THEN [backups EXCEPT ![f] = @ \cup disk[f]] ELSE backups
    /\ Goto(j, "backedUp")
    /\ stirred' = stirred \ {j}
    /\ UNCHANGED <<disk, source, raced, did, disturbed, upsets>>

\* Mutant of LastLook: the file is not compared again after the backup.
NoLook(j) ==
    /\ At(j, "backedUp")
    /\ \E f \in job[j].file : Kind[f] = "copy" => source = New(j, f)
    /\ Goto(j, "looked")
    /\ raced' = raced \ {j}
    /\ UNCHANGED <<disk, source, backups, stirred, did, disturbed, upsets>>

\* The last look before the bytes go down; copy_verified then reads the asset once more.
LastLook(j) ==
    /\ At(j, "backedUp")
    /\ \E f \in job[j].file : Expected(j, f) /\ (Kind[f] = "copy" => source = New(j, f))
    /\ Goto(j, "looked")
    /\ raced' = raced \ {j}
    /\ UNCHANGED <<disk, source, backups, stirred, did, disturbed, upsets>>

\* The jobs that have file f in hand, job j aside.
Sharers(f, j) == {k \in Jobs \ {j} : Current(k, f)}

\* atomic_write, remove_regular_file: whatever stands there now is replaced.
Replace(j) ==
    /\ At(j, "looked")
    /\ \E f \in job[j].file :
         /\ disk' = [disk EXCEPT ![f] = New(j, f)]
         /\ IF Deletes(j, f) THEN Written(j, f) ELSE Goto(j, "put")
         /\ raced' = raced \cup Sharers(f, j) /\ stirred' = stirred \cup Sharers(f, j)
         /\ did' = [did EXCEPT ![j] = IF disk[f] = New(j, f) THEN @ ELSE @ \cup {f}]
         /\ disturbed' = IF job[j].request.remove THEN disturbed \cup {f} ELSE disturbed \ {f}
    /\ UNCHANGED <<source, backups, upsets>>

\* The file is read back.
Verify(j) ==
    /\ At(j, "put")
    /\ \E f \in job[j].file : disk[f] = New(j, f) /\ Written(j, f)
    /\ UNCHANGED <<disk, source, backups, ghosts, upsets>>

\* Mutant of Stop: an error throws the report of the written files away.
StopWithError(j) == Goto(j, "error")

\* An error is the answer while nothing is written; afterwards it is a line of the report.
Stop(j) == Goto(j, IF job[j].written = {} THEN "error" ELSE "report")

\* A comparison that fails.
Refuse(j) ==
    /\ \/ /\ At(j, "next")
          /\ \E f \in job[j].todo :
               /\ \A g \in job[j].todo : Ahead(f, g)
               /\ ~Expected(j, f)
               /\ job' = [job EXCEPT ![j].pc = IF job[j].written = {} THEN "error" ELSE "report",
                                     ![j].file = {f}]
       \/ /\ At(j, "backedUp")
          /\ \E f \in job[j].file : ~(Expected(j, f) /\ (Kind[f] = "copy" => source = New(j, f)))
          /\ Stop(j)
       \/ /\ At(j, "put")
          /\ \E f \in job[j].file : disk[f] # New(j, f)
          /\ Stop(j)
    /\ UNCHANGED <<disk, source, backups, ghosts, upsets>>

\* Any call on a file may fail: its path is refused, a backup, a write or a read does not succeed.
Fail(j) ==
    /\ InHand(j)
    /\ Stop(j)
    /\ Upset
    /\ UNCHANGED <<disk, source, backups, ghosts>>

\* All files are written: the dry apply reads the patches back, and its errors are the job's.
Finish(j) ==
    /\ At(j, "next") /\ job[j].todo = {}
    /\ \/ job' = [job EXCEPT ![j].pc = "report", ![j].file = {}] /\ UNCHANGED upsets
       \/ job[j].request.dry /\ ~job[j].request.remove /\ Goto(j, "unread") /\ Upset
    /\ UNCHANGED <<disk, source, backups, ghosts>>
-----------------------------------------------------------------------------
(* The environment. *)

\* The process of a job dies.
Crash(j) ==
    /\ At(j, "reviewed") \/ Writing(j)
    /\ Goto(j, "dead") /\ Upset
    /\ UNCHANGED <<disk, source, backups, ghosts>>

\* Another program writes, creates or deletes a file of the project.
EditFile(f) ==
    /\ \E held \in {{}} \cup {{t} : t \in Texts} : held # disk[f] /\ disk' = [disk EXCEPT ![f] = held]
    /\ raced' = raced \cup {k \in Jobs : Current(k, f)}
    /\ stirred' = stirred \cup {k \in Jobs : Current(k, f)}
    /\ disturbed' = disturbed \cup {f}
    /\ Upset
    /\ UNCHANGED <<source, backups, job, did>>

EditSource ==
    /\ source' = IF source = {} THEN {[section |-> "design", outside |-> TRUE]} ELSE {}
    /\ Upset
    /\ UNCHANGED <<disk, backups, job, ghosts>>

Step(j) ==
    \/ Review(j) \/ Rebuild(j) \/ Preflight(j) \/ Cancel(j)
    \/ BeginFile(j) \/ LeaveAlone(j) \/ BackUp(j) \/ LastLook(j) \/ Replace(j) \/ Verify(j)
    \/ Refuse(j) \/ Fail(j) \/ Finish(j) \/ Crash(j)

Next == (\E j \in Jobs : Step(j)) \/ (\E f \in Files : EditFile(f)) \/ EditSource

Spec == Init /\ [][Next]_vars
-----------------------------------------------------------------------------
(* Properties. *)

\* The types, and of each job that writes: every pending file is written or left, and the one in hand
\* is left.
TypeOK ==
    /\ disk \in [Files -> Held] /\ source \in Held /\ backups \in [Files -> Held]
    /\ \A f \in Files : AtMostOne(disk[f], Texts)
    /\ job \in [Jobs -> Applies]
    /\ \A j \in Jobs :
         /\ AtMostOne(job[j].file, Files)
         /\ Writing(j) => /\ job[j].todo = Pending(job[j].plan) \ job[j].written
                          /\ job[j].written \subseteq Pending(job[j].plan)
         /\ InHand(j) => job[j].file # {} /\ job[j].file \subseteq job[j].todo
    /\ raced \subseteq Jobs /\ stirred \subseteq Jobs
    /\ did \in [Jobs -> SUBSET Files] /\ disturbed \subseteq Files
    /\ upsets \in 0..MaxUpsets

\* apply.rs: "an edit made by another program after planning is never overwritten", and a replaced or
\* removed file is backed up first. A job replaces only what its plan found, and a copy of that is in
\* the backups, unless somebody changed the file after the job's last look, or after its backup.
PlannedAndKept ==
    [][\A j \in Jobs, f \in Files :
         (At(j, "looked") /\ Current(j, f) /\ job'[j].pc # "looked" /\ disk'[f] # disk[f]) =>
             /\ j \in raced \/ Expected(j, f)
             /\ \/ j \in stirred \/ disk[f] \subseteq backups[f]
                \/ ~Deletes(j, f) /\ ~job[j].request.backup]_vars

\* apply.rs: the gated folder "is only listed in LoadFolders.xml after its patches exist", whatever is
\* cancelled, fails, crashes or runs at the same time: a gate that a plan wrote stands beside patches
\* with the design's section, except those another program or a removal changed later.
GateAfterPatches ==
    \A g, p \in Files \ disturbed :
        (Kind[g] = "gate" /\ Kind[p] = "patch" /\ \E t \in disk[g] : t.section = "design")
            => \E t \in disk[p] : t.section = "design"

\* The files the answer of a job names.
Named(j) ==
    CASE At(j, "report") -> job[j].written \cup job[j].file
      [] At(j, "error") -> job[j].file
      [] OTHER -> {}

Answered(j) == job[j].pc \in {"refused", "cancelled", "error", "report"}

\* apply.rs: a write error "does not throw the report away". Whatever a job changed, its answer names: a
\* refusal and a cancelled job changed nothing, an error at most the file it names, a report covers the
\* rest. The one exception is a dry apply that cannot read a patch back: it loses the report.
AnswerNamesChanges == \A j \in Jobs : Answered(j) => did[j] \subseteq Named(j)
=============================================================================

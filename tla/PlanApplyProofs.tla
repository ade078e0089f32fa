-------------------------- MODULE PlanApplyProofs --------------------------
(* Theorems about PlanApply, for any plans, applies, failures and other      *)
(* programs.                                                                 *)
(*                                                                           *)
(* What a job knows of the file in hand since its last look and its backup,  *)
(* what it knows of the patches of its design, and that it goes through the  *)
(* files in order, is invariant: every step of somebody else that changes a  *)
(* file of the job makes it raced and stirred, or makes the file disturbed.  *)
EXTENDS PlanApply, TLAPS

HasDesign(held) == \E t \in held : t.section = "design"

\* Since its last look, the file in hand is as the plan found it; since its backup, it is backed up.
Looked(j) == At(j, "looked") /\ j \notin raced => \A f \in job[j].file : Expected(j, f)

Safe(j, f) == disk[f] \subseteq backups[f] \/ (~Deletes(j, f) /\ ~job[j].request.backup)

Kept(j) == job[j].pc \in {"backedUp", "looked"} /\ j \notin stirred => \A f \in job[j].file : Safe(j, f)

\* A design: its patches shall hold its section, and those that are not left to write hold it.
IsPatch(p) == Kind[p] = "patch"
Designs(j) == Writing(j) /\ ~job[j].request.remove
Shaped(j) == Designs(j) => \A p \in Files : IsPatch(p) => HasDesign(New(j, p))
Patched(j) ==
    Designs(j) => \A p \in Files \ disturbed : IsPatch(p) => p \in job[j].todo \/ HasDesign(disk[p])

\* The file in hand comes before all that are left.
InOrder(j) == InHand(j) => \A f \in job[j].file, g \in job[j].todo : Ahead(f, g)

\* Where the files that a job changed are to be found.
Accounted(j) ==
    /\ job[j].pc \in {"idle", "reviewed"} => job[j].written = {}
    /\ job[j].pc \in {"idle", "reviewed", "rebuilt", "refused", "cancelled"} => did[j] = {}
    /\ job[j].pc \in {"next", "begun", "backedUp", "looked"} => did[j] \subseteq job[j].written
    /\ job[j].pc \in {"put", "report"} => did[j] \subseteq job[j].written \cup job[j].file
    /\ At(j, "error") => did[j] \subseteq job[j].file

\* The part of TypeOK about one job, and the single content of its planned texts.
Typed(j) ==
    /\ AtMostOne(job[j].file, Files)
    /\ \A f \in Files : AtMostOne(New(j, f), Texts)
    /\ Writing(j) => /\ job[j].todo = Pending(job[j].plan) \ job[j].written
                     /\ job[j].written \subseteq Pending(job[j].plan)
    /\ InHand(j) => job[j].file # {} /\ job[j].file \subseteq job[j].todo

Fine(j) ==
    /\ Typed(j) /\ Looked(j) /\ Kept(j)
    /\ Shaped(j) /\ Patched(j) /\ InOrder(j) /\ Accounted(j)

Contents ==
    /\ disk \in [Files -> Held] /\ source \in Held /\ backups \in [Files -> Held]
    /\ AtMostOne(source, Texts) /\ \A f \in Files : AtMostOne(disk[f], Texts)

Ghosts ==
    /\ raced \subseteq Jobs /\ stirred \subseteq Jobs
    /\ did \in [Jobs -> SUBSET Files] /\ disturbed \subseteq Files
    /\ upsets \in 0..MaxUpsets

ApplyInv ==
    /\ Contents /\ Ghosts /\ job \in [Jobs -> Applies]
    /\ \A j \in Jobs : Fine(j)
    /\ GateAfterPatches

-----------------------------------------------------------------------------
(* Plans. *)

LEMMA RenderedHeld ==
    ASSUME NEW held \in Held, AtMostOne(held, Texts)
    PROVE  Rendered(held) \in Held /\ AtMostOne(Rendered(held), Texts) /\ HasDesign(Rendered(held))
<1>1. CASE held = {}
  BY <1>1 DEF Rendered, Held, Texts, AtMostOne, HasDesign
<1>2. CASE held # {}
  <2> PICK t \in held : held = {t}
    BY <1>2 DEF AtMostOne
  <2>1. Rendered(held) = {[t EXCEPT !.section = "design"]}
    BY <1>2 DEF Rendered
  <2>2. t \in Texts
    BY DEF AtMostOne
  <2>3. [t EXCEPT !.section = "design"] \in Texts /\ [t EXCEPT !.section = "design"].section = "design"
    BY <2>2 DEF Texts
  <2> QED
    BY <2>1, <2>3 DEF AtMostOne, Held, HasDesign
<1> QED
  BY <1>1, <1>2

LEMMA StrippedHeld ==
    ASSUME NEW held \in Held, AtMostOne(held, Texts)
    PROVE  Stripped(held) \in Held /\ AtMostOne(Stripped(held), Texts)
<1>1. \A t \in Texts : [t EXCEPT !.section = "none"] \in Texts
  BY DEF Texts
<1>2. Stripped(held) \subseteq Texts
  BY <1>1 DEF Stripped, AtMostOne
<1>3. \A x, y \in Stripped(held) : x = y
  BY DEF Stripped, AtMostOne
<1> QED
  BY <1>2, <1>3 DEF AtMostOne, Held

\* A plan is well formed, finds what is there, and a design puts its section into its patches.
LEMMA PlanMade ==
    ASSUME Contents, NEW request \in Requests
    PROVE  /\ Plan(request) \in Plans
           /\ Plan(request).previous = disk
           /\ \A f \in Files : AtMostOne(Plan(request).text[f], Texts)
           /\ ~request.remove => /\ Plan(request).files = Files
                                /\ \A p \in Files : IsPatch(p) => HasDesign(Plan(request).text[p])
<1> DEFINE text == [f \in Files |-> IF request.remove THEN Stripped(disk[f])
                                   ELSE IF Kind[f] = "copy" THEN source ELSE Rendered(disk[f])]
           files == IF request.remove THEN {f \in Files : Kind[f] = "patch" /\ HasSection(disk[f])}
                                      ELSE Files
<1>1. Plan(request) = [files |-> files, previous |-> disk, text |-> text]
  BY DEF Plan
<1>2. ASSUME NEW f \in Files
      PROVE  text[f] \in Held /\ AtMostOne(text[f], Texts)
  <2>1. disk[f] \in Held /\ AtMostOne(disk[f], Texts) /\ source \in Held /\ AtMostOne(source, Texts)
    BY DEF Contents
  <2> QED
    BY <2>1, RenderedHeld, StrippedHeld
<1>3. ASSUME NEW p \in Files, IsPatch(p), ~request.remove
      PROVE  HasDesign(text[p])
  <2>1. disk[p] \in Held /\ AtMostOne(disk[p], Texts)
    BY DEF Contents
  <2>2. text[p] = Rendered(disk[p])
    BY <1>3 DEF IsPatch
  <2> QED
    BY <2>1, <2>2, RenderedHeld
<1>4. text \in [Files -> Held] /\ files \in SUBSET Files /\ disk \in [Files -> Held]
  BY <1>2 DEF Contents
<1>5. ~request.remove => files = Files
  OBVIOUS
<1> HIDE DEF text, files
<1>6. Plan(request) \in Plans
  BY <1>1, <1>4 DEF Plans
<1> QED
  BY <1>1, <1>2, <1>3, <1>5, <1>6

LEMMA IdTyped ==
    ASSUME NEW plan \in Plans
    PROVE  PlanId(plan) \in [Files -> SUBSET Entries]
<1> SUFFICES ASSUME NEW f \in Files
             PROVE  {[action |-> Action(plan, f), text |-> plan.text[f],
                      existing |-> IF Kind[f] = "copy" THEN plan.previous[f] ELSE {}]}
                        \in SUBSET Entries
  BY DEF PlanId
<1>1. plan.text[f] \in Held /\ plan.previous[f] \in Held /\ {} \in Held
  BY DEF Plans, Held
<1>2. Action(plan, f) \in {"create", "update", "unchanged", "delete"}
  BY DEF Action
<1> QED
  BY <1>1, <1>2 DEF Entries

LEMMA NoPlanTyped == NoPlan \in Plans /\ \A f \in Files : NoPlan.text[f] = {}
BY DEF NoPlan, Plans, Held

LEMMA TypeOf == ApplyInv => TypeOK
<1> SUFFICES ASSUME ApplyInv PROVE TypeOK
  OBVIOUS
<1>1. \A j \in Jobs : Typed(j)
  BY DEF ApplyInv, Fine
<1> QED
  BY <1>1 DEF ApplyInv, Contents, Ghosts, Typed, TypeOK

LEMMA InitApply == Init => ApplyInv
<1> SUFFICES ASSUME Init PROVE ApplyInv
  OBVIOUS
<1> DEFINE fresh(request) == [pc |-> "idle", request |-> request, id |-> PlanId(NoPlan),
                              plan |-> NoPlan, todo |-> {}, written |-> {}, file |-> {}]
<1> PICK request \in Requests : job = [j \in Jobs |-> fresh(request)]
  BY DEF Init
<1>1. fresh(request) \in Applies
  BY IdTyped, NoPlanTyped DEF Applies, PCs
<1>2. job \in [Jobs -> Applies]
  BY <1>1
<1>3. \A j \in Jobs : job[j].pc = "idle" /\ job[j].file = {} /\ job[j].written = {} /\ job[j].plan = NoPlan
  OBVIOUS
<1> HIDE DEF fresh
<1>4. Contents
  <2>1. \A f \in Files : disk[f] \in {{}, {[section |-> "none", outside |-> TRUE]}}
    BY DEF Init
  <2>2. \A o \in {"none", "other"} : [section |-> o, outside |-> TRUE] \in Texts
    BY DEF Texts
  <2>3. \A f \in Files : AtMostOne(disk[f], Texts)
    BY <2>1, <2>2 DEF AtMostOne
  <2>4. AtMostOne(source, Texts)
    BY <2>2 DEF Init, AtMostOne
  <2>5. disk \in [Files -> Held]
    BY <2>3 DEF Init, AtMostOne, Held
  <2> QED
    BY <2>3, <2>4, <2>5 DEF Init, Contents, AtMostOne, Held
<1>5. Ghosts
  BY PlanAssumption DEF Init, Ghosts
<1>6. ASSUME NEW j \in Jobs PROVE Fine(j)
  <2>1. did[j] = {}
    BY DEF Init
  <2>2. ~Writing(j) /\ ~InHand(j)
    BY <1>3 DEF Writing, InHand, At
  <2>3. Typed(j)
    BY <1>3, <2>2, NoPlanTyped DEF Typed, AtMostOne, New
  <2> QED
    BY <1>3, <2>1, <2>2, <2>3 DEF Fine, Looked, Kept, Shaped, Patched, Designs, InOrder, Accounted, At
<1>7. GateAfterPatches
  <2>1. \A f \in Files : ~\E t \in disk[f] : t.section = "design"
    BY DEF Init
  <2> QED
    BY <2>1 DEF GateAfterPatches
<1> QED
  BY <1>2, <1>4, <1>5, <1>6, <1>7 DEF ApplyInv

-----------------------------------------------------------------------------
(* Steps that only move a job. *)

\* Such a step keeps the invariant when the job itself is fine afterwards.
LEMMA Quiet ==
    ASSUME ApplyInv, NEW j \in Jobs, NEW a \in Applies,
           job' = [job EXCEPT ![j] = a],
           UNCHANGED <<disk, backups, ghosts>>,
           source' \in Held, AtMostOne(source', Texts), upsets' \in 0..MaxUpsets,
           Fine(j)'
    PROVE  ApplyInv'
<1>1. job' \in [Jobs -> Applies]
  BY DEF ApplyInv
<1>2. ASSUME NEW k \in Jobs, k # j PROVE Fine(k)'
  <2>1. job'[k] = job[k] /\ Fine(k)
    BY <1>2 DEF ApplyInv
  <2> QED
    BY <2>1 DEF ghosts, Fine, Typed, Looked, Kept, Safe, Shaped, Patched, InOrder, Accounted,
           Designs, Writing, InHand, At, Expected, New, Deletes
<1>3. Contents' /\ Ghosts'
  BY DEF ApplyInv, Contents, Ghosts, ghosts
<1>4. GateAfterPatches'
  BY DEF ApplyInv, GateAfterPatches, ghosts
<1> QED
  BY <1>1, <1>2, <1>3, <1>4 DEF ApplyInv

\* A job that no longer writes knows nothing of the files.
LEMMA Done ==
    ASSUME ApplyInv, NEW j \in Jobs, ~Writing(j)', Accounted(j)',
           AtMostOne(job'[j].file, Files), job'[j].plan = job[j].plan
    PROVE  Fine(j)'
<1>1. Typed(j)
  BY DEF ApplyInv, Fine
<1>2. ~InHand(j)' /\ ~Designs(j)' /\ job'[j].pc \notin {"backedUp", "looked"}
  BY DEF Writing, InHand, Designs, At
<1>3. Typed(j)'
  BY <1>1, <1>2 DEF Typed, New
<1> QED
  BY <1>2, <1>3 DEF Fine, Looked, Kept, Shaped, Patched, InOrder, At

LEMMA ReviewStep == ASSUME ApplyInv, NEW j \in Jobs, Review(j) PROVE ApplyInv'
<1> PICK request \in Requests :
         job' = [job EXCEPT ![j].pc = "reviewed", ![j].request = request, ![j].id = PlanId(Plan(request))]
  BY DEF Review
<1> DEFINE a == [job[j] EXCEPT !.pc = "reviewed", !.request = request, !.id = PlanId(Plan(request))]
<1>1. job[j] \in Applies
  BY DEF ApplyInv
<1>2. PlanId(Plan(request)) \in [Files -> SUBSET Entries]
  BY PlanMade, IdTyped DEF ApplyInv
<1>3. a \in Applies
  BY <1>1, <1>2 DEF Applies, PCs
<1>4. job' = [job EXCEPT ![j] = a]
  OBVIOUS
<1>5. /\ job'[j].pc = "reviewed" /\ job'[j].plan = job[j].plan
      /\ job'[j].file = job[j].file /\ job'[j].written = job[j].written
  BY <1>1 DEF ApplyInv, Applies
<1>6. did[j] = {} /\ job[j].written = {}
  BY DEF ApplyInv, Fine, Accounted, Review, At
<1>7. ~Writing(j)' /\ Accounted(j)'
  BY <1>5, <1>6 DEF Writing, InHand, At, Accounted, Review, ghosts
<1>8. Fine(j)'
  BY <1>5, <1>7, Done DEF ApplyInv, Fine, Typed
<1> QED
  BY <1>3, <1>4, <1>8, Quiet DEF Review, ApplyInv, Contents, Ghosts

\* Where a job can go by a step that changes only its program point: to an end.
LEMMA EndStep ==
    ASSUME ApplyInv, NEW j \in Jobs,
           NEW pc \in {"refused", "cancelled", "error", "unread", "report", "dead"}, Goto(j, pc),
           UNCHANGED <<disk, source, backups, ghosts>>, upsets' \in 0..MaxUpsets,
           pc \in {"refused", "cancelled"} => did[j] = {},
           pc = "error" => did[j] \subseteq job[j].file,
           pc = "report" => did[j] \subseteq job[j].written \cup job[j].file
    PROVE  ApplyInv'
<1> DEFINE a == [job[j] EXCEPT !.pc = pc]
<1>1. a \in Applies /\ job' = [job EXCEPT ![j] = a]
  BY DEF ApplyInv, Applies, PCs, Goto
<1>2. /\ job'[j].pc = pc /\ job'[j].plan = job[j].plan
      /\ job'[j].file = job[j].file /\ job'[j].written = job[j].written
  BY DEF ApplyInv, Applies, Goto
<1>3. ~Writing(j)' /\ Accounted(j)'
  BY <1>2 DEF Writing, InHand, At, Accounted, ghosts
<1>4. Fine(j)'
  BY <1>2, <1>3, Done DEF ApplyInv, Fine, Typed
<1> QED
  BY <1>1, <1>4, Quiet DEF ApplyInv, Contents

LEMMA StopStep ==
    ASSUME ApplyInv, NEW j \in Jobs, InHand(j), Stop(j),
           UNCHANGED <<disk, source, backups, ghosts>>, upsets' \in 0..MaxUpsets
    PROVE  ApplyInv'
<1>1. did[j] \subseteq job[j].written \cup job[j].file
  BY DEF ApplyInv, Fine, Accounted, InHand
<1>2. CASE job[j].written = {}
  BY <1>1, <1>2, EndStep DEF Stop
<1>3. CASE job[j].written # {}
  BY <1>1, <1>3, EndStep DEF Stop
<1> QED
  BY <1>2, <1>3

LEMMA FailStep == ASSUME ApplyInv, NEW j \in Jobs, Fail(j) PROVE ApplyInv'
BY StopStep, PlanAssumption DEF Fail, Upset, ApplyInv, Ghosts

LEMMA CrashStep == ASSUME ApplyInv, NEW j \in Jobs, Crash(j) PROVE ApplyInv'
BY EndStep, PlanAssumption DEF Crash, Upset, ApplyInv, Ghosts

LEMMA RebuildStep == ASSUME ApplyInv, NEW j \in Jobs, Rebuild(j) PROVE ApplyInv'
<1> DEFINE plan == Plan(job[j].request)
           a == [job[j] EXCEPT !.pc = "rebuilt", !.plan = plan, !.todo = Pending(plan)]
<1>1. did[j] = {} /\ job[j].written = {} /\ job[j] \in Applies /\ job[j].request \in Requests
  BY DEF ApplyInv, Fine, Accounted, Rebuild, At, Applies
<1>2. CASE Goto(j, "refused")
  BY <1>1, <1>2, EndStep DEF Rebuild, ApplyInv, Ghosts
<1>3. CASE job' = [job EXCEPT ![j].pc = "rebuilt", ![j].plan = plan, ![j].todo = Pending(plan)]
  <2>1. /\ plan \in Plans /\ plan.previous = disk /\ plan.files \subseteq Files
        /\ \A f \in Files : AtMostOne(plan.text[f], Texts)
        /\ ~job[j].request.remove => /\ plan.files = Files
                                    /\ \A p \in Files : IsPatch(p) => HasDesign(plan.text[p])
    BY <1>1, PlanMade DEF ApplyInv, Plans
  <2>2. Pending(plan) \subseteq Files
    BY <2>1 DEF Pending
  <2> HIDE DEF plan
  <2>3. a \in Applies /\ job' = [job EXCEPT ![j] = a]
    BY <1>1, <1>3, <2>1, <2>2 DEF Applies, PCs
  <2>4. /\ job'[j].pc = "rebuilt" /\ job'[j].plan = plan /\ job'[j].todo = Pending(plan)
        /\ job'[j].request = job[j].request /\ job'[j].file = job[j].file /\ job'[j].written = {}
    BY <1>1, <1>3 DEF Applies, ApplyInv
  <2>5. ~InHand(j)'
    BY <2>4 DEF InHand
  <2>6. Typed(j)' /\ Accounted(j)'
    BY <1>1, <2>1, <2>4, <2>5 DEF Typed, Accounted, At, New, ApplyInv, Fine, Rebuild, ghosts
  <2>7. Shaped(j)' /\ Patched(j)'
    BY <2>1, <2>4 DEF Shaped, Patched, Designs, New, Pending, Rebuild, ghosts
  <2>8. Fine(j)'
    BY <2>4, <2>5, <2>6, <2>7 DEF Fine, Looked, Kept, InOrder, At
  <2> QED
    BY <2>3, <2>8, Quiet DEF Rebuild, ApplyInv, Contents, Ghosts
<1> QED
  BY <1>2, <1>3 DEF Rebuild

LEMMA PreflightStep == ASSUME ApplyInv, NEW j \in Jobs, Preflight(j) PROVE ApplyInv'
<1>1. did[j] = {} /\ job[j] \in Applies /\ Fine(j) /\ At(j, "rebuilt")
  BY DEF ApplyInv, Fine, Accounted, Preflight, At
<1>2. CASE Goto(j, "refused")
  BY <1>1, <1>2, EndStep DEF Preflight, ApplyInv, Ghosts
<1>3. CASE Goto(j, "next")
  <2> DEFINE a == [job[j] EXCEPT !.pc = "next"]
  <2>1. a \in Applies /\ job' = [job EXCEPT ![j] = a]
    BY <1>1, <1>3 DEF Applies, PCs, Goto
  <2>2. /\ job'[j].pc = "next" /\ job'[j].plan = job[j].plan /\ job'[j].todo = job[j].todo
        /\ job'[j].request = job[j].request /\ job'[j].file = job[j].file
        /\ job'[j].written = job[j].written
    BY <1>1, <1>3 DEF Applies, ApplyInv, Goto
  <2>3. ~InHand(j)' /\ Writing(j) /\ (Designs(j)' <=> Designs(j))
    BY <1>1, <2>2 DEF InHand, Writing, Designs, At
  <2>4. Typed(j)' /\ Accounted(j)'
    BY <1>1, <2>2, <2>3 DEF Typed, Accounted, At, New, Fine, Preflight, ghosts
  <2>5. Shaped(j)' /\ Patched(j)'
    BY <1>1, <2>2, <2>3 DEF Fine, Shaped, Patched, New, Preflight, ghosts
  <2>6. Fine(j)'
    BY <2>2, <2>3, <2>4, <2>5 DEF Fine, Looked, Kept, InOrder, At
  <2> QED
    BY <2>1, <2>6, Quiet DEF Preflight, ApplyInv, Contents, Ghosts
<1> QED
  BY <1>2, <1>3 DEF Preflight

\* Where a job can go by a step that also sets the file in hand: to a report, or to an answer while
\* nothing is written.
LEMMA AnswerStep ==
    ASSUME ApplyInv, NEW j \in Jobs, At(j, "next"), NEW file \in SUBSET Files, AtMostOne(file, Files),
           NEW pc \in {"cancelled", "error", "report"},
           job' = [job EXCEPT ![j].pc = pc, ![j].file = file],
           pc # "report" => job[j].written = {},
           UNCHANGED <<disk, source, backups, ghosts, upsets>>
    PROVE  ApplyInv'
<1> DEFINE a == [job[j] EXCEPT !.pc = pc, !.file = file]
<1>1. a \in Applies /\ job' = [job EXCEPT ![j] = a]
  BY DEF ApplyInv, Applies, PCs
<1>2. /\ job'[j].pc = pc /\ job'[j].plan = job[j].plan
      /\ job'[j].file = file /\ job'[j].written = job[j].written
  BY DEF ApplyInv, Applies
<1>3. did[j] \subseteq job[j].written
  BY DEF ApplyInv, Fine, Accounted, At
<1>4. ~Writing(j)' /\ Accounted(j)'
  BY <1>2, <1>3 DEF Writing, InHand, At, Accounted, ghosts
<1>5. Fine(j)'
  BY <1>2, <1>4, Done
<1> QED
  BY <1>1, <1>5, Quiet DEF ApplyInv, Contents, Ghosts

LEMMA CancelStep == ASSUME ApplyInv, NEW j \in Jobs, Cancel(j) PROVE ApplyInv'
<1>1. CASE At(j, "reviewed") /\ Goto(j, "cancelled")
  <2>1. did[j] = {}
    BY <1>1 DEF ApplyInv, Fine, Accounted, At
  <2> QED
    BY <1>1, <2>1, EndStep DEF Cancel, ApplyInv, Ghosts
<1>2. CASE /\ At(j, "next")
           /\ job' = [job EXCEPT ![j].pc = IF job[j].written = {} THEN "cancelled" ELSE "report",
                                 ![j].file = {}]
  <2>1. AtMostOne({}, Files)
    BY DEF AtMostOne
  <2>2. CASE job[j].written = {}
    BY <1>2, <2>1, <2>2, AnswerStep DEF Cancel
  <2>3. CASE job[j].written # {}
    BY <1>2, <2>1, <2>3, AnswerStep DEF Cancel
  <2> QED
    BY <2>2, <2>3
<1> QED
  BY <1>1, <1>2 DEF Cancel

LEMMA RefuseStep == ASSUME ApplyInv, NEW j \in Jobs, Refuse(j) PROVE ApplyInv'
<1>1. CASE At(j, "next")
  <2> PICK f \in job[j].todo :
           job' = [job EXCEPT ![j].pc = IF job[j].written = {} THEN "error" ELSE "report",
                              ![j].file = {f}]
    BY <1>1 DEF Refuse, At
  <2>1. f \in Files
    BY DEF ApplyInv, Applies
  <2>2. AtMostOne({f}, Files) /\ {f} \in SUBSET Files
    BY <2>1 DEF AtMostOne
  <2>3. CASE job[j].written = {}
    BY <1>1, <2>2, <2>3, AnswerStep DEF Refuse
  <2>4. CASE job[j].written # {}
    BY <1>1, <2>2, <2>4, AnswerStep DEF Refuse
  <2> QED
    BY <2>3, <2>4
<1>2. CASE InHand(j) /\ Stop(j)
  BY <1>2, StopStep DEF Refuse, ApplyInv, Ghosts
<1> QED
  BY <1>1, <1>2 DEF Refuse, InHand, At

LEMMA FinishStep == ASSUME ApplyInv, NEW j \in Jobs, Finish(j) PROVE ApplyInv'
<1>1. CASE job' = [job EXCEPT ![j].pc = "report", ![j].file = {}] /\ UNCHANGED upsets
  <2>1. AtMostOne({}, Files)
    BY DEF AtMostOne
  <2> QED
    BY <1>1, <2>1, AnswerStep DEF Finish
<1>2. CASE Goto(j, "unread") /\ Upset
  BY <1>2, EndStep, PlanAssumption DEF Finish, Upset, ApplyInv, Ghosts
<1> QED
  BY <1>1, <1>2 DEF Finish

LEMMA EditSourceStep == ASSUME ApplyInv, EditSource PROVE ApplyInv'
<1>1. [section |-> "design", outside |-> TRUE] \in Texts
  BY DEF Texts
<1>2. source' \in Held /\ AtMostOne(source', Texts)
  BY <1>1 DEF EditSource, Held, AtMostOne
<1>3. Contents' /\ Ghosts'
  BY <1>2, PlanAssumption DEF EditSource, ApplyInv, Contents, Ghosts, ghosts, Upset
<1>4. ASSUME NEW k \in Jobs PROVE Fine(k)'
  <2>1. Fine(k)
    BY DEF ApplyInv
  <2> QED
    BY <2>1 DEF EditSource, ghosts, Fine, Typed, Looked, Kept, Safe, Shaped, Patched, InOrder, Accounted,
           Designs, Writing, InHand, At, Expected, New, Deletes
<1>5. GateAfterPatches'
  BY DEF ApplyInv, GateAfterPatches, EditSource, ghosts
<1> QED
  BY <1>3, <1>4, <1>5 DEF ApplyInv, EditSource

-----------------------------------------------------------------------------
(* The file in hand. *)

LEMMA BeginStep == ASSUME ApplyInv, NEW j \in Jobs, BeginFile(j) PROVE ApplyInv'
<1> PICK f \in job[j].todo : /\ \A g \in job[j].todo : Ahead(f, g)
                            /\ job' = [job EXCEPT ![j].pc = "begun", ![j].file = {f}]
  BY DEF BeginFile
<1> DEFINE a == [job[j] EXCEPT !.pc = "begun", !.file = {f}]
<1>1. job[j] \in Applies /\ Fine(j) /\ At(j, "next") /\ f \in Files
  BY DEF ApplyInv, Applies, BeginFile
<1>2. a \in Applies /\ job' = [job EXCEPT ![j] = a]
  BY <1>1 DEF Applies, PCs
<1>3. /\ job'[j].pc = "begun" /\ job'[j].plan = job[j].plan /\ job'[j].todo = job[j].todo
      /\ job'[j].request = job[j].request /\ job'[j].file = {f}
      /\ job'[j].written = job[j].written
  BY <1>1 DEF Applies, ApplyInv
<1>4. Writing(j) /\ (Designs(j)' <=> Designs(j)) /\ AtMostOne({f}, Files)
  BY <1>1, <1>3 DEF InHand, Writing, Designs, At, AtMostOne
<1>5. Typed(j)' /\ Accounted(j)'
  BY <1>1, <1>3, <1>4 DEF Typed, Accounted, At, New, Fine, BeginFile, ghosts
<1>6. Shaped(j)' /\ Patched(j)'
  BY <1>1, <1>3, <1>4 DEF Fine, Shaped, Patched, New, BeginFile, ghosts
<1>7. InOrder(j)'
  BY <1>3 DEF InOrder, Ahead
<1>8. Fine(j)'
  BY <1>3, <1>5, <1>6, <1>7 DEF Fine, Looked, Kept, At
<1> QED
  BY <1>2, <1>8, Quiet DEF BeginFile, ApplyInv, Contents, Ghosts

\* A file that is written leaves what is left, and a patch among them holds what it shall.
LEMMA WrittenFine ==
    ASSUME ApplyInv, NEW j \in Jobs, InHand(j), NEW f \in job[j].file, Written(j, f),
           Designs(j) /\ IsPatch(f) => disk'[f] = New(j, f),
           \A p \in Files \ {f} : disk'[p] = disk[p],
           Files \ disturbed' \subseteq (Files \ disturbed) \cup {f},
           did'[j] \subseteq job[j].written \cup {f}
    PROVE  Fine(j)'
<1>1. job[j] \in Applies /\ Fine(j) /\ f \in Files /\ f \in job[j].todo /\ job[j].file = {f}
  BY DEF ApplyInv, Applies, Fine, Typed, AtMostOne
<1>2. /\ job'[j].pc = "next" /\ job'[j].plan = job[j].plan /\ job'[j].todo = job[j].todo \ {f}
      /\ job'[j].request = job[j].request /\ job'[j].file = {f}
      /\ job'[j].written = job[j].written \cup {f}
  BY <1>1 DEF Applies, ApplyInv, Written
<1>3. Writing(j) /\ ~InHand(j)' /\ (Designs(j)' <=> Designs(j))
  BY <1>1, <1>2 DEF InHand, Writing, Designs, At
<1>4. Typed(j)' /\ Accounted(j)'
  <2>1. Typed(j)
    BY <1>1 DEF Fine
  <2>2. AtMostOne(job'[j].file, Files)
    BY <1>1, <1>2 DEF AtMostOne
  <2>3. Typed(j)'
    BY <1>1, <1>2, <1>3, <2>1, <2>2 DEF Typed, New
  <2> QED
    BY <1>2, <2>3 DEF Accounted, At
<1>5. Shaped(j)'
  BY <1>1, <1>2, <1>3 DEF Fine, Shaped, New
<1>6. Patched(j)'
  <2> SUFFICES ASSUME Designs(j)', NEW p \in Files \ disturbed', IsPatch(p)
               PROVE  p \in job'[j].todo \/ HasDesign(disk'[p])
    BY DEF Patched
  <2>1. CASE p = f
    BY <1>1, <1>3, <2>1 DEF Fine, Shaped
  <2>2. CASE p # f
    BY <1>1, <1>2, <1>3, <2>2 DEF Fine, Patched
  <2> QED
    BY <2>1, <2>2
<1> QED
  BY <1>2, <1>3, <1>4, <1>5, <1>6 DEF Fine, Looked, Kept, InOrder, At

LEMMA WrittenTyped ==
    ASSUME ApplyInv, NEW j \in Jobs, NEW f \in job[j].file, Written(j, f)
    PROVE  \E a \in Applies : job' = [job EXCEPT ![j] = a]
<1> DEFINE a == [job[j] EXCEPT !.pc = "next", !.todo = @ \ {f}, !.written = @ \cup {f}]
<1>1. a \in Applies
  BY DEF ApplyInv, Applies, PCs
<1> QED
  BY <1>1 DEF Written

LEMMA WrittenStep ==
    ASSUME ApplyInv, NEW j \in Jobs, InHand(j), NEW f \in job[j].file, Written(j, f),
           Designs(j) /\ IsPatch(f) => disk[f] = New(j, f),
           UNCHANGED <<disk, source, backups, ghosts, upsets>>
    PROVE  ApplyInv'
<1>1. did[j] \subseteq job[j].written \cup {f}
  BY DEF ApplyInv, Fine, Accounted, InHand, Typed, AtMostOne
<1>2. Fine(j)'
  BY <1>1, WrittenFine DEF ghosts
<1>3. PICK a \in Applies : job' = [job EXCEPT ![j] = a]
  BY WrittenTyped
<1> QED
  BY <1>2, <1>3, Quiet DEF ApplyInv, Contents, Ghosts

LEMMA LeaveStep == ASSUME ApplyInv, NEW j \in Jobs, LeaveAlone(j) PROVE ApplyInv'
BY WrittenStep DEF LeaveAlone, InHand, At

LEMMA VerifyStep == ASSUME ApplyInv, NEW j \in Jobs, Verify(j) PROVE ApplyInv'
BY WrittenStep DEF Verify, InHand, At

-----------------------------------------------------------------------------
(* Steps that change a file, its backups, or what a job knows of it. *)

\* A step of somebody else: a changed file in hand makes a job raced and stirred, and a patch that is
\* changed is disturbed or holds the design's section.
LEMMA Bystander ==
    ASSUME ApplyInv, NEW k \in Jobs, job'[k] = job[k], did'[k] = did[k],
           \A f \in Files : backups[f] \subseteq backups'[f],
           k \notin raced' => k \notin raced /\ \A f \in job[k].file : disk'[f] = disk[f],
           k \notin stirred' => k \notin stirred /\ \A f \in job[k].file : disk'[f] = disk[f],
           \A p \in Files \ disturbed' :
               IsPatch(p) => (p \notin disturbed /\ disk'[p] = disk[p]) \/ HasDesign(disk'[p])
    PROVE  Fine(k)'
<1>1. Fine(k) /\ job[k].file \subseteq Files
  BY DEF ApplyInv, Applies
<1>2. Typed(k)' /\ Shaped(k)' /\ InOrder(k)' /\ Accounted(k)'
  BY <1>1 DEF Fine, Typed, Shaped, InOrder, Accounted, Designs, Writing, InHand, At, New
<1>3. Looked(k)' /\ Kept(k)'
  BY <1>1 DEF Fine, Looked, Kept, Safe, At, Expected, New, Deletes
<1>4. Patched(k)'
  BY <1>1 DEF Fine, Patched, Designs, Writing, InHand, At
<1> QED
  BY <1>2, <1>3, <1>4 DEF Fine

\* A job that stays with its file in hand.
LEMMA InHandStep ==
    ASSUME ApplyInv, NEW j \in Jobs, InHand(j), NEW pc \in {"backedUp", "looked", "put"}, Goto(j, pc)
    PROVE  /\ job' \in [Jobs -> Applies]
           /\ \A k \in Jobs \ {j} : job'[k] = job[k]
           /\ job'[j] = [job[j] EXCEPT !.pc = pc]
           /\ At(j, pc)' /\ job'[j].file = job[j].file /\ job'[j].plan = job[j].plan
           /\ job'[j].request = job[j].request /\ job'[j].written = job[j].written
           /\ job'[j].todo = job[j].todo
           /\ Typed(j)' /\ Shaped(j)' /\ InOrder(j)'
           /\ (Designs(j)' <=> Designs(j))
<1>1. job[j] \in Applies /\ Fine(j)
  BY DEF ApplyInv
<1>2. [job[j] EXCEPT !.pc = pc] \in Applies
  BY <1>1 DEF Applies, PCs
<1>3. /\ job' \in [Jobs -> Applies]
      /\ \A k \in Jobs \ {j} : job'[k] = job[k]
      /\ job'[j] = [job[j] EXCEPT !.pc = pc]
  BY <1>2 DEF ApplyInv, Goto
<1>4. /\ At(j, pc)' /\ job'[j].file = job[j].file /\ job'[j].plan = job[j].plan
      /\ job'[j].request = job[j].request /\ job'[j].written = job[j].written
      /\ job'[j].todo = job[j].todo
  BY <1>1, <1>3 DEF Applies, At
<1>5. InHand(j)' /\ Writing(j) /\ Writing(j)' /\ (Designs(j)' <=> Designs(j))
  BY <1>4 DEF InHand, Writing, Designs, At
<1>6. Typed(j)' /\ Shaped(j)' /\ InOrder(j)'
  BY <1>1, <1>4, <1>5 DEF Fine, Typed, Shaped, InOrder, New, Ahead
<1> QED
  BY <1>3, <1>4, <1>5, <1>6

LEMMA BackUpStep == ASSUME ApplyInv, NEW j \in Jobs, BackUp(j) PROVE ApplyInv'
<1> PICK f \in job[j].file :
         backups' = IF Deletes(j, f) \/ job[j].request.backup
                    THEN [backups EXCEPT ![f] = @ \cup disk[f]] ELSE backups
  BY DEF BackUp
<1>1. Fine(j) /\ f \in Files /\ job[j].file = {f} /\ InHand(j) /\ At(j, "begun")
  BY DEF ApplyInv, Applies, Fine, Typed, AtMostOne, BackUp, InHand, At
<1>2. /\ backups' \in [Files -> Held]
      /\ \A g \in Files : backups[g] \subseteq backups'[g]
      /\ Deletes(j, f) \/ job[j].request.backup => disk[f] \subseteq backups'[f]
  BY <1>1 DEF ApplyInv, Contents, Held
<1>3. Contents' /\ Ghosts'
  BY <1>2 DEF ApplyInv, Contents, Ghosts, BackUp
<1>4. Goto(j, "backedUp")
  BY DEF BackUp
<1>5. Fine(j)'
  <2>1. Kept(j)'
    BY <1>1, <1>2, <1>4, InHandStep DEF Kept, Safe, Deletes, New, BackUp
  <2>2. Looked(j)' /\ Accounted(j)'
    BY <1>1, <1>4, InHandStep DEF Looked, Accounted, Fine, At, BackUp
  <2>3. Patched(j)'
    BY <1>1, <1>4, InHandStep DEF Patched, Fine, BackUp
  <2> QED
    BY <1>1, <1>4, <2>1, <2>2, <2>3, InHandStep DEF Fine
<1>6. ASSUME NEW k \in Jobs \ {j} PROVE Fine(k)'
  BY <1>1, <1>2, <1>4, InHandStep, Bystander DEF BackUp
<1>7. GateAfterPatches'
  BY DEF ApplyInv, GateAfterPatches, BackUp
<1> QED
  BY <1>1, <1>3, <1>4, <1>5, <1>6, <1>7, InHandStep DEF ApplyInv

LEMMA LookStep == ASSUME ApplyInv, NEW j \in Jobs, LastLook(j) PROVE ApplyInv'
<1>1. Fine(j) /\ InHand(j) /\ At(j, "backedUp") /\ Goto(j, "looked")
  BY DEF ApplyInv, LastLook, InHand, At
<1>2. \A f \in job[j].file : Expected(j, f)
  BY <1>1 DEF Fine, Typed, AtMostOne, LastLook
<1>3. Contents' /\ Ghosts'
  BY DEF ApplyInv, Contents, Ghosts, LastLook
<1>4. Fine(j)'
  <2>1. Kept(j)'
    BY <1>1, InHandStep DEF Fine, Kept, Safe, Deletes, New, At, LastLook
  <2>2. Looked(j)' /\ Accounted(j)'
    <3>1. /\ job'[j].pc = "looked" /\ job'[j].file = job[j].file /\ job'[j].plan = job[j].plan
          /\ job'[j].written = job[j].written
      BY <1>1, InHandStep DEF At
    <3>2. Looked(j)'
      BY <1>2, <3>1 DEF Looked, Expected, LastLook
    <3>3. Accounted(j)'
      BY <1>1, <3>1 DEF Accounted, Fine, At, LastLook
    <3> QED
      BY <3>2, <3>3
  <2>3. Patched(j)'
    BY <1>1, InHandStep DEF Patched, Fine, LastLook
  <2> QED
    BY <1>1, <2>1, <2>2, <2>3, InHandStep DEF Fine
<1>5. ASSUME NEW k \in Jobs \ {j} PROVE Fine(k)'
  BY <1>1, InHandStep, Bystander DEF LastLook
<1>6. GateAfterPatches'
  BY DEF ApplyInv, GateAfterPatches, LastLook
<1> QED
  BY <1>1, <1>3, <1>4, <1>5, <1>6, InHandStep DEF ApplyInv

\* A patch that a replacement changes is disturbed afterwards or holds the design's section.
LEMMA ReplacedPatch ==
    ASSUME ApplyInv, NEW j \in Jobs, Replace(j), NEW f \in job[j].file,
           disk' = [disk EXCEPT ![f] = New(j, f)],
           disturbed' = IF job[j].request.remove THEN disturbed \cup {f} ELSE disturbed \ {f},
           NEW p \in Files \ disturbed', IsPatch(p)
    PROVE  (p \notin disturbed /\ disk'[p] = disk[p]) \/ HasDesign(disk'[p])
<1>1. Fine(j) /\ f \in Files /\ Writing(j)
  BY DEF ApplyInv, Applies, Replace, Writing, InHand, At
<1>2. CASE p = f
  <2>1. ~job[j].request.remove
    BY <1>2
  <2>2. HasDesign(New(j, f))
    BY <1>1, <1>2, <2>1 DEF Fine, Shaped, Designs
  <2> QED
    BY <1>1, <1>2, <2>2 DEF ApplyInv, Contents
<1>3. CASE p # f
  BY <1>1, <1>3 DEF ApplyInv, Contents
<1> QED
  BY <1>2, <1>3

\* A gate is replaced when no patch is left: those that nobody else disturbed hold the section.
LEMMA ReplacedGate ==
    ASSUME ApplyInv, NEW j \in Jobs, Replace(j), NEW f \in job[j].file, Kind[f] = "gate",
           ~job[j].request.remove,
           NEW p \in Files \ disturbed, IsPatch(p)
    PROVE  HasDesign(disk[p])
<1>1. Fine(j) /\ InHand(j) /\ Designs(j)
  BY DEF ApplyInv, Replace, Designs, Writing, InHand, At
<1>2. p \notin job[j].todo
  BY <1>1 DEF Fine, InOrder, Ahead, WriteRank, IsPatch
<1> QED
  BY <1>1, <1>2 DEF Fine, Patched

LEMMA ReplaceStep == ASSUME ApplyInv, NEW j \in Jobs, Replace(j) PROVE ApplyInv'
<1> PICK f \in job[j].file :
         /\ disk' = [disk EXCEPT ![f] = New(j, f)]
         /\ IF Deletes(j, f) THEN Written(j, f) ELSE Goto(j, "put")
         /\ raced' = raced \cup Sharers(f, j) /\ stirred' = stirred \cup Sharers(f, j)
         /\ did' = [did EXCEPT ![j] = IF disk[f] = New(j, f) THEN @ ELSE @ \cup {f}]
         /\ disturbed' = IF job[j].request.remove THEN disturbed \cup {f} ELSE disturbed \ {f}
  BY DEF Replace
<1>1. /\ Fine(j) /\ f \in Files /\ job[j].file = {f} /\ InHand(j) /\ At(j, "looked")
      /\ New(j, f) \in Held /\ AtMostOne(New(j, f), Texts)
  BY DEF ApplyInv, Applies, Plans, Fine, Typed, AtMostOne, Replace, InHand, At, New
<1>2. disk'[f] = New(j, f) /\ \A g \in Files \ {f} : disk'[g] = disk[g]
  BY <1>1 DEF ApplyInv, Contents
<1>3. Contents'
  BY <1>1, <1>2 DEF ApplyInv, Contents, Replace
<1>4. did'[j] \subseteq did[j] \cup {f} /\ \A k \in Jobs \ {j} : did'[k] = did[k]
  BY DEF ApplyInv, Ghosts
<1>5. did[j] \subseteq job[j].written
  BY <1>1 DEF Fine, Accounted, At
<1>6. Ghosts'
  <2>1. did' \in [Jobs -> SUBSET Files]
    BY <1>1 DEF ApplyInv, Ghosts
  <2>2. Sharers(f, j) \subseteq Jobs
    BY DEF Sharers
  <2> QED
    BY <1>1, <2>1, <2>2 DEF ApplyInv, Ghosts, Replace
<1>7. /\ job' \in [Jobs -> Applies]
      /\ \A k \in Jobs \ {j} : job'[k] = job[k]
      /\ Fine(j)'
  <2>1. CASE Written(j, f)
    <3>1. PICK a \in Applies : job' = [job EXCEPT ![j] = a]
      BY <2>1, WrittenTyped
    <3>2. \A p \in Files \ {f} : p \notin disturbed' => p \notin disturbed
      OBVIOUS
    <3>3. Fine(j)'
      BY <1>1, <1>2, <1>4, <1>5, <2>1, <3>2, WrittenFine
    <3> QED
      BY <3>1, <3>3 DEF ApplyInv
  <2>2. CASE Goto(j, "put")
    <3>1. /\ job'[j].pc = "put" /\ job'[j].file = {f} /\ job'[j].todo = job[j].todo
          /\ job'[j].written = job[j].written
      BY <1>1, <2>2, InHandStep DEF At
    <3>2. Accounted(j)'
      BY <1>4, <1>5, <3>1 DEF Accounted, At
    <3>3. Patched(j)'
      <4> SUFFICES ASSUME Designs(j)', NEW p \in Files \ disturbed', IsPatch(p)
                   PROVE  p \in job'[j].todo \/ HasDesign(disk'[p])
        BY DEF Patched
      <4>1. Designs(j)
        BY <1>1, <2>2, InHandStep
      <4>2. (p \notin disturbed /\ disk'[p] = disk[p]) \/ HasDesign(disk'[p])
        BY ReplacedPatch
      <4> QED
        BY <1>1, <3>1, <4>1, <4>2 DEF Fine, Patched
    <3>4. Looked(j)' /\ Kept(j)'
      BY <3>1 DEF Looked, Kept, At
    <3> QED
      BY <1>1, <2>2, <3>2, <3>3, <3>4, InHandStep DEF Fine
  <2> QED
    BY <2>1, <2>2
<1>8. ASSUME NEW k \in Jobs \ {j} PROVE Fine(k)'
  <2>1. k \notin Sharers(f, j) => \A g \in job[k].file : g \in Files /\ disk'[g] = disk[g]
    BY <1>2 DEF Sharers, Current, ApplyInv, Applies
  <2>2. \A p \in Files \ disturbed' :
           IsPatch(p) => (p \notin disturbed /\ disk'[p] = disk[p]) \/ HasDesign(disk'[p])
    BY ReplacedPatch
  <2>3. job'[k] = job[k] /\ did'[k] = did[k] /\ backups' = backups
    BY <1>4, <1>7 DEF Replace
  <2> QED
    BY <2>1, <2>2, <2>3, Bystander
<1>9. GateAfterPatches'
  <2> SUFFICES ASSUME NEW g \in Files \ disturbed', NEW p \in Files \ disturbed',
                      Kind[g] = "gate", IsPatch(p), HasDesign(disk'[g])
               PROVE  HasDesign(disk'[p])
    BY DEF GateAfterPatches, HasDesign, IsPatch
  <2>1. (p \notin disturbed /\ disk'[p] = disk[p]) \/ HasDesign(disk'[p])
    BY ReplacedPatch
  <2>2. CASE g = f
    BY <2>1, <2>2, ReplacedGate
  <2>3. CASE g # f
    <3>1. g \notin disturbed /\ HasDesign(disk[g])
      BY <1>2, <2>3
    <3> QED
      BY <2>1, <3>1 DEF ApplyInv, GateAfterPatches, HasDesign, IsPatch
  <2> QED
    BY <2>2, <2>3
<1> QED
  BY <1>1, <1>3, <1>6, <1>7, <1>8, <1>9 DEF ApplyInv

LEMMA EditFileStep == ASSUME ApplyInv, NEW f \in Files, EditFile(f) PROVE ApplyInv'
<1> PICK held \in {{}} \cup {{t} : t \in Texts} : disk' = [disk EXCEPT ![f] = held]
  BY DEF EditFile
<1>1. held \in Held /\ AtMostOne(held, Texts)
  BY DEF Held, AtMostOne
<1>2. \A g \in Files \ {f} : disk'[g] = disk[g]
  BY DEF ApplyInv, Contents
<1>3. Contents' /\ Ghosts'
  BY <1>1, PlanAssumption DEF ApplyInv, Contents, Ghosts, EditFile, Upset
<1>4. ASSUME NEW k \in Jobs PROVE Fine(k)'
  <2>1. ~Current(k, f) => \A g \in job[k].file : g \in Files /\ disk'[g] = disk[g]
    BY <1>2 DEF Current, ApplyInv, Applies
  <2>2. k \notin raced' => k \notin raced /\ ~Current(k, f)
    BY DEF EditFile
  <2>3. k \notin stirred' => k \notin stirred /\ ~Current(k, f)
    BY DEF EditFile
  <2>4. \A p \in Files \ disturbed' : p \notin disturbed /\ disk'[p] = disk[p]
    BY <1>2 DEF EditFile
  <2> QED
    BY <2>1, <2>2, <2>3, <2>4, Bystander DEF EditFile
<1>5. GateAfterPatches'
  BY <1>2 DEF ApplyInv, GateAfterPatches, EditFile
<1> QED
  BY <1>3, <1>4, <1>5 DEF ApplyInv, EditFile

-----------------------------------------------------------------------------
LEMMA StepKeeps == ApplyInv /\ [Next]_vars => ApplyInv'
<1> SUFFICES ASSUME ApplyInv, [Next]_vars PROVE ApplyInv'
  OBVIOUS
<1>1. CASE UNCHANGED vars
  BY <1>1 DEF vars, ApplyInv, Contents, Ghosts, Fine, Typed, Looked, Kept, Safe, Shaped, Patched,
     InOrder, Accounted, Designs, Writing, InHand, At, Expected, New, Deletes, GateAfterPatches
<1>2. ASSUME NEW j \in Jobs, Step(j) PROVE ApplyInv'
  <2>1. CASE Review(j) \/ Rebuild(j) \/ Preflight(j) \/ Cancel(j)
    BY <2>1, ReviewStep, RebuildStep, PreflightStep, CancelStep
  <2>2. CASE BeginFile(j) \/ LeaveAlone(j) \/ BackUp(j) \/ LastLook(j) \/ Replace(j) \/ Verify(j)
    BY <2>2, BeginStep, LeaveStep, BackUpStep, LookStep, ReplaceStep, VerifyStep
  <2>3. CASE Refuse(j) \/ Fail(j) \/ Finish(j) \/ Crash(j)
    BY <2>3, RefuseStep, FailStep, FinishStep, CrashStep
  <2> QED
    BY <1>2, <2>1, <2>2, <2>3 DEF Step
<1> QED
  BY <1>1, <1>2, EditFileStep, EditSourceStep DEF Next

LEMMA InvAlways == Spec => []ApplyInv
BY InitApply, StepKeeps, PTL DEF Spec

\* Types, and every pending file of an apply that runs (apply_built, the loop over the pending files) is
\* either written or left.
THEOREM TypeCorrect == Spec => []TypeOK
BY InvAlways, TypeOf, PTL

\* The comparison, the backup and the last look of the guarded writer: a job replaces only what its plan
\* found and backed up, unless somebody changed the file since the job's own last look or backup.
THEOREM OnlyPlanned == Spec => PlannedAndKept
<1> DEFINE Safely == \A j \in Jobs, f \in Files :
         (At(j, "looked") /\ Current(j, f) /\ job'[j].pc # "looked" /\ disk'[f] # disk[f]) =>
             /\ j \in raced \/ Expected(j, f)
             /\ \/ j \in stirred \/ disk[f] \subseteq backups[f]
                \/ ~Deletes(j, f) /\ ~job[j].request.backup
<1>1. ApplyInv => Safely
  BY DEF ApplyInv, Fine, Looked, Kept, Safe, At, Current
<1>2. ApplyInv /\ [Next]_vars => [Safely]_vars
  BY <1>1
<1> QED
  BY <1>2, InvAlways, PTL DEF Spec, PlannedAndKept

\* The write order of a plan (write_rank): the gate stands beside the patches it gates, whatever is
\* cancelled, fails, crashes or runs at the same time.
THEOREM GateLast == Spec => []GateAfterPatches
<1>1. ApplyInv => GateAfterPatches
  BY DEF ApplyInv
<1> QED
  BY <1>1, InvAlways, PTL

\* The answers of apply_built: an error or a refusal changed nothing but the file it names, and a report
\* names the rest.
THEOREM NothingUnnamed == Spec => []AnswerNamesChanges
<1>1. ApplyInv => AnswerNamesChanges
  <2> SUFFICES ASSUME ApplyInv, NEW j \in Jobs, Answered(j) PROVE did[j] \subseteq Named(j)
    BY DEF AnswerNamesChanges
  <2>1. Accounted(j)
    BY DEF ApplyInv, Fine
  <2> QED
    BY <2>1 DEF Accounted, Answered, Named, At
<1> QED
  BY <1>1, InvAlways, PTL
=============================================================================

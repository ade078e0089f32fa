------------------------------- MODULE Deploy -------------------------------
(* The entry a project has in the game's Mods folder: made and removed by   *)
(* rimstudio-library deploy (inspect.rs, ops.rs, manifest.rs) through the   *)
(* write fence (rimstudio-io fence.rs). One entry name is modelled; several *)
(* projects may have a folder of that name. A process makes one call at a   *)
(* time (DEPLOY_LOCK); the record of the entry, kept in the data root, is   *)
(* shared by the processes, and so is the Mods folder, where a person may   *)
(* do anything at any time.                                                 *)
(* Optional values (Option in the code) are sets of at most one element.    *)
EXTENDS Naturals, FiniteSets

CONSTANTS
    Processes,
    Targets,     \* the folders of the projects with this folder name
    Elsewhere,   \* where a link points that points at none of them
    MaxCalls,    \* bound: calls of create and remove
    MaxUpsets    \* bound: failing operations, crashes and changes by a person, together

ASSUME DeployAssumption ==
    Elsewhere \notin Targets /\ MaxCalls \in Nat /\ MaxUpsets \in Nat

Modes == {"link", "copy"}    \* EntryMode: symlinks and junctions are links
Places == Targets \cup {Elsewhere}
Makers == {"us", "person"}

\* What stands under the name: a link, or a folder (a copy of `to`, when this program made it) with or
\* without the ownership marker; and who had a hand in it, which no code sees.
Entries == [kind : {"link", "folder"}, to : Places, marker : BOOLEAN, by : (SUBSET Makers) \ {{}}]
Records == [mode : Modes, target : Targets]
Ops == {"create", "remove"}
AtMostOne(s, S) == s \subseteq S /\ \A x, y \in s : x = y

VARIABLES
    entry,       \* Mods/<name> on disk
    record,      \* the ownership record on disk
    th,          \* each process: program point, its call, the record it read, the fence's ownership
                 \* set, and whether nobody else changed the entry since the fence looked
    overlapped,  \* two processes were in a call at the same time
    calls, upsets

linkVars == <<entry, record, th, overlapped, calls, upsets>>

PCs == {"idle", "inspect", "put", "fence", "free", "copying", "forget", "seed", "own", "checked"}
Calling == [pc : PCs, op : Ops, target : Targets, mode : Modes,
            record : SUBSET Records, owned : SUBSET Records, quiet : BOOLEAN]

LinkInit ==
    /\ entry = {} /\ record = {}
    /\ \E t \in Targets :
         th = [p \in Processes |-> [pc |-> "idle", op |-> "create", target |-> t, mode |-> "link",
                                    record |-> {}, owned |-> {}, quiet |-> FALSE]]
    /\ overlapped = FALSE /\ calls = 0 /\ upsets = 0

At(p, pc) == th[p].pc = pc
Goto(p, pc) == th' = [th EXCEPT ![p].pc = pc]
Return(p) == th' = [th EXCEPT ![p].pc = "idle", ![p].quiet = FALSE]
Upset == upsets < MaxUpsets /\ upsets' = upsets + 1

\* The entry changes; a process that looked at it before knows nothing of that. `own` is the new
\* program point of the process that changed it, whose look is over unless it goes on with a copy.
Disturbed(p, own) ==
    [q \in Processes |-> IF q = p THEN [th[q] EXCEPT !.pc = own, !.quiet = own = "copying" /\ th[q].quiet]
                         ELSE [th[q] EXCEPT !.quiet = FALSE]]
-----------------------------------------------------------------------------
(* inspect.rs *)

\* classify(): the state of the entry, seen from a project.
Classify(rec, e, target) ==
    LET recorded == \E r \in rec : r.mode = "link" /\ r.target = e.to
        copied == \E r \in rec : r.mode = "copy"
    IN  CASE e.kind = "link" /\ recorded /\ e.to = target -> "linked"
          [] e.kind = "link" /\ recorded /\ e.to # target -> "stale"
          [] e.kind = "link" /\ ~recorded /\ e.to = target -> "linked-by-hand"
          [] e.kind = "link" /\ ~recorded /\ e.to # target -> "foreign-link"
          [] e.kind = "folder" /\ copied /\ e.marker -> "copy"
          [] OTHER -> "foreign-folder"

State(p) == IF entry = {} THEN "not-linked"
            ELSE LET e == CHOOSE e \in entry : TRUE IN Classify(th[p].record, e, th[p].target)

CanRemove == {"linked", "stale", "copy"}

\* The lock is taken and the record read; a record that cannot be read counts as none.
Begin(p, op, target, mode) ==
    /\ At(p, "idle") /\ calls < MaxCalls
    /\ calls' = calls + 1
    /\ overlapped' = (overlapped \/ \E q \in Processes \ {p} : ~At(q, "idle"))
    /\ \E unread \in BOOLEAN :
         /\ IF unread THEN record # {} /\ Upset ELSE UNCHANGED upsets
         /\ th' = [th EXCEPT ![p] = [pc |-> "inspect", op |-> op, target |-> target, mode |-> mode,
                                     record |-> IF unread THEN {} ELSE record,
                                     owned |-> {}, quiet |-> FALSE]]
    /\ UNCHANGED <<entry, record>>
-----------------------------------------------------------------------------
(* ops.rs, create, and the creating half of the fence. *)

DecideCreate(p) ==
    /\ At(p, "inspect") /\ th[p].op = "create" /\ State(p) = "not-linked"
    /\ Goto(p, "put")
    /\ UNCHANGED <<entry, record, overlapped, calls, upsets>>

\* The entry is not free; or the game runs, the mode is not supported, a folder is missing.
RefuseCreate(p) ==
    /\ At(p, "inspect") /\ th[p].op = "create"
    /\ Return(p)
    /\ UNCHANGED <<entry, record, overlapped, calls, upsets>>

\* Mutant of PutRecord: a record that is there already is taken for this one.
PutWhenMissing(p) ==
    /\ At(p, "put")
    /\ record' = IF record = {} THEN {[mode |-> th[p].mode, target |-> th[p].target]} ELSE record
    /\ th' = [th EXCEPT ![p].pc = "fence", ![p].owned = {[mode |-> th[p].mode, target |-> th[p].target]}]
    /\ UNCHANGED <<entry, overlapped, calls, upsets>>

PutRecord(p) ==
    /\ At(p, "put")
    /\ record' = {[mode |-> th[p].mode, target |-> th[p].target]}
    /\ th' = [th EXCEPT ![p].pc = "fence", ![p].owned = record']
    /\ UNCHANGED <<entry, overlapped, calls, upsets>>

FailPut(p) ==
    /\ At(p, "put") /\ Upset
    /\ Return(p)
    /\ UNCHANGED <<entry, record, overlapped, calls>>

Creates(p, mode) == At(p, "fence") /\ th[p].op = "create" /\ th[p].mode = mode

\* CreateOwnedLink: a link is only made where nothing is.
MakeLink(p) ==
    /\ Creates(p, "link") /\ entry = {}
    /\ entry' = {[kind |-> "link", to |-> th[p].target, marker |-> FALSE, by |-> {"us"}]}
    /\ th' = Disturbed(p, "idle")
    /\ UNCHANGED <<record, overlapped, calls, upsets>>

CheckFree(p) ==
    /\ Creates(p, "copy") /\ entry = {}
    /\ th' = [th EXCEPT ![p].pc = "free", ![p].quiet = TRUE]
    /\ UNCHANGED <<entry, record, overlapped, calls, upsets>>

\* The fence refuses: the name is taken, the project is inside the game, a call fails.
RefuseEntry(p) ==
    /\ At(p, "fence") /\ th[p].op = "create"
    /\ IF entry = {} THEN Upset ELSE UNCHANGED upsets
    /\ Goto(p, "forget")
    /\ UNCHANGED <<entry, record, overlapped, calls>>

\* What a file written below the entry makes of it: a folder that was there stays, a link is followed.
Filled(p, marked) ==
    IF entry = {}
    THEN {[kind |-> "folder", to |-> th[p].target, marker |-> marked, by |-> {"us"}]}
    ELSE {IF e.kind = "link" THEN e
          ELSE [e EXCEPT !.by = @ \cup {"us"}, !.marker = @ \/ marked] : e \in entry}

\* copy_tree creates the folder, or uses the one that is there.
StartCopy(p) ==
    /\ At(p, "free")
    /\ entry' = Filled(p, FALSE)
    /\ th' = Disturbed(p, "copying")
    /\ UNCHANGED <<record, overlapped, calls, upsets>>

\* The marker comes last. It is written like every file: a folder that is gone is made for it.
FinishCopy(p) ==
    /\ At(p, "copying")
    /\ entry' = Filled(p, TRUE)
    /\ th' = Disturbed(p, "idle")
    /\ UNCHANGED <<record, overlapped, calls, upsets>>

\* The copy fails, and what there is of it is removed, unless that fails too.
FailCopy(p) ==
    /\ th[p].pc \in {"free", "copying"}
    /\ IF At(p, "copying") /\ entry = {} THEN UNCHANGED upsets ELSE Upset
    /\ entry' \in {{}, entry}
    /\ th' = Disturbed(p, "forget")
    /\ UNCHANGED <<record, overlapped, calls>>
-----------------------------------------------------------------------------
(* ops.rs, remove, and the removing half of the fence. *)

DecideRemove(p) ==
    /\ At(p, "inspect") /\ th[p].op = "remove"
    /\ th[p].record # {} /\ State(p) \in CanRemove
    /\ Goto(p, "seed")
    /\ UNCHANGED <<entry, record, overlapped, calls, upsets>>

RefuseRemove(p) ==
    /\ At(p, "inspect") /\ th[p].op = "remove"
    /\ th[p].record = {} \/ State(p) \notin CanRemove
    /\ Return(p)
    /\ UNCHANGED <<entry, record, overlapped, calls, upsets>>

\* set_owned: the fence learns the records as they are now.
Seed(p) ==
    /\ At(p, "seed")
    /\ th' = [th EXCEPT ![p].pc = "own", ![p].owned = record]
    /\ UNCHANGED <<entry, record, overlapped, calls, upsets>>

\* The fence removes an entry of the recorded kind: a link that points at the recorded target, a marked
\* folder.
Owns(p) ==
    \E o \in th[p].owned, r \in th[p].record, e \in entry :
        /\ o.mode = r.mode
        /\ o.mode = "link" => e.kind = "link" /\ e.to = o.target
        /\ o.mode = "copy" => e.kind = "folder" /\ e.marker

\* Mutant of CheckOwned: that inspect() found the entry to be ours is enough.
CheckRecorded(p) ==
    /\ At(p, "own") /\ entry # {}
    /\ th' = [th EXCEPT ![p].pc = "checked", ![p].quiet = TRUE]
    /\ UNCHANGED <<entry, record, overlapped, calls, upsets>>

CheckOwned(p) ==
    /\ At(p, "own") /\ Owns(p)
    /\ th' = [th EXCEPT ![p].pc = "checked", ![p].quiet = TRUE]
    /\ UNCHANGED <<entry, record, overlapped, calls, upsets>>

RefuseOwned(p) ==
    /\ At(p, "own") /\ ~Owns(p)
    /\ Return(p)
    /\ UNCHANGED <<entry, record, overlapped, calls, upsets>>

RemovesLink(p) == \A r \in th[p].record : r.mode = "link"

\* remove_link takes links only; remove_tree takes whatever is there.
TakeAway(p) ==
    /\ At(p, "checked") /\ entry # {}
    /\ RemovesLink(p) => \A e \in entry : e.kind = "link"
    /\ entry' = {}
    /\ th' = Disturbed(p, "forget")
    /\ UNCHANGED <<record, overlapped, calls, upsets>>

\* The removal fails: the entry is not there or not a link any more, or a call fails, in a folder
\* perhaps after the marker is gone.
FailTake(p) ==
    /\ At(p, "checked")
    /\ \/ /\ entry = {} \/ (RemovesLink(p) /\ \E e \in entry : e.kind = "folder")
          /\ UNCHANGED <<entry, upsets>>
       \/ /\ Upset
          /\ \/ UNCHANGED entry
             \/ ~RemovesLink(p) /\ entry' = {[e EXCEPT !.marker = FALSE] : e \in entry}
    /\ th' = Disturbed(p, "idle")
    /\ UNCHANGED <<record, overlapped, calls>>

\* After a failed create and after a removal; whether the record could be deleted is not looked at.
Forget(p) ==
    /\ At(p, "forget")
    /\ \/ record' = {} /\ UNCHANGED upsets
       \/ Upset /\ UNCHANGED record
    /\ Return(p)
    /\ UNCHANGED <<entry, overlapped, calls>>
-----------------------------------------------------------------------------
(* The environment. *)

Crash(p) ==
    /\ ~At(p, "idle") /\ Upset
    /\ Return(p)
    /\ UNCHANGED <<entry, record, overlapped, calls>>

\* A person deletes what is there, or puts a link or a folder there.
ByHand ==
    /\ Upset
    /\ \/ entry # {} /\ entry' = {}
       \/ entry = {} /\ \E to \in Places :
            entry' = {[kind |-> "link", to |-> to, marker |-> FALSE, by |-> {"person"}]}
       \/ entry = {} /\ entry' = {[kind |-> "folder", to |-> Elsewhere, marker |-> FALSE, by |-> {"person"}]}
    /\ th' = [q \in Processes |-> [th[q] EXCEPT !.quiet = FALSE]]
    /\ UNCHANGED <<record, overlapped, calls>>

LinkStep(p) ==
    \/ \E op \in Ops, target \in Targets, mode \in Modes : Begin(p, op, target, mode)
    \/ DecideCreate(p) \/ RefuseCreate(p) \/ PutRecord(p) \/ FailPut(p)
    \/ MakeLink(p) \/ CheckFree(p) \/ RefuseEntry(p)
    \/ StartCopy(p) \/ FinishCopy(p) \/ FailCopy(p)
    \/ DecideRemove(p) \/ RefuseRemove(p) \/ Seed(p) \/ CheckOwned(p) \/ RefuseOwned(p)
    \/ TakeAway(p) \/ FailTake(p) \/ Forget(p)
    \/ Crash(p)

LinkNext == (\E p \in Processes : LinkStep(p)) \/ ByHand

LinkSpec == LinkInit /\ [][LinkNext]_linkVars
-----------------------------------------------------------------------------
(* Properties. *)

TypeOK ==
    /\ AtMostOne(entry, Entries) /\ AtMostOne(record, Records)
    /\ th \in [Processes -> Calling]
    /\ \A p \in Processes : AtMostOne(th[p].record, Records) /\ AtMostOne(th[p].owned, Records)
    /\ overlapped \in BOOLEAN /\ calls \in Nat /\ upsets \in Nat

\* ops.rs, create: "a crash after this leaves a record without an entry, never an entry that is not
\* recorded". As long as the calls of two processes do not overlap, a link or a finished copy that this
\* program made has a record of its kind and its target at every moment, so a remove finds it; whatever
\* fails, crashes or is done by hand.
AlwaysRecorded ==
    ~overlapped =>
        \A e \in entry : (e.by = {"us"} /\ (e.kind = "link" \/ e.marker)) =>
            \E r \in record : /\ r.mode = "link" <=> e.kind = "link"
                              /\ r.target = e.to

\* What a person put under the name, process p touches only in the moment between the fence's look and
\* its act, and except a link that is the same as the recorded one.
PersonKept ==
    [][\A p \in Processes, e \in entry :
         (th'[p].pc # th[p].pc /\ e.by = {"person"} /\ entry' # entry)
            => \/ ~th[p].quiet
               \/ e.kind = "link" /\ \E o \in th[p].owned : o.target = e.to]_linkVars

=============================================================================

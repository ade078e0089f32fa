------------------------------- MODULE Store -------------------------------
(***************************************************************************)
(* One settings file, settings.jsonc or workspace.jsonc, and the calls of   *)
(* rimstudio-manager that read and change it through rimstudio-io's         *)
(* Store<T> (store.rs, backup.rs; manager settings.rs, sources.rs,          *)
(* detect.rs, ctx.rs).                                                      *)
(*                                                                          *)
(* Every call opens a Store of its own, so neither the state nor the write  *)
(* lock of a Store is shared between two calls: a Store is here part of the *)
(* record of its call.  Between the steps of a call other calls and the     *)
(* person who edits the file by hand take theirs.  Abstracted: a text is    *)
(* its schema version and its value, comments and layout are left out,      *)
(* there is one older version, and all backups are of one day, of which the *)
(* policy keeps every one.                                                  *)
(***************************************************************************)
EXTENDS Naturals, Sequences, SequencesExt

CONSTANTS
    Callers,    \* who makes calls: threads of the app, of any process
    Keys,       \* the settings of the document
    Values,     \* what a setting can be
    Default,    \* the value a missing document means
    MaxCalls,   \* bound: calls that begin
    MaxUpsets   \* bound: hand edits, failing steps and crashes, together

ASSUME DefaultAssumption == Default \in Values
ASSUME BoundsAssumption == MaxCalls \in Nat /\ MaxUpsets \in Nat

Docs == [Keys -> Values]
Defaults == [k \in Keys |-> Default]

\* now, old and newer decode as the current, an older or a newer schema;
\* odd parses but does not decode, or fails its migration; bad does not
\* parse, is too large or is not UTF-8.
Versions == {"now", "old", "newer", "odd", "bad"}
Texts == [ver : Versions, doc : Docs]
Current(d) == [ver |-> "now", doc |-> d]
\* What a person can leave in the file; what an undecodable text would mean is
\* never looked at, so one value does for it.
HandTexts == {t \in Texts : t.ver \in {"odd", "bad"} => t.doc = Defaults}

VARIABLES
    kind,       \* which file it is: its callers differ
    file,       \* its text: a set of at most one, empty when it is missing
    backups,    \* the rotated copies, oldest first
    pre,        \* the .bak-vN copy, a set of at most one
    call,       \* the call each caller makes
    begun, upsets

vars == <<kind, file, backups, pre, call, begun, upsets>>
disk == <<kind, file, backups, pre>>

\* A call: where it is, what it is for, the setting it changes, the document
\* it saves, the text it writes, its Store's State, the file as its save or
\* edit read it; and two ghosts, the file as its last load and as the last
\* rotate of its write found it.
NoCall == [pc |-> "idle", doing |-> "read", arg |-> <<>>, val |-> Defaults,
           text |-> Current(Defaults), blocked |-> FALSE, pending |-> FALSE,
           base |-> {}, loaded |-> {}, copied |-> {}]

Init ==
    /\ kind \in {"settings", "workspace"}
    /\ file \in {{}} \cup {{t} : t \in HandTexts}
    /\ backups = <<>>
    /\ pre = {}
    /\ call = [c \in Callers |-> NoCall]
    /\ begun = 0
    /\ upsets = 0

At(c, p) == call[c].pc = p
Now(c, new) == call' = [call EXCEPT ![c] = new]
Goto(c, p) == Now(c, [call[c] EXCEPT !.pc = p])
\* The call returns, with or without an error, and its Store is dropped.
Return(c) == Now(c, NoCall)
Begin == begun < MaxCalls /\ begun' = begun + 1
Upset == upsets < MaxUpsets /\ upsets' = upsets + 1
Quiet == UNCHANGED <<begun, upsets>>

-----------------------------------------------------------------------------
(* Loading: the document, and what the load leaves in the State.            *)

DocOf(f) == IF f = {} THEN Defaults ELSE (CHOOSE t \in f : TRUE).doc
\* Mutant of Blocks: a file of a newer app that decodes can be saved.
BlocksUnreadable(f) == \E t \in f : t.ver \in {"odd", "bad"}

Blocks(f) == \E t \in f : t.ver \notin {"now", "old"}

\* The record of a call after Store::load.
Load(r) == [r EXCEPT !.loaded = file, !.blocked = Blocks(file),
                     !.pending = \E t \in file : t.ver = "old",
                     !.val = DocOf(file)]

(* A change of workspace.jsonc (workspace_for_edit, then the change of the   *)
(* value): refused when the load is read only.                              *)
BeginChange(c, k, v) ==
    /\ kind = "workspace" /\ At(c, "idle") /\ Begin
    /\ LET r == Load(call[c]) IN
       IF r.blocked THEN Return(c)
       ELSE Now(c, [r EXCEPT !.pc = "save", !.doing = "save", !.val[k] = v])
    /\ UNCHANGED <<disk, upsets>>

(* settings::get and settings::update start with ensure_file.               *)
BeginGet(c) ==
    /\ kind = "settings" /\ At(c, "idle") /\ Begin
    /\ Goto(c, IF file = {} THEN "ensure" ELSE "load")
    /\ UNCHANGED <<disk, upsets>>

BeginUpdate(c, k, v) ==
    /\ kind = "settings" /\ At(c, "idle") /\ Begin
    /\ Now(c, [call[c] EXCEPT !.pc = IF file = {} THEN "ensure" ELSE "load",
                              !.doing = "edit", !.arg = <<k, v>>])
    /\ UNCHANGED <<disk, upsets>>

Ensure(c) ==
    /\ At(c, "ensure")
    /\ file' = {Current(Defaults)}
    /\ Goto(c, "load")
    /\ UNCHANGED <<kind, backups, pre>> /\ Quiet

\* A get ends here.  An update is refused when the load is read only, and
\* saves a pending migration first: Store::edit loads the file again for it.
LoadSettings(c) ==
    /\ At(c, "load")
    /\ LET r == Load(call[c]) IN
       IF r.doing = "read" \/ r.blocked THEN Return(c)
       ELSE Now(c, [r EXCEPT !.pc = IF r.pending THEN "reload" ELSE "edit"])
    /\ UNCHANGED disk /\ Quiet

Reload(c) ==
    /\ At(c, "reload")
    /\ LET r == Load(call[c]) IN
       Now(c, [r EXCEPT !.pc = IF r.blocked THEN "edit" ELSE "save",
                        !.doing = IF r.blocked THEN "edit" ELSE "save"])
    /\ UNCHANGED disk /\ Quiet

-----------------------------------------------------------------------------
(* Store::save and Store::edit: read, back up, write.                       *)

\* After a save: the save inside an edit goes on with the edit.
AfterSave(c) ==
    IF kind = "settings"
    THEN Now(c, [call[c] EXCEPT !.pc = "edit", !.doing = "edit"])
    ELSE Return(c)

\* Only a text that does not parse is refused here.  A newer or odd one that
\* came after the load is synced like any other; only the baseline is missing.
SaveRead(c) ==
    /\ At(c, "save")
    /\ \/ /\ \E t \in file : t.ver = "bad"
          /\ Return(c)
       \/ /\ Current(call[c].val) \in file
          /\ AfterSave(c)
       \/ /\ \A t \in file : t.ver # "bad" /\ t # Current(call[c].val)
          /\ Now(c, [call[c] EXCEPT
                       !.pc = IF file = {} THEN "write"
                              ELSE IF call[c].pending THEN "keep" ELSE "rotate",
                       !.text = Current(call[c].val),
                       !.base = file, !.copied = {}])
    /\ UNCHANGED disk /\ Quiet

\* Mutant of Edited: the edit starts from the document the load gave.
EditedLoaded(c, f) ==
    {[call[c].val EXCEPT ![call[c].arg[1]] = call[c].arg[2]]}

\* What the edited text decodes to, when it may be written.  The edit may
\* replace the very value that made a text odd.
Edited(c, f) ==
    LET set(d) == [d EXCEPT ![call[c].arg[1]] = call[c].arg[2]]
    IN  IF f = {} THEN {set(Defaults)}
        ELSE {set(t.doc) : t \in {u \in f : u.ver \in {"now", "odd"}}}

\* Refused when blocked; when the text does not parse; and when the edited
\* text does not decode as the current version.  A text that is as it was is
\* not written.
EditRead(c) ==
    /\ At(c, "edit")
    /\ \/ /\ \/ call[c].blocked
             \/ \E t \in file : t.ver # "now"
             \/ \E d \in Edited(c, file) : Current(d) \in file
          /\ Return(c)
       \/ /\ ~call[c].blocked
          /\ \E d \in Edited(c, file) :
               /\ Current(d) \notin file
               /\ Now(c, [call[c] EXCEPT !.pc = "rotate", !.base = file,
                            !.text = Current(d), !.copied = {}])
    /\ UNCHANGED disk /\ Quiet

\* Mutant of KeepPre: the copy is added beside the one that is there.
KeepPreBeside(c) ==
    /\ At(c, "keep") /\ pre' = pre \cup file /\ Goto(c, "rotate")
    /\ UNCHANGED <<kind, file, backups>> /\ Quiet

\* keep_pre_migration copies the file as it is now, over an earlier copy.
KeepPre(c) ==
    /\ At(c, "keep")
    /\ pre' = IF file = {} THEN pre ELSE file
    /\ Goto(c, "rotate")
    /\ UNCHANGED <<kind, file, backups>> /\ Quiet

\* Mutant of WithBackup: no second backup while there is one.
WithFirstBackup(f) ==
    IF f = {} \/ backups # <<>> THEN backups
    ELSE Append(backups, CHOOSE t \in f : TRUE)

\* backup::rotate: the newest backup is not repeated.
WithBackup(f) ==
    IF f = {} \/ (backups # <<>> /\ Last(backups) \in f) THEN backups
    ELSE Append(backups, CHOOSE t \in f : TRUE)

Rotate(c) ==
    /\ At(c, "rotate")
    /\ backups' = WithBackup(file)
    /\ Now(c, [call[c] EXCEPT !.pc = "write", !.copied = file])
    /\ UNCHANGED <<kind, file, pre>> /\ Quiet

\* write_verified: the rename; what a verification that fails leaves is Fail.
Write(c) ==
    /\ At(c, "write")
    /\ file' = {call[c].text}
    /\ IF call[c].doing = "save" THEN AfterSave(c) ELSE Return(c)
    /\ UNCHANGED <<kind, backups, pre>> /\ Quiet

-----------------------------------------------------------------------------
(* A step that fails ends the call with an error.  A failing write leaves    *)
(* the old text, or the new one when only its verification fails.           *)
Fail(c) ==
    /\ call[c].pc \in {"ensure", "keep", "rotate", "write"} /\ Upset
    /\ file' \in {file} \cup {{call[d].text} : d \in {d \in {c} : At(d, "write")}}
    /\ Return(c)
    /\ UNCHANGED <<kind, backups, pre, begun>>

\* The process ends; every write is atomic.
Crash ==
    /\ Upset
    /\ call' = [c \in Callers |-> NoCall]
    /\ UNCHANGED <<disk, begun>>

\* The person edits, breaks, replaces or deletes the file.
HandEdit ==
    /\ Upset
    /\ file' \in ({{}} \cup {{t} : t \in HandTexts}) \ {file}
    /\ UNCHANGED <<kind, backups, pre, call, begun>>

Next ==
    \/ \E c \in Callers, k \in Keys, v \in Values :
         BeginChange(c, k, v) \/ BeginUpdate(c, k, v)
    \/ \E c \in Callers :
         \/ BeginGet(c) \/ Ensure(c) \/ LoadSettings(c) \/ Reload(c)
         \/ SaveRead(c) \/ EditRead(c) \/ KeepPre(c) \/ Rotate(c) \/ Write(c)
         \/ Fail(c)
    \/ Crash
    \/ HandEdit

Spec == Init /\ [][Next]_vars

-----------------------------------------------------------------------------
(* The types: the file and the .bak-vN copy are one text or none, and a call *)
(* that writes has a text of the current version.                           *)
Files == {{}} \cup {{t} : t \in Texts}
CallType ==
    [pc : {"idle", "ensure", "load", "reload", "save", "edit", "keep", "rotate",
           "write"},
     doing : {"read", "save", "edit"}, arg : {<<>>} \cup (Keys \X Values),
     val : Docs, text : {Current(d) : d \in Docs},
     blocked : BOOLEAN, pending : BOOLEAN,
     base : Files, loaded : Files, copied : Files]
TypeOK ==
    /\ kind \in {"settings", "workspace"}
    /\ file \in Files /\ pre \in Files
    /\ backups \in Seq(Texts)
    /\ call \in [Callers -> CallType]
    /\ begun \in 0..MaxCalls /\ upsets \in 0..MaxUpsets

\* The steps that replace the file after a save or an edit read it.
Replaces(c) == At(c, "write") /\ call'[c].pc # "write"
Replaced == file \ file'

\* A save or edit never replaces a text it found unreadable: neither one that
\* did not parse when it read the file, nor one its load could not take
\* faithfully, of a newer app or undecodable; and an edit no newer or older
\* text even when it came after the load (store.rs: never overwrites a file it
\* could not read faithfully).  What a person puts there later is not covered.
UnreadableKept ==
    [][\A c \in Callers : Replaces(c) =>
         /\ \A t \in Replaced \cap call[c].base :
              /\ t.ver # "bad"
              /\ call[c].doing = "edit" => t.ver \in {"now", "odd"}
         /\ \A t \in Replaced \cap call[c].loaded : t.ver \in {"now", "old"}]_vars

\* A text that a save or edit replaces is among the backups, unless it came
\* after the rotate that this write made (store.rs: after a verified backup),
\* whatever other calls, hand edits and failures came in between.
ReplacedIsBackedUp ==
    [][\A c \in Callers : Replaces(c) =>
         \A t \in Replaced \cap call[c].copied :
           \E i \in DOMAIN backups : backups[i] = t]_vars

\* An update of one setting leaves the other settings of the text it replaces,
\* those another call changed after this one loaded the file included
\* (settings.rs, apply_to_file: everything else stays as it is).
OtherSettingsKept ==
    [][\A c \in Callers : Replaces(c) /\ call[c].doing = "edit" =>
         \A t \in Replaced \cap call[c].base, u \in file' :
           \A k \in Keys \ {call[c].arg[1]} : u.doc[k] = t.doc[k]]_vars

=============================================================================

---------------------------- MODULE StoreProofs ----------------------------
(***************************************************************************)
(* Theorems about Store, for any callers, settings, values and bounds.      *)
(*                                                                         *)
(* The file may change between any two steps of a call, so nothing can be   *)
(* said of it while a call is under way.  What each call remembers is       *)
(* enough: its State agrees with the file as its load found it, the text it *)
(* is about to write fits the file as its read found it, and the backups    *)
(* hold what its rotate found.  The inductive invariant says this of every  *)
(* call by itself, so a step has to establish it only for its own call.     *)
(***************************************************************************)
EXTENDS Store, TLAPS

Writing == {"keep", "rotate", "write"}

\* What a call remembers, by itself.
Remembers(r) ==
    /\ r.blocked = Blocks(r.loaded)
    /\ r.pc \in {"save"} \cup Writing => ~r.blocked
    /\ r.pc \in Writing =>
         \A t \in r.base : t.ver # "bad" /\ (r.doing = "edit" => t.ver \in {"now", "odd"})
    /\ r.pc \in Writing /\ r.doing = "edit" =>
         \A t \in r.base : \A k \in Keys \ {r.arg[1]} : r.text.doc[k] = t.doc[k]

\* What it is for: only calls on settings.jsonc edit, and those know what.
Purpose(kd, r) ==
    /\ r.pc \in {"reload"} \cup Writing => r.doing # "read"
    /\ r.pc = "save" => r.doing = "save"
    /\ r.pc = "edit" => r.doing = "edit"
    /\ r.pc = "keep" => r.doing = "save"
    /\ r.pc = "idle" => r.doing = "read"
    /\ r.pc \in {"ensure", "load"} => r.doing # "save"
    /\ kd = "settings" /\ r.doing # "read" => r.arg \in Keys \X Values
    /\ r.doing = "edit" => kd = "settings"
    /\ kd = "workspace" => r.pc \notin {"ensure", "load", "reload", "edit"}

HasBackup(r, b) == \A t \in r.copied : \E i \in DOMAIN b : b[i] = t

CallOK(kd, b, r) ==
    r \in CallType /\ Remembers(r) /\ Purpose(kd, r) /\ HasBackup(r, b)

StoreInv ==
    /\ TypeOK
    /\ \A c \in Callers : CallOK(kind, backups, call[c])

-----------------------------------------------------------------------------
LEMMA DefaultsTyped == Defaults \in Docs /\ Current(Defaults) \in Texts
BY DefaultAssumption DEF Defaults, Docs, Current, Texts, Versions

LEMMA NoCallOK == ASSUME NEW kd, NEW b PROVE CallOK(kd, b, NoCall)
<1>1. NoCall \in CallType
  BY DefaultsTyped DEF NoCall, CallType, Files
<1> QED
  BY <1>1 DEF CallOK, NoCall, Remembers, Purpose, HasBackup, Blocks, Writing

\* The file, when there is one, is one text.
LEMMA DocOfTyped == ASSUME NEW f \in Files PROVE DocOf(f) \in Docs
<1>1. CASE f = {}
  BY <1>1, DefaultsTyped DEF DocOf
<1>2. CASE f # {}
  <2>1. PICK t \in Texts : f = {t}
    BY <1>2 DEF Files
  <2>2. (CHOOSE u \in f : TRUE) = t
    BY <2>1
  <2> QED
    BY <1>2, <2>1, <2>2 DEF DocOf, Texts
<1> QED
  BY <1>1, <1>2

\* A load leaves the call where it is, with a State that fits the file.
LEMMA LoadOK ==
    ASSUME TypeOK, NEW r \in CallType
    PROVE  /\ Load(r) \in CallType
           /\ Load(r).blocked = Blocks(Load(r).loaded)
           /\ Load(r).pc = r.pc /\ Load(r).doing = r.doing /\ Load(r).arg = r.arg
           /\ Load(r).base = r.base /\ Load(r).text = r.text
           /\ Load(r).copied = r.copied
<1>1. DocOf(file) \in Docs
  BY DocOfTyped DEF TypeOK
<1>2. Blocks(file) \in BOOLEAN /\ (\E t \in file : t.ver = "old") \in BOOLEAN
  BY DEF Blocks
<1> QED
  BY <1>1, <1>2 DEF Load, CallType, TypeOK

\* Backups are only added.
LEMMA RotateKeeps ==
    ASSUME TypeOK
    PROVE  /\ WithBackup(file) \in Seq(Texts)
           /\ \A t \in file : \E i \in DOMAIN WithBackup(file) : WithBackup(file)[i] = t
           /\ \A i \in DOMAIN backups :
                i \in DOMAIN WithBackup(file) /\ WithBackup(file)[i] = backups[i]
<1>1. CASE file = {}
  BY <1>1 DEF WithBackup, TypeOK
<1>2. CASE file # {} /\ backups # <<>> /\ Last(backups) \in file
  <2>1. PICK t \in Texts : file = {t}
    BY <1>2 DEF TypeOK, Files
  <2>2. Len(backups) \in DOMAIN backups /\ backups[Len(backups)] = t
    BY <1>2, <2>1 DEF TypeOK, Last
  <2> QED
    BY <1>2, <2>1, <2>2 DEF WithBackup, TypeOK
<1>3. CASE file # {} /\ ~(backups # <<>> /\ Last(backups) \in file)
  <2>1. PICK t \in Texts : file = {t}
    BY <1>3 DEF TypeOK, Files
  <2>2. WithBackup(file) = Append(backups, t)
    BY <1>3, <2>1 DEF WithBackup
  <2>3. backups \in Seq(Texts)
    BY DEF TypeOK
  <2> DEFINE longer == Append(backups, t)
  <2>4. longer \in Seq(Texts) /\ Len(longer) = Len(backups) + 1
    BY <2>3
  <2>5. longer[Len(backups) + 1] = t
    BY <2>3
  <2>6. \A i \in DOMAIN backups : i \in DOMAIN longer /\ longer[i] = backups[i]
    BY <2>3
  <2>7. Len(backups) + 1 \in DOMAIN longer
    BY <2>3, <2>4
  <2> HIDE DEF longer
  <2> QED
    BY <2>1, <2>2, <2>4, <2>5, <2>6, <2>7 DEF longer
<1> QED
  BY <1>1, <1>2, <1>3

\* The step of one call: the other calls remember what they did.
LEMMA OneCall ==
    ASSUME StoreInv, NEW c \in Callers, NEW new, Now(c, new),
           kind' = kind, file' \in Files, pre' \in Files,
           backups' \in Seq(Texts),
           \A i \in DOMAIN backups : i \in DOMAIN backups' /\ backups'[i] = backups[i],
           CallOK(kind, backups', new),
           begun' \in 0..MaxCalls, upsets' \in 0..MaxUpsets
    PROVE  StoreInv'
<1>1. call' = [call EXCEPT ![c] = new] /\ call \in [Callers -> CallType]
  BY DEF Now, StoreInv, TypeOK
<1>2. new \in CallType
  BY DEF CallOK
<1>3. TypeOK'
  BY <1>1, <1>2 DEF StoreInv, TypeOK
<1>4. ASSUME NEW d \in Callers PROVE CallOK(kind', backups', call'[d])
  <2>1. CASE d = c
    BY <1>1, <2>1
  <2>2. CASE d # c
    <3>1. call'[d] = call[d]
      BY <1>1, <2>2
    <3>2. HasBackup(call[d], backups')
      BY DEF StoreInv, CallOK, HasBackup
    <3> QED
      BY <3>1, <3>2 DEF StoreInv, CallOK
  <2> QED
    BY <2>1, <2>2
<1> QED
  BY <1>3, <1>4 DEF StoreInv

LEMMA InitInv == Init => StoreInv
<1> SUFFICES ASSUME Init PROVE StoreInv
  OBVIOUS
<1>1. \A c \in Callers : call[c] = NoCall
  BY DEF Init
<1>2. \A c \in Callers : CallOK(kind, backups, call[c])
  BY <1>1, NoCallOK
<1>3. call \in [Callers -> CallType]
  BY NoCallOK DEF Init, CallOK
<1>4. file \in Files
  BY DEF Init, Files, HandTexts
<1>5. TypeOK
  BY <1>3, <1>4, BoundsAssumption DEF Init, TypeOK, Files
<1> QED
  BY <1>2, <1>5 DEF StoreInv

-----------------------------------------------------------------------------
\* What the steps that leave the files alone have in common.
LEMMA QuietStep ==
    ASSUME StoreInv, NEW c \in Callers, NEW new, Now(c, new),
           UNCHANGED disk, CallOK(kind, backups, new),
           begun' \in 0..MaxCalls, upsets' \in 0..MaxUpsets
    PROVE  StoreInv'
<1>1. kind' = kind /\ file' = file /\ pre' = pre /\ backups' = backups
  BY DEF disk
<1>2. file' \in Files /\ pre' \in Files /\ backups' \in Seq(Texts)
  BY <1>1 DEF StoreInv, TypeOK
<1>3. CallOK(kind, backups', new)
  BY <1>1
<1>4. \A i \in DOMAIN backups : i \in DOMAIN backups' /\ backups'[i] = backups[i]
  BY <1>1
<1> QED
  BY <1>1, <1>2, <1>3, <1>4, OneCall

LEMMA BoundSteps ==
    ASSUME StoreInv
    PROVE  /\ Begin => begun' \in 0..MaxCalls
           /\ Upset => upsets' \in 0..MaxUpsets
           /\ begun \in 0..MaxCalls /\ upsets \in 0..MaxUpsets
BY BoundsAssumption DEF StoreInv, TypeOK, Begin, Upset

LEMMA AfterSaveOK ==
    ASSUME StoreInv, NEW c \in Callers, At(c, "save") \/ At(c, "write"),
           call[c].doing # "read"
    PROVE  CallOK(kind, backups,
             IF kind = "settings"
             THEN [call[c] EXCEPT !.pc = "edit", !.doing = "edit"] ELSE NoCall)
<1>1. CASE kind = "settings"
  <2> DEFINE new == [call[c] EXCEPT !.pc = "edit", !.doing = "edit"]
  <2>1. call[c] \in CallType /\ CallOK(kind, backups, call[c])
    BY DEF StoreInv, TypeOK
  <2>2. new \in CallType
    BY <2>1 DEF CallType
  <2>3. /\ new.pc = "edit" /\ new.doing = "edit" /\ new.arg = call[c].arg
        /\ new.blocked = call[c].blocked /\ new.loaded = call[c].loaded
        /\ new.copied = call[c].copied
    BY <2>1 DEF CallType
  <2> HIDE DEF new
  <2>4. Remembers(new) /\ HasBackup(new, backups)
    BY <2>1, <2>3 DEF CallOK, Remembers, HasBackup, Writing
  <2>5. Purpose(kind, new)
    BY <1>1, <2>1, <2>3 DEF CallOK, Purpose, Writing
  <2> QED
    BY <1>1, <2>2, <2>4, <2>5 DEF CallOK, new
<1>2. CASE kind # "settings"
  BY <1>2, NoCallOK
<1> QED
  BY <1>1, <1>2

\* The steps of one call, one lemma for each kind of state they disturb.
LEMMA BeginStep ==
    ASSUME StoreInv, NEW c \in Callers, NEW k \in Keys, NEW v \in Values,
           BeginChange(c, k, v) \/ BeginUpdate(c, k, v)
    PROVE  StoreInv'
<1>1. call[c] \in CallType /\ CallOK(kind, backups, call[c])
  BY DEF StoreInv, TypeOK
<1>2. begun' \in 0..MaxCalls /\ upsets' \in 0..MaxUpsets /\ UNCHANGED disk
  BY BoundSteps DEF BeginChange, BeginUpdate
<1>3. CASE BeginChange(c, k, v)
  <2> DEFINE r == Load(call[c])
             new == [r EXCEPT !.pc = "save", !.doing = "save", !.val[k] = v]
  <2>1. TypeOK
    BY DEF StoreInv
  <2>2. /\ r \in CallType /\ r.blocked = Blocks(r.loaded)
        /\ r.copied = call[c].copied /\ r.doing = call[c].doing /\ r.arg = call[c].arg
    BY <1>1, <2>1, LoadOK
  <2> HIDE DEF r
  <2>3. CASE r.blocked
    <3>1. Now(c, NoCall)
      BY <1>3, <2>3 DEF BeginChange, Return, r
    <3> QED
      BY <1>2, <3>1, NoCallOK, QuietStep
  <2>4. CASE ~r.blocked
    <3>1. Now(c, new)
      BY <1>3, <2>4 DEF BeginChange, r
    <3>2. new \in CallType
      BY <2>2 DEF CallType, Docs
    <3>3. /\ new.pc = "save" /\ new.doing = "save" /\ new.blocked = r.blocked
          /\ new.loaded = r.loaded /\ new.copied = r.copied
      BY <2>2 DEF CallType
    <3> HIDE DEF new
    <3>4. Remembers(new)
      BY <2>2, <2>4, <3>3 DEF Remembers, Writing
    <3>5. Purpose(kind, new)
      BY <1>3, <3>3 DEF Purpose, Writing, BeginChange
    <3>6. HasBackup(new, backups)
      BY <1>1, <2>2, <3>3 DEF CallOK, HasBackup
    <3> QED
      BY <1>2, <3>1, <3>2, <3>4, <3>5, <3>6, QuietStep DEF CallOK
  <2> QED
    BY <2>3, <2>4
<1>4. CASE BeginUpdate(c, k, v)
  <2> DEFINE new == [call[c] EXCEPT !.pc = IF file = {} THEN "ensure" ELSE "load",
                                    !.doing = "edit", !.arg = <<k, v>>]
  <2>1. Now(c, new) /\ kind = "settings"
    BY <1>4 DEF BeginUpdate
  <2>2. new \in CallType
    BY <1>1 DEF CallType
  <2>3. /\ new.pc \in {"ensure", "load"} /\ new.doing = "edit" /\ new.arg = <<k, v>>
        /\ new.blocked = call[c].blocked /\ new.loaded = call[c].loaded
        /\ new.copied = call[c].copied
    BY <1>1 DEF CallType
  <2> HIDE DEF new
  <2>4. Remembers(new) /\ HasBackup(new, backups)
    BY <1>1, <2>3 DEF CallOK, Remembers, HasBackup, Writing
  <2>5. Purpose(kind, new)
    BY <2>1, <2>3 DEF Purpose, Writing
  <2> QED
    BY <1>2, <2>1, <2>2, <2>4, <2>5, QuietStep DEF CallOK
<1> QED
  BY <1>3, <1>4

LEMMA BeginGetStep ==
    ASSUME StoreInv, NEW c \in Callers, BeginGet(c) PROVE StoreInv'
<1> DEFINE new == [call[c] EXCEPT !.pc = IF file = {} THEN "ensure" ELSE "load"]
<1>1. call[c] \in CallType /\ CallOK(kind, backups, call[c])
  BY DEF StoreInv, TypeOK
<1>2. begun' \in 0..MaxCalls /\ upsets' \in 0..MaxUpsets /\ UNCHANGED disk
  BY BoundSteps DEF BeginGet
<1>3. Now(c, new) /\ kind = "settings" /\ call[c].pc = "idle"
  BY DEF BeginGet, Goto, At
<1>4. new \in CallType
  BY <1>1 DEF CallType
<1>5. /\ new.pc \in {"ensure", "load"} /\ new.doing = call[c].doing
      /\ new.arg = call[c].arg
      /\ new.blocked = call[c].blocked /\ new.loaded = call[c].loaded
      /\ new.copied = call[c].copied
  BY <1>1 DEF CallType
<1> HIDE DEF new
<1>6. Remembers(new) /\ HasBackup(new, backups)
  BY <1>1, <1>5 DEF CallOK, Remembers, HasBackup, Writing
<1>7. Purpose(kind, new)
  BY <1>1, <1>3, <1>5 DEF CallOK, Purpose, Writing
<1> QED
  BY <1>2, <1>3, <1>4, <1>6, <1>7, QuietStep DEF CallOK

\* The facts about the file that a loading step needs.
LEMMA LoadingStep ==
    ASSUME StoreInv, NEW c \in Callers, LoadSettings(c) \/ Reload(c)
    PROVE  StoreInv'
<1> DEFINE r == Load(call[c])
<1>1. call[c] \in CallType /\ CallOK(kind, backups, call[c]) /\ TypeOK
  BY DEF StoreInv, TypeOK
<1>2. /\ r \in CallType /\ r.blocked = Blocks(r.loaded)
      /\ r.copied = call[c].copied /\ r.doing = call[c].doing /\ r.arg = call[c].arg
  BY <1>1, LoadOK
<1>3. begun' \in 0..MaxCalls /\ upsets' \in 0..MaxUpsets /\ UNCHANGED disk
  BY BoundSteps DEF LoadSettings, Reload, Quiet
<1>4. ASSUME NEW new \in CallType, Now(c, new),
             new.pc \in {"reload", "edit", "save"}, new.doing \in {"edit", "save"},
             new.pc = "edit" => new.doing = "edit", new.pc = "save" => ~new.blocked,
             new.pc = "save" => new.doing = "save",
             new.blocked = r.blocked, new.loaded = r.loaded,
             new.copied = r.copied, new.arg = r.arg,
             kind = "settings", r.arg \in Keys \X Values
      PROVE  StoreInv'
  <2> HIDE DEF r
  <2>1. Remembers(new)
    BY <1>2, <1>4 DEF Remembers, Writing
  <2>2. Purpose(kind, new)
    BY <1>4 DEF Purpose, Writing
  <2>3. HasBackup(new, backups)
    BY <1>1, <1>2, <1>4 DEF CallOK, HasBackup
  <2> QED
    BY <1>3, <1>4, <2>1, <2>2, <2>3, QuietStep DEF CallOK
<1>5. CASE LoadSettings(c)
  <2>1. CASE r.doing = "read" \/ r.blocked
    <3>1. Now(c, NoCall)
      BY <1>5, <2>1 DEF LoadSettings, Return
    <3> QED
      BY <1>3, <3>1, NoCallOK, QuietStep
  <2>2. CASE ~(r.doing = "read" \/ r.blocked)
    <3> DEFINE new == [r EXCEPT !.pc = IF r.pending THEN "reload" ELSE "edit"]
    <3>1. Now(c, new)
      BY <1>5, <2>2 DEF LoadSettings
    <3>2. r.doing = "edit"
      BY <1>1, <1>2, <1>5, <2>2 DEF LoadSettings, At, CallOK, Purpose, CallType
    <3>3. kind = "settings" /\ r.arg \in Keys \X Values
      BY <1>1, <1>2, <1>5, <3>2 DEF LoadSettings, At, CallOK, Purpose, TypeOK
    <3> HIDE DEF r
    <3>4. /\ new \in CallType /\ new.pc \in {"reload", "edit"} /\ new.doing = r.doing
          /\ new.blocked = r.blocked /\ new.loaded = r.loaded
          /\ new.copied = r.copied /\ new.arg = r.arg
      BY <1>2 DEF CallType
    <3> QED
      BY <1>4, <3>1, <3>2, <3>3, <3>4
  <2> QED
    BY <2>1, <2>2
<1>6. CASE Reload(c)
  <2> DEFINE new == [r EXCEPT !.pc = IF r.blocked THEN "edit" ELSE "save",
                              !.doing = IF r.blocked THEN "edit" ELSE "save"]
  <2>1. Now(c, new)
    BY <1>6 DEF Reload
  <2>2. kind = "settings" /\ r.arg \in Keys \X Values
    BY <1>1, <1>2, <1>6 DEF Reload, At, CallOK, Purpose, TypeOK
  <2> HIDE DEF r
  <2>3. /\ new \in CallType /\ new.pc = new.doing
        /\ new.pc = IF r.blocked THEN "edit" ELSE "save"
        /\ new.blocked = r.blocked /\ new.loaded = r.loaded
        /\ new.copied = r.copied /\ new.arg = r.arg
    BY <1>2 DEF CallType
  <2> HIDE DEF new
  <2>4. /\ new.pc \in {"edit", "save"} /\ new.doing = new.pc
        /\ new.pc = "save" => ~new.blocked
    BY <2>3
  <2> QED
    BY <1>4, <2>1, <2>2, <2>3, <2>4
<1> QED
  BY <1>5, <1>6

LEMMA SaveReadStep ==
    ASSUME StoreInv, NEW c \in Callers, SaveRead(c) PROVE StoreInv'
<1>1. /\ call[c] \in CallType /\ CallOK(kind, backups, call[c]) /\ TypeOK
      /\ call[c].pc = "save" /\ call[c].doing # "read"
  BY DEF StoreInv, TypeOK, SaveRead, At, CallOK, Purpose
<1>2. begun' \in 0..MaxCalls /\ upsets' \in 0..MaxUpsets /\ UNCHANGED disk
  BY BoundSteps DEF SaveRead, Quiet
<1>3. CASE Return(c)
  BY <1>2, <1>3, NoCallOK, QuietStep DEF Return
<1>4. CASE AfterSave(c)
  <2>1. Now(c, IF kind = "settings"
               THEN [call[c] EXCEPT !.pc = "edit", !.doing = "edit"] ELSE NoCall)
    BY <1>4 DEF AfterSave, Return
  <2> QED
    BY <1>1, <1>2, <2>1, AfterSaveOK, QuietStep DEF At
<1>5. CASE /\ \A t \in file : t.ver # "bad"
           /\ Now(c, [call[c] EXCEPT
                       !.pc = IF file = {} THEN "write"
                              ELSE IF call[c].pending THEN "keep" ELSE "rotate",
                       !.text = Current(call[c].val),
                       !.base = file, !.copied = {}])
  <2> DEFINE new == [call[c] EXCEPT
                       !.pc = IF file = {} THEN "write"
                              ELSE IF call[c].pending THEN "keep" ELSE "rotate",
                       !.text = Current(call[c].val),
                       !.base = file, !.copied = {}]
  <2>1. new \in CallType
    BY <1>1 DEF CallType, TypeOK, Files
  <2>2. /\ new.pc \in Writing /\ new.doing = call[c].doing /\ new.arg = call[c].arg
        /\ new.blocked = call[c].blocked /\ new.loaded = call[c].loaded
        /\ new.base = file /\ new.copied = {}
    BY <1>1 DEF CallType, Writing
  <2>3. call[c].doing = "save"
    BY <1>1 DEF CallOK, Purpose, CallType
  <2> HIDE DEF new
  <2>4. Remembers(new)
    BY <1>1, <1>5, <2>2, <2>3 DEF CallOK, Remembers, Writing
  <2>5. Purpose(kind, new)
    BY <1>1, <2>2, <2>3 DEF CallOK, Purpose, Writing
  <2>6. HasBackup(new, backups)
    BY <2>2 DEF HasBackup
  <2> QED
    BY <1>2, <1>5, <2>1, <2>4, <2>5, <2>6, QuietStep DEF CallOK, new
<1> QED
  BY <1>3, <1>4, <1>5 DEF SaveRead

\* An edited text keeps the other settings of the text that was read, and
\* only a current or an undecodable text can be edited.
LEMMA EditedOK ==
    ASSUME TypeOK, NEW c \in Callers, call[c].arg \in Keys \X Values,
           NEW d \in Edited(c, file)
    PROVE  /\ d \in Docs
           /\ \A t \in file : /\ t.ver \in {"now", "odd"}
                            /\ \A k \in Keys \ {call[c].arg[1]} : d[k] = t.doc[k]
<1>1. CASE file = {}
  BY <1>1, DefaultsTyped DEF Edited, Docs
<1>2. CASE file # {}
  <2>1. PICK t \in Texts : file = {t}
    BY <1>2 DEF TypeOK, Files
  <2>2. t.ver \in {"now", "odd"} /\ d = [t.doc EXCEPT ![call[c].arg[1]] = call[c].arg[2]]
    BY <1>2, <2>1 DEF Edited
  <2>3. t.doc \in [Keys -> Values]
    BY <2>1 DEF Texts, Docs
  <2> QED
    BY <2>1, <2>2, <2>3 DEF Docs
<1> QED
  BY <1>1, <1>2

LEMMA EditReadStep ==
    ASSUME StoreInv, NEW c \in Callers, EditRead(c) PROVE StoreInv'
<1>1. /\ call[c] \in CallType /\ CallOK(kind, backups, call[c]) /\ TypeOK
      /\ call[c].pc = "edit" /\ call[c].doing = "edit"
      /\ kind = "settings" /\ call[c].arg \in Keys \X Values
  BY DEF StoreInv, TypeOK, EditRead, At, CallOK, Purpose
<1>2. begun' \in 0..MaxCalls /\ upsets' \in 0..MaxUpsets /\ UNCHANGED disk
  BY BoundSteps DEF EditRead, Quiet
<1>3. CASE Return(c)
  BY <1>2, <1>3, NoCallOK, QuietStep DEF Return
<1>4. CASE /\ ~call[c].blocked
           /\ \E d \in Edited(c, file) :
                Now(c, [call[c] EXCEPT !.pc = "rotate", !.base = file,
                          !.text = Current(d), !.copied = {}])
  <2>1. PICK d \in Edited(c, file) :
               Now(c, [call[c] EXCEPT !.pc = "rotate", !.base = file,
                         !.text = Current(d), !.copied = {}])
    BY <1>4
  <2> DEFINE new == [call[c] EXCEPT !.pc = "rotate", !.base = file,
                       !.text = Current(d), !.copied = {}]
  <2>2. /\ d \in Docs
        /\ \A t \in file : /\ t.ver \in {"now", "odd"}
                         /\ \A k \in Keys \ {call[c].arg[1]} : d[k] = t.doc[k]
    BY <1>1, EditedOK
  <2>3. new \in CallType
    BY <1>1, <2>2 DEF CallType, TypeOK, Files
  <2>4. /\ new.pc = "rotate" /\ new.doing = "edit" /\ new.arg = call[c].arg
        /\ new.blocked = call[c].blocked /\ new.loaded = call[c].loaded
        /\ new.base = file /\ new.copied = {} /\ new.text = Current(d)
    BY <1>1 DEF CallType
  <2>5. new.text.doc = d
    BY <2>4 DEF Current
  <2> HIDE DEF new
  <2>6. Remembers(new)
    BY <1>1, <1>4, <2>2, <2>4, <2>5 DEF CallOK, Remembers, Writing
  <2>7. Purpose(kind, new)
    BY <1>1, <2>4 DEF Purpose, Writing
  <2>8. HasBackup(new, backups)
    BY <2>4 DEF HasBackup
  <2> QED
    BY <1>2, <2>1, <2>3, <2>6, <2>7, <2>8, QuietStep DEF CallOK, new
<1> QED
  BY <1>3, <1>4 DEF EditRead

\* A step of the write goes on with the same text and base.
LEMMA GoesOn ==
    ASSUME StoreInv, NEW c \in Callers, NEW p \in {"rotate", "write"}, NEW f \in Files,
           call[c].pc \in Writing, NEW b, HasBackup([call[c] EXCEPT !.copied = f], b)
    PROVE  CallOK(kind, b, [call[c] EXCEPT !.pc = p, !.copied = f])
<1> DEFINE new == [call[c] EXCEPT !.pc = p, !.copied = f]
<1>1. call[c] \in CallType /\ CallOK(kind, backups, call[c])
  BY DEF StoreInv, TypeOK
<1>2. new \in CallType
  BY <1>1 DEF CallType
<1>3. /\ new.pc = p /\ new.doing = call[c].doing /\ new.arg = call[c].arg
      /\ new.blocked = call[c].blocked /\ new.loaded = call[c].loaded
      /\ new.base = call[c].base /\ new.text = call[c].text /\ new.copied = f
  BY <1>1 DEF CallType
<1>4. HasBackup(new, b)
  BY <1>1, <1>3 DEF HasBackup, CallType
<1> HIDE DEF new
<1>5. Remembers(new)
  BY <1>1, <1>3 DEF CallOK, Remembers, Writing
<1>6. Purpose(kind, new)
  BY <1>1, <1>3 DEF CallOK, Purpose, Writing
<1> QED
  BY <1>2, <1>4, <1>5, <1>6 DEF CallOK, new

LEMMA FileStep ==
    ASSUME StoreInv, NEW c \in Callers,
           Ensure(c) \/ KeepPre(c) \/ Rotate(c) \/ Write(c) \/ Fail(c)
    PROVE  StoreInv'
<1>1. /\ call[c] \in CallType /\ CallOK(kind, backups, call[c]) /\ TypeOK
      /\ file \in Files /\ pre \in Files /\ backups \in Seq(Texts)
  BY DEF StoreInv, TypeOK
<1>2. begun' \in 0..MaxCalls /\ upsets' \in 0..MaxUpsets /\ kind' = kind
  BY BoundSteps DEF Ensure, KeepPre, Rotate, Write, Fail, Quiet
<1>3. {call[c].text} \in Files /\ {Current(Defaults)} \in Files
  BY <1>1, DefaultsTyped DEF CallType, Files, Current, Texts, Versions
<1>4. CASE Ensure(c)
  <2> DEFINE new == [call[c] EXCEPT !.pc = "load"]
  <2>1. Now(c, new) /\ call[c].pc = "ensure" /\ file' \in Files
        /\ backups' = backups /\ pre' = pre
    BY <1>3, <1>4 DEF Ensure, Goto, At
  <2>2. new \in CallType
    BY <1>1 DEF CallType
  <2>3. /\ new.pc = "load" /\ new.doing = call[c].doing /\ new.arg = call[c].arg
        /\ new.blocked = call[c].blocked /\ new.loaded = call[c].loaded
        /\ new.copied = call[c].copied
    BY <1>1 DEF CallType
  <2> HIDE DEF new
  <2>4. Remembers(new) /\ HasBackup(new, backups')
    BY <1>1, <2>1, <2>3 DEF CallOK, Remembers, HasBackup, Writing
  <2>5. Purpose(kind, new)
    BY <1>1, <2>1, <2>3 DEF CallOK, Purpose, Writing
  <2> QED
    BY <1>1, <1>2, <2>1, <2>2, <2>4, <2>5, OneCall DEF CallOK
<1>5. CASE KeepPre(c)
  <2> DEFINE f == call[c].copied
             new == [call[c] EXCEPT !.pc = "rotate", !.copied = f]
  <2>1. new = [call[c] EXCEPT !.pc = "rotate"] /\ [call[c] EXCEPT !.copied = f] = call[c]
        /\ f \in Files
    BY <1>1 DEF CallType
  <2>2. Now(c, new) /\ call[c].pc = "keep" /\ file' = file /\ pre' \in Files
        /\ backups' = backups
    BY <1>1, <1>5, <2>1 DEF KeepPre, Goto, At
  <2>3. HasBackup([call[c] EXCEPT !.copied = f], backups')
    BY <1>1, <2>1, <2>2 DEF CallOK
  <2>4. CallOK(kind, backups', new)
    BY <2>1, <2>2, <2>3, GoesOn DEF Writing
  <2> QED
    BY <1>1, <1>2, <2>2, <2>4, OneCall
<1>6. CASE Rotate(c)
  <2> DEFINE new == [call[c] EXCEPT !.pc = "write", !.copied = file]
  <2>1. /\ Now(c, new) /\ call[c].pc = "rotate" /\ file' = file /\ pre' = pre
        /\ backups' = WithBackup(file)
    BY <1>6 DEF Rotate, At
  <2>2. /\ backups' \in Seq(Texts)
        /\ \A t \in file : \E i \in DOMAIN backups' : backups'[i] = t
        /\ \A i \in DOMAIN backups : i \in DOMAIN backups' /\ backups'[i] = backups[i]
    BY <1>1, <2>1, RotateKeeps
  <2>3. [call[c] EXCEPT !.copied = file].copied = file
    BY <1>1 DEF CallType
  <2>4. HasBackup([call[c] EXCEPT !.copied = file], backups')
    BY <2>2, <2>3 DEF HasBackup
  <2>5. CallOK(kind, backups', new)
    BY <1>1, <2>1, <2>4, GoesOn DEF Writing
  <2> QED
    BY <1>1, <1>2, <2>1, <2>2, <2>5, OneCall
<1>7. CASE Write(c)
  <2> DEFINE new == IF call[c].doing = "save" /\ kind = "settings"
                    THEN [call[c] EXCEPT !.pc = "edit", !.doing = "edit"] ELSE NoCall
  <2>1. /\ Now(c, new) /\ call[c].pc = "write" /\ file' \in Files /\ pre' = pre
        /\ backups' = backups
    BY <1>3, <1>7 DEF Write, At, AfterSave, Return
  <2>2. CallOK(kind, backups, new)
    BY <2>1, AfterSaveOK, NoCallOK DEF At
  <2> QED
    BY <1>1, <1>2, <2>1, <2>2, OneCall
<1>8. CASE Fail(c)
  <2>1. Now(c, NoCall) /\ file' \in Files /\ pre' = pre /\ backups' = backups
    BY <1>1, <1>3, <1>8 DEF Fail, Return
  <2>2. CallOK(kind, backups', NoCall)
    BY NoCallOK
  <2> QED
    BY <1>1, <1>2, <2>1, <2>2, OneCall
<1> QED
  BY <1>4, <1>5, <1>6, <1>7, <1>8

LEMMA OutsideStep ==
    ASSUME StoreInv, Crash \/ HandEdit PROVE StoreInv'
<1>1. /\ file' \in Files /\ kind' = kind /\ backups' = backups /\ pre' = pre
      /\ begun' = begun /\ upsets' \in 0..MaxUpsets
  BY BoundSteps DEF Crash, HandEdit, disk, StoreInv, TypeOK, Files, HandTexts
<1>2. CASE Crash
  <2>1. call' = [c \in Callers |-> NoCall]
    BY <1>2 DEF Crash
  <2>2. NoCall \in CallType
    BY NoCallOK DEF CallOK
  <2>3. TypeOK'
    BY <1>1, <2>1, <2>2 DEF StoreInv, TypeOK
  <2>4. \A c \in Callers : CallOK(kind', backups', call'[c])
    BY <2>1, NoCallOK
  <2> QED
    BY <2>3, <2>4 DEF StoreInv
<1>3. CASE HandEdit
  <2>1. call' = call
    BY <1>3 DEF HandEdit
  <2> QED
    BY <1>1, <2>1 DEF StoreInv, TypeOK
<1> QED
  BY <1>2, <1>3

LEMMA NextInv == StoreInv /\ [Next]_vars => StoreInv'
<1> SUFFICES ASSUME StoreInv, [Next]_vars PROVE StoreInv'
  OBVIOUS
<1>1. CASE UNCHANGED vars
  BY <1>1 DEF vars, StoreInv, TypeOK
<1>2. CASE Next
  BY <1>2, BeginStep, BeginGetStep, LoadingStep, SaveReadStep, EditReadStep, FileStep, OutsideStep
  DEF Next
<1> QED
  BY <1>1, <1>2

LEMMA InvAlways == Spec => []StoreInv
BY InitInv, NextInv, PTL DEF Spec

-----------------------------------------------------------------------------
\* The state of the file, the copies and every call is well typed: for any
\* callers, settings and values (Store, save, edit and the manager's calls).
THEOREM TypeCorrect == Spec => []TypeOK
<1>1. StoreInv => TypeOK
  BY DEF StoreInv
<1> QED
  BY <1>1, InvAlways, PTL

\* The call that replaces the file is at its write and remembers as above.
LEMMA Replacing ==
    ASSUME StoreInv, NEW c \in Callers, Replaces(c)
    PROVE  call[c].pc = "write" /\ CallOK(kind, backups, call[c])
BY DEF StoreInv, Replaces, At

\* No save or edit replaces a text that it found unreadable, whatever other
\* calls and the person do (State.blocked and the re-read of save and edit).
THEOREM UnreadableNeverReplaced == Spec => UnreadableKept
<1> DEFINE Step == \A c \in Callers : Replaces(c) =>
         /\ \A t \in Replaced \cap call[c].base :
              /\ t.ver # "bad"
              /\ call[c].doing = "edit" => t.ver \in {"now", "odd"}
         /\ \A t \in Replaced \cap call[c].loaded : t.ver \in {"now", "old"}
<1>1. StoreInv /\ [Next]_vars => [Step]_vars
  <2> SUFFICES ASSUME StoreInv PROVE Step
    OBVIOUS
  <2> QED
    BY Replacing DEF CallOK, Remembers, Writing, Blocks
<1> QED
  BY <1>1, InvAlways, PTL DEF Spec, UnreadableKept

\* What a save or edit replaces is in the backups, unless it came after the
\* rotate (backup::rotate before every write_verified).
THEOREM ReplacedHasBackup == Spec => ReplacedIsBackedUp
<1> DEFINE Step == \A c \in Callers : Replaces(c) =>
         \A t \in Replaced \cap call[c].copied :
           \E i \in DOMAIN backups : backups[i] = t
<1>1. StoreInv /\ [Next]_vars => [Step]_vars
  <2> SUFFICES ASSUME StoreInv PROVE Step
    OBVIOUS
  <2> QED
    BY Replacing DEF CallOK, HasBackup
<1> QED
  BY <1>1, InvAlways, PTL DEF Spec, ReplacedIsBackedUp

\* Only the write of a call takes it from its write, and puts its text there.
LEMMA ReplacedByText ==
    ASSUME StoreInv, Next, NEW c \in Callers, Replaces(c)
    PROVE  file' = file \/ file' = {call[c].text}
<1>1. call[c].pc = "write" /\ call'[c].pc # "write" /\ call \in [Callers -> CallType]
  BY DEF Replaces, At, StoreInv, TypeOK
<1>2. ASSUME NEW d \in Callers, NEW new, Now(d, new) PROVE d = c
  BY <1>1, <1>2 DEF Now
<1>3. CASE UNCHANGED disk
  BY <1>3 DEF disk
<1>4. ASSUME NEW d \in Callers, Ensure(d) PROVE FALSE
  BY <1>1, <1>2, <1>4 DEF Ensure, Goto, At
<1>5. ASSUME NEW d \in Callers, Write(d) PROVE file' = {call[c].text}
  <2>1. d = c
    BY <1>2, <1>5 DEF Write, AfterSave, Return
  <2> QED
    BY <1>5, <2>1 DEF Write
<1>6. ASSUME NEW d \in Callers, Fail(d) PROVE file' = file \/ file' = {call[c].text}
  <2>1. d = c
    BY <1>2, <1>6 DEF Fail, Return
  <2> QED
    BY <1>6, <2>1 DEF Fail
<1>7. CASE HandEdit
  BY <1>1, <1>7 DEF HandEdit
<1>8. ASSUME NEW d \in Callers, KeepPre(d) \/ Rotate(d) PROVE file' = file
  BY <1>8 DEF KeepPre, Rotate
<1>9. ASSUME NEW d \in Callers,
             \/ \E k \in Keys, v \in Values : BeginChange(d, k, v) \/ BeginUpdate(d, k, v)
             \/ BeginGet(d) \/ LoadSettings(d) \/ Reload(d)
             \/ SaveRead(d) \/ EditRead(d)
      PROVE  UNCHANGED disk
  BY <1>9 DEF BeginChange, BeginUpdate, BeginGet, LoadSettings, Reload, SaveRead, EditRead
<1>10. CASE Crash
  BY <1>10 DEF Crash, disk
<1> QED
  BY <1>3, <1>4, <1>5, <1>6, <1>7, <1>8, <1>9, <1>10 DEF Next

\* An update leaves every setting but its own as it found it at its last read
\* (Store::edit reads the file again and edits its text).
THEOREM OthersStay == Spec => OtherSettingsKept
<1> DEFINE Step == \A c \in Callers : Replaces(c) /\ call[c].doing = "edit" =>
         \A t \in Replaced \cap call[c].base, u \in file' :
           \A k \in Keys \ {call[c].arg[1]} : u.doc[k] = t.doc[k]
<1>1. StoreInv /\ [Next]_vars => [Step]_vars
  <2> SUFFICES ASSUME StoreInv, Next PROVE Step
    OBVIOUS
  <2> SUFFICES ASSUME NEW c \in Callers, Replaces(c), call[c].doing = "edit",
                      NEW t \in Replaced \cap call[c].base, NEW u \in file',
                      NEW k \in Keys \ {call[c].arg[1]}
               PROVE  u.doc[k] = t.doc[k]
    OBVIOUS
  <2>1. u = call[c].text
    BY ReplacedByText DEF Replaced
  <2> QED
    BY <2>1, Replacing DEF CallOK, Remembers, Writing
<1> QED
  BY <1>1, InvAlways, PTL DEF Spec, OtherSettingsKept

=============================================================================

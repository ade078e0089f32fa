-------------------------------- MODULE Hub --------------------------------
(***************************************************************************)
(* The workspace hub of rimstudio-app (workspace.rs) and the calls that     *)
(* change what it is built from: path overrides (api/settings.rs,           *)
(* api/detect.rs), the enabled sources (api/sources.rs) and library scans   *)
(* (api/library.rs), over the detection of rimstudio-manager (detect.rs).   *)
(*                                                                          *)
(* The hub holds one built context under a key and a generation.  A call    *)
(* that changed an input bumps the generation afterwards, in a step of its  *)
(* own; designer_ctx plans again only when the generation moved, holding    *)
(* the hub's lock all the while.  Abstracted: the sessions themselves, the  *)
(* Steam folder, and how workspace.jsonc is saved, which is Store: a save   *)
(* is here one step.  The cached report is never damaged.                   *)
(***************************************************************************)
EXTENDS Naturals, Sequences

CONSTANTS
    Threads,
    Installs,       \* folders of the game
    Found,          \* the install detection finds by itself, a set of at most one
    Users,          \* user data folders; the override names one of them
    Folders,        \* extra Workshop folders
    Requests,       \* the lists of path changes callers ask for
    MaxCalls,       \* bound: calls that begin
    MaxUpsets       \* bound: failing steps, cancels and changes of the disk

Opt(S) == {{}} \cup {{x} : x \in S}
AtMostOne(s, S) == s \subseteq S /\ \A x, y \in s : x = y

Changes ==
    [field : {"install"}, value : Opt(Installs)]
      \cup [field : {"user"}, value : Opt(Users)]
      \cup [field : {"workshop"}, value : Opt(Folders)]

ASSUME HubAssumption ==
    /\ Found \in Opt(Installs)
    /\ Requests \subseteq Seq(Changes) \ {<<>>}
    /\ MaxCalls \in Nat /\ MaxUpsets \in Nat

Workspaces == [install : Opt(Installs), user : Opt(Users),
               workshop : SUBSET Folders, enabled : BOOLEAN]
Reports == [install : Opt(Installs), version : Nat, user : Opt(Users)]
\* Of a library snapshot only: does it hold Combat Extended.
Snapshots == [ce : BOOLEAN]
Keys == [install : Opt(Installs), version : Nat, ce : BOOLEAN]

VARIABLES
    ws,             \* workspace.jsonc: the overrides, and whether a source is enabled
    report,         \* the cached detection report, a set of at most one
    library,        \* the newest snapshot, a set of at most one
    version, ce,    \* the disk: the game's version, and whether the mod is there
    generation,
    built,          \* the context with its key, a set of at most one
    hub,            \* who holds the hub's lock
    th,             \* the call each thread makes
    silent,         \* ghost: an input changed by a call that ended without a bump
    begun, upsets

vars == <<ws, report, library, version, ce, generation, built, hub, th, silent, begun, upsets>>
inputs == <<ws, report, library>>
world == <<version, ce>>
budget == <<begun, upsets>>

-----------------------------------------------------------------------------
(* What a context is made from.                                             *)

Applied(w, c) ==
    CASE c.field = "install" -> [w EXCEPT !.install = c.value]
      [] c.field = "user" -> [w EXCEPT !.user = c.value]
      [] OTHER -> [w EXCEPT !.workshop = IF c.value = {} THEN {} ELSE @ \cup c.value]

\* An override is what detection selects; else what it finds by itself.
Detected(w) ==
    LET i == IF w.install # {} THEN w.install ELSE Found IN
    [install |-> i, version |-> IF i = {} THEN 0 ELSE version, user |-> w.user]

KeyOf(r, lib) ==
    [install |-> r.install, version |-> r.version,
     ce |-> r.install # {} /\ \E s \in lib : s.ce]

\* What the write fence of a context denies; none without an install.
Denied(r, w) ==
    IF r.install = {} THEN {}
    ELSE r.install \cup w.install \cup r.user \cup w.user \cup w.workshop

Context(r, w, lib, gen) == [key |-> KeyOf(r, lib), gen |-> gen, denied |-> Denied(r, w)]

-----------------------------------------------------------------------------
(* A thread: its call and where it is, the changes left to make, the        *)
(* generation it loaded, and what it read; news is a ghost: it changed an   *)
(* input and has not bumped since.                                          *)
NoReport == [install |-> {}, version |-> 0, user |-> {}]
Blank == [install |-> {}, user |-> {}, workshop |-> {}, enabled |-> TRUE]
Idle == [call |-> "none", pc |-> "idle", todo |-> <<>>, full |-> FALSE, gen |-> 0,
         w |-> Blank, r |-> NoReport, lib |-> {}, on |-> FALSE, found |-> FALSE,
         news |-> FALSE]

Init ==
    /\ ws = Blank
    /\ report = {}
    /\ library = {}
    /\ version = 1 /\ ce = FALSE
    /\ generation = 1
    /\ built = {}
    /\ hub = {}
    /\ th = [t \in Threads |-> Idle]
    /\ silent = FALSE
    /\ begun = 0 /\ upsets = 0

At(t, p) == th[t].pc = p
Now(t, r) == th' = [th EXCEPT ![t] = r]
Goto(t, p) == Now(t, [th[t] EXCEPT !.pc = p])
\* The call returns; what it changed without a bump stays unannounced.
Return(t) == Now(t, Idle) /\ silent' = (silent \/ th[t].news)
Upset == upsets < MaxUpsets /\ upsets' = upsets + 1 /\ UNCHANGED begun

Begin(t, r) ==
    /\ At(t, "idle") /\ begun < MaxCalls
    /\ begun' = begun + 1
    /\ Now(t, r)
    /\ UNCHANGED <<inputs, world, generation, built, hub, silent, upsets>>

Update(t, q) == Begin(t, [Idle EXCEPT !.call = "update", !.pc = "save", !.todo = q])
\* detect_run: what follows the last change of an update.
DetectRun(t) == Begin(t, [Idle EXCEPT !.call = "update", !.pc = "detect"])
Sources(t) == Begin(t, [Idle EXCEPT !.call = "sources", !.pc = "enable"])
Scan(t, all) == Begin(t, [Idle EXCEPT !.call = "scan", !.pc = "sources", !.full = all])
Designer(t) == Begin(t, [Idle EXCEPT !.call = "designer", !.pc = "lock"])
WriteEnv(t) == Begin(t, [Idle EXCEPT !.call = "env", !.pc = "lock"])

-----------------------------------------------------------------------------
(* Changing the settings: each change is saved and followed by a detection; *)
(* the bump comes after the last one.                                       *)

Save(t) ==
    /\ At(t, "save")
    /\ ws' = Applied(ws, Head(th[t].todo))
    /\ Now(t, [th[t] EXCEPT !.pc = "detect", !.todo = Tail(@), !.news = TRUE])
    /\ UNCHANGED <<report, library, world, generation, built, hub, silent, budget>>

\* An invalid folder, or a document that cannot be saved: no bump.
Refuse(t) ==
    /\ At(t, "save") /\ Upset
    /\ Return(t)
    /\ UNCHANGED <<inputs, world, generation, built, hub>>

Detect(t) ==
    /\ At(t, "detect")
    /\ Now(t, [th[t] EXCEPT !.pc = "report", !.r = Detected(ws)])
    /\ UNCHANGED <<inputs, world, generation, built, hub, silent, budget>>

\* The report of the planning designer_ctx is the one its key comes from.
WriteReport(t) ==
    /\ At(t, "report")
    /\ report' = {th[t].r}
    /\ Now(t, [th[t] EXCEPT
         !.news = @ \/ th[t].call # "designer",
         !.pc = CASE th[t].call = "update" -> IF th[t].todo = <<>> THEN "bump" ELSE "save"
                  [] th[t].call = "scan" -> "walk"
                  [] OTHER -> "library"])
    /\ UNCHANGED <<ws, library, world, generation, built, hub, silent, budget>>

Enable(t) ==
    /\ At(t, "enable")
    /\ \E on \in BOOLEAN : ws' = [ws EXCEPT !.enabled = on]
    /\ Now(t, [th[t] EXCEPT !.pc = "bump", !.news = TRUE])
    /\ UNCHANGED <<report, library, world, generation, built, hub, silent, budget>>

\* Mutant of Bump: the generation moves under the hub's lock.
BumpUnderLock(t) ==
    /\ At(t, "bump") /\ hub = {}
    /\ generation' = generation + 1
    /\ silent' = FALSE
    /\ Now(t, IF th[t].call \in {"designer", "env"}
              THEN [th[t] EXCEPT !.pc = "again", !.news = FALSE] ELSE Idle)
    /\ UNCHANGED <<inputs, world, built, hub, budget>>

\* A bump by anyone announces what was changed before it.
Bump(t) ==
    /\ At(t, "bump")
    /\ generation' = generation + 1
    /\ silent' = FALSE
    /\ Now(t, IF th[t].call \in {"designer", "env"}
              THEN [th[t] EXCEPT !.pc = "again", !.news = FALSE] ELSE Idle)
    /\ UNCHANGED <<inputs, world, built, hub, budget>>

-----------------------------------------------------------------------------
(* A scan, on its own or inside a plan.  Without an enabled source it fails *)
(* and installs nothing.                                                    *)

ReadSources(t) ==
    /\ At(t, "sources")
    /\ Now(t, [th[t] EXCEPT !.on = ws.enabled,
                            !.pc = IF th[t].full \/ report = {} THEN "detect" ELSE "walk"])
    /\ UNCHANGED <<inputs, world, generation, built, hub, silent, budget>>

Walk(t) ==
    /\ At(t, "walk") /\ th[t].on
    /\ Now(t, [th[t] EXCEPT !.found = ce, !.pc = "install"])
    /\ UNCHANGED <<inputs, world, generation, built, hub, silent, budget>>

NoSources(t) ==
    /\ At(t, "walk") /\ ~th[t].on
    /\ IF th[t].call = "scan" THEN Return(t) ELSE Goto(t, "again") /\ UNCHANGED silent
    /\ UNCHANGED <<inputs, world, generation, built, hub, budget>>

CancelScan(t) ==
    /\ At(t, "walk") /\ th[t].call = "scan" /\ Upset
    /\ Return(t)
    /\ UNCHANGED <<inputs, world, generation, built, hub>>

Install(t) ==
    /\ At(t, "install")
    /\ library' = {[ce |-> th[t].found]}
    /\ Now(t, [th[t] EXCEPT !.pc = "bump", !.news = TRUE])
    /\ UNCHANGED <<ws, report, world, generation, built, hub, silent, budget>>

-----------------------------------------------------------------------------
(* designer_ctx, and write_env, which trusts a built context whatever its   *)
(* generation and plans without the lock when there is none.                *)

Cached(t) == \E b \in built : th[t].call = "env" \/ b.gen = generation

TakeCached(t) ==
    /\ At(t, "lock") /\ hub = {} /\ Cached(t)
    /\ Return(t)
    /\ UNCHANGED <<inputs, world, generation, built, hub, budget>>

Lock(t) ==
    /\ At(t, "lock") /\ hub = {} /\ ~Cached(t)
    /\ hub' = IF th[t].call = "designer" THEN {t} ELSE hub
    /\ Now(t, [th[t] EXCEPT !.pc = "plan", !.gen = generation])
    /\ UNCHANGED <<inputs, world, generation, built, silent, budget>>

ReadWorkspace(t) ==
    /\ At(t, "plan")
    /\ Now(t, [th[t] EXCEPT !.w = ws, !.pc = "cached"])
    /\ UNCHANGED <<inputs, world, generation, built, hub, silent, budget>>

ReadReport(t) ==
    /\ At(t, "cached")
    /\ IF report = {} THEN Goto(t, "detect")
       ELSE \E r \in report : Now(t, [th[t] EXCEPT !.r = r, !.pc = "library"])
    /\ UNCHANGED <<inputs, world, generation, built, hub, silent, budget>>

\* The snapshot is only looked for when there is an install, and a scan is
\* made when there is none yet.
ReadLibrary(t) ==
    /\ At(t, "library")
    /\ IF th[t].r.install # {} /\ library = {} THEN Goto(t, "sources")
       ELSE Now(t, [th[t] EXCEPT !.lib = library, !.pc = "key"])
    /\ UNCHANGED <<inputs, world, generation, built, hub, silent, budget>>

ReadAgain(t) ==
    /\ At(t, "again")
    /\ Now(t, [th[t] EXCEPT !.lib = library, !.pc = "key"])
    /\ UNCHANGED <<inputs, world, generation, built, hub, silent, budget>>

EnvPlanned(t) ==
    /\ At(t, "key") /\ th[t].call = "env"
    /\ Return(t)
    /\ UNCHANGED <<inputs, world, generation, built, hub, budget>>

SameKey(t) == \E b \in built : b.key = KeyOf(th[t].r, th[t].lib)

\* Mutant of Confirm: the generation of now, not the one before the plan.
ConfirmNow(t) ==
    /\ At(t, "key") /\ th[t].call = "designer" /\ SameKey(t)
    /\ built' = {[b EXCEPT !.gen = generation] : b \in built}
    /\ hub' = {}
    /\ Return(t)
    /\ UNCHANGED <<inputs, world, generation, budget>>

Confirm(t) ==
    /\ At(t, "key") /\ th[t].call = "designer" /\ SameKey(t)
    /\ built' = {[b EXCEPT !.gen = th[t].gen] : b \in built}
    /\ hub' = {}
    /\ Return(t)
    /\ UNCHANGED <<inputs, world, generation, budget>>

Build(t) ==
    /\ At(t, "key") /\ th[t].call = "designer" /\ ~SameKey(t)
    /\ built' = {Context(th[t].r, th[t].w, th[t].lib, th[t].gen)}
    /\ hub' = {}
    /\ Return(t)
    /\ UNCHANGED <<inputs, world, generation, budget>>

\* What was built before stays.
FailBuild(t) ==
    /\ At(t, "key") /\ th[t].call = "designer" /\ ~SameKey(t) /\ Upset
    /\ hub' = {}
    /\ Return(t)
    /\ UNCHANGED <<inputs, world, generation, built>>

-----------------------------------------------------------------------------
(* The disk changes under the program.                                      *)
Upgrade ==
    /\ Upset
    /\ version' = version + 1
    /\ UNCHANGED <<inputs, ce, generation, built, hub, th, silent>>

MoveMod ==
    /\ Upset
    /\ ce' = ~ce
    /\ UNCHANGED <<inputs, version, generation, built, hub, th, silent>>

Call(t) ==
    \/ \E q \in Requests : Update(t, q)
    \/ DetectRun(t)
    \/ Sources(t)
    \/ \E all \in BOOLEAN : Scan(t, all)
    \/ Designer(t)
    \/ WriteEnv(t)

Step(t) ==
    \/ Save(t) \/ Detect(t) \/ WriteReport(t) \/ Enable(t) \/ Bump(t)
    \/ ReadSources(t) \/ Walk(t) \/ NoSources(t) \/ Install(t)
    \/ TakeCached(t) \/ Lock(t) \/ ReadWorkspace(t) \/ ReadReport(t)
    \/ ReadLibrary(t) \/ ReadAgain(t) \/ EnvPlanned(t) \/ Confirm(t) \/ Build(t)

Disturb(t) == Refuse(t) \/ CancelScan(t) \/ FailBuild(t)

Next ==
    \/ \E t \in Threads : Call(t) \/ Step(t) \/ Disturb(t)
    \/ Upgrade \/ MoveMod

Spec == Init /\ [][Next]_vars

\* Threads are scheduled, and what a plan reads and builds comes to an end.
FairSpec == Spec /\ \A t \in Threads : WF_vars(Step(t))

-----------------------------------------------------------------------------
(* Properties.                                                              *)

ThreadType ==
    [call : {"none", "update", "sources", "scan", "designer", "env"},
     pc : {"idle", "save", "detect", "report", "bump", "enable", "sources", "walk",
           "install", "lock", "plan", "cached", "library", "again", "key"},
     todo : Seq(Changes), full : BOOLEAN, gen : Nat, w : Workspaces, r : Reports,
     lib : Opt(Snapshots), on : BOOLEAN, found : BOOLEAN, news : BOOLEAN]

Contexts == [key : Keys, gen : Nat,
             denied : SUBSET (Installs \cup Users \cup Folders)]

(* Inputs, context and calls are well typed, and the lock is held by the    *)
(* one designer_ctx that plans.                                             *)
TypeOK ==
    /\ ws \in Workspaces
    /\ AtMostOne(report, Reports)
    /\ library \in Opt(Snapshots)
    /\ version \in Nat /\ ce \in BOOLEAN
    /\ generation \in Nat
    /\ AtMostOne(built, Contexts)
    /\ hub \in Opt(Threads)
    /\ th \in [Threads -> ThreadType]
    /\ silent \in BOOLEAN
    /\ begun \in 0 .. MaxCalls /\ upsets \in 0 .. MaxUpsets

\* Every change of an input was followed by a bump.
Announced == ~silent /\ \A t \in Threads : ~th[t].news

(* "The next call recomputes the key" (WorkspaceHub::bump): a context whose *)
(* generation is the current one, which the next call returns unseen, has   *)
(* the key that planning again would give, unless an input was changed by a *)
(* call that has not bumped (designer_ctx, against bumps during its plan).  *)
KeyFresh ==
    hub = {} /\ Announced =>
        \A b \in built, r \in report :
            b.gen = generation => b.key = KeyOf(r, library)

(* Every call returns, the ones that wait for the hub's lock too, although  *)
(* its holder makes a scan that bumps the hub (designer_ctx, run_scan).     *)
EveryCallReturns ==
    \A t \in Threads : ~At(t, "idle") ~> At(t, "idle")
=============================================================================

----------------------------- MODULE HubProofs -----------------------------
(***************************************************************************)
(* Theorems about Hub, for any threads, folders, requests and bounds.       *)
(*                                                                         *)
(* Every step that changes an input leaves its thread with news, and only a *)
(* bump takes news away.  So while everything is announced nothing has      *)
(* changed since the generation last moved, and what a plan read after it   *)
(* loaded that generation is still what is there when it stores its key.    *)
(***************************************************************************)
EXTENDS Hub, TLAPS

Planner(r) == r.call = "designer" /\ r.pc # "lock"

\* Where each kind of call can be.
Shape(r) ==
    /\ r.pc = "idle" <=> r.call = "none"
    /\ r.pc = "save" => r.todo # <<>> /\ r.call = "update"
    /\ r.pc = "enable" => r.call = "sources"
    /\ r.pc \in {"lock", "plan", "cached", "library", "again", "key"} =>
         r.call \in {"designer", "env"}
    /\ r.pc \in {"sources", "walk", "install"} => r.call \in {"scan", "designer", "env"}
    /\ r.pc \in {"detect", "report"} => r.call # "sources"
    /\ r.pc = "idle" => ~r.news

\* What the plan under the lock has read, while everything is announced and
\* the generation it loaded is the current one.
ReadIt(r) ==
    /\ r.pc \in {"library", "again", "key", "sources", "walk", "install", "bump"} =>
         report = {r.r}
    /\ r.pc = "key" => r.lib = library

HubInv ==
    /\ TypeOK
    /\ \A t \in Threads : Shape(th[t]) /\ th[t].gen =< generation
    /\ \A t \in Threads : t \in hub <=> Planner(th[t])
    /\ \A b \in built : b.gen =< generation /\ (hub # {} => b.gen < generation)
    /\ Announced => \A t \in hub : th[t].gen = generation => ReadIt(th[t])
    /\ Announced => \A b \in built, r \in report :
                        b.gen = generation => b.key = KeyOf(r, library)

-----------------------------------------------------------------------------
LEMMA IdleTyped == Idle \in ThreadType /\ Shape(Idle)
<1>1. Blank \in Workspaces /\ NoReport \in Reports
  BY DEF Blank, NoReport, Workspaces, Reports, Opt
<1>2. {} \in Opt(Snapshots) /\ <<>> \in Seq(Changes)
  BY DEF Opt
<1> QED
  BY <1>1, <1>2 DEF Idle, ThreadType, Shape

LEMMA AppliedTyped ==
    ASSUME NEW w \in Workspaces, NEW c \in Changes
    PROVE  Applied(w, c) \in Workspaces
<1>1. CASE c.field = "install"
  BY <1>1 DEF Applied, Workspaces, Changes
<1>2. CASE c.field = "user"
  BY <1>2 DEF Applied, Workspaces, Changes
<1>3. CASE c.field = "workshop"
  <2>1. c.value \in Opt(Folders)
    BY <1>3 DEF Changes
  <2>2. c.value \subseteq Folders
    BY <2>1 DEF Opt
  <2> QED
    BY <1>3, <2>2 DEF Applied, Workspaces
<1> QED
  BY <1>1, <1>2, <1>3 DEF Changes

LEMMA DetectedTyped ==
    ASSUME NEW w \in Workspaces, version \in Nat PROVE Detected(w) \in Reports
BY HubAssumption DEF Detected, Reports, Workspaces

LEMMA ContextTyped ==
    ASSUME NEW r \in Reports, NEW w \in Workspaces, NEW lib \in Opt(Snapshots), NEW g \in Nat
    PROVE  Context(r, w, lib, g) \in Contexts
<1>1. KeyOf(r, lib) \in Keys
  <2>1. (r.install # {} /\ \E s \in lib : s.ce) \in BOOLEAN
    OBVIOUS
  <2> QED
    BY <2>1 DEF KeyOf, Keys, Reports
<1>2. r.install \subseteq Installs /\ w.install \subseteq Installs
  BY DEF Reports, Workspaces, Opt
<1>3. r.user \subseteq Users /\ w.user \subseteq Users /\ w.workshop \subseteq Folders
  BY DEF Reports, Workspaces, Opt
<1>4. Denied(r, w) \in SUBSET (Installs \cup Users \cup Folders)
  BY <1>2, <1>3 DEF Denied
<1> QED
  BY <1>1, <1>4 DEF Context, Contexts

\* A single element of an optional value.
LEMMA OptOne == ASSUME NEW S, NEW x \in S PROVE {x} \in Opt(S) /\ AtMostOne({x}, S)
BY DEF Opt, AtMostOne

LEMMA InitHub == Init => HubInv
<1> SUFFICES ASSUME Init PROVE HubInv
  OBVIOUS
<1>1. ws \in Workspaces
  BY DEF Init, Blank, Workspaces, Opt
<1>2. th \in [Threads -> ThreadType] /\ \A t \in Threads : th[t] = Idle
  BY IdleTyped DEF Init
<1>3. begun \in 0 .. MaxCalls /\ upsets \in 0 .. MaxUpsets
  BY HubAssumption DEF Init
<1>4. hub \in Opt(Threads) /\ library \in Opt(Snapshots)
  BY DEF Init, Opt
<1>5. TypeOK
  BY <1>1, <1>2, <1>3, <1>4 DEF Init, TypeOK, AtMostOne
<1>6. \A t \in Threads : /\ Shape(th[t]) /\ th[t].gen =< generation
                          /\ ~(t \in hub) /\ ~Planner(th[t])
  <2>1. Idle.gen = 0 /\ ~Planner(Idle)
    BY DEF Idle, Planner
  <2>2. generation = 1 /\ hub = {}
    BY DEF Init
  <2>3. Idle.gen =< generation
    BY <2>1, <2>2
  <2> QED
    BY <1>2, <2>1, <2>2, <2>3, IdleTyped
<1>7. built = {} /\ hub = {}
  BY DEF Init
<1> QED
  BY <1>5, <1>6, <1>7 DEF HubInv

-----------------------------------------------------------------------------
(* Three kinds of steps.                                                    *)

Counted == begun' \in 0 .. MaxCalls /\ upsets' \in 0 .. MaxUpsets
World == version' \in Nat /\ ce' \in BOOLEAN

\* What a record of thread t's next state has to satisfy by itself.
NextOK(t, r) ==
    /\ r \in ThreadType /\ Shape(r) /\ r.gen =< generation
    /\ th' = [th EXCEPT ![t] = r]

LEMMA NextTh ==
    ASSUME HubInv, NEW t \in Threads, NEW r, NextOK(t, r)
    PROVE  /\ th' \in [Threads -> ThreadType]
           /\ th'[t] = r
           /\ \A u \in Threads \ {t} : th'[u] = th[u]
           /\ \A u \in Threads : Shape(th'[u]) /\ th'[u].gen =< generation
BY DEF HubInv, TypeOK, NextOK

\* The thread moves on, inside or outside its plan, and changes nothing else.
LEMMA ThreadStep ==
    ASSUME HubInv, NEW t \in Threads, NEW r, NextOK(t, r), Counted, World,
           Planner(r) <=> Planner(th[t]),
           UNCHANGED <<inputs, generation, built, hub>>,
           silent' \in BOOLEAN, silent => silent', th[t].news => r.news \/ silent',
           t \in hub /\ Announced' /\ r.gen = generation => ReadIt(r)
    PROVE  HubInv'
<1>1. /\ th' \in [Threads -> ThreadType] /\ th'[t] = r
      /\ \A u \in Threads \ {t} : th'[u] = th[u]
      /\ \A u \in Threads : Shape(th'[u]) /\ th'[u].gen =< generation
  BY NextTh
<1>2. TypeOK'
  BY <1>1 DEF HubInv, TypeOK, AtMostOne, Counted, World, inputs
<1>3. Announced' => Announced
  BY <1>1 DEF Announced
<1>4. \A u \in Threads : u \in hub' <=> Planner(th'[u])
  BY <1>1 DEF HubInv
<1>5. Announced' => \A u \in hub' : th'[u].gen = generation' => ReadIt(th[u])'
  <2> SUFFICES ASSUME Announced', NEW u \in hub, th'[u].gen = generation
               PROVE  ReadIt(th[u])'
    OBVIOUS
  <2>1. u \in Threads
    BY DEF HubInv, TypeOK, Opt
  <2>2. ReadIt(th'[u])
    BY <1>1, <1>3, <2>1 DEF HubInv
  <2> QED
    BY <2>2 DEF ReadIt, inputs
<1> QED
  BY <1>1, <1>2, <1>3, <1>4, <1>5 DEF HubInv, inputs

\* The thread changes an input and has news of it.
LEMMA NewsStep ==
    ASSUME HubInv, NEW t \in Threads, NEW r, NextOK(t, r), r.news,
           Planner(r) <=> Planner(th[t]),
           ws' \in Workspaces, AtMostOne(report, Reports)', library' \in Opt(Snapshots),
           UNCHANGED <<world, generation, built, hub, silent, budget>>
    PROVE  HubInv'
<1>1. /\ th' \in [Threads -> ThreadType] /\ th'[t] = r
      /\ \A u \in Threads \ {t} : th'[u] = th[u]
      /\ \A u \in Threads : Shape(th'[u]) /\ th'[u].gen =< generation
  BY NextTh
<1>2. TypeOK'
  BY <1>1 DEF HubInv, TypeOK, AtMostOne, world, budget
<1>3. ~Announced'
  BY <1>1 DEF Announced
<1> QED
  BY <1>1, <1>2, <1>3 DEF HubInv

\* The planner ends: it stores a context, or leaves what there was.
LEMMA Unlock ==
    ASSUME HubInv, NEW t \in Threads, Planner(th[t]),
           th' = [th EXCEPT ![t] = Idle], silent' = (silent \/ th[t].news),
           hub' = {}, Counted, UNCHANGED <<inputs, world, generation>>,
           AtMostOne(built, Contexts)',
           \A b \in built' : b.gen =< generation,
           Announced => \A b \in built', r \in report :
                            b.gen = generation => b.key = KeyOf(r, library)
    PROVE  HubInv'
<1>1. Idle \in ThreadType /\ Shape(Idle) /\ Idle.gen = 0 /\ ~Idle.news
  BY IdleTyped DEF Idle
<1>2. generation \in Nat
  BY DEF HubInv, TypeOK
<1>3. NextOK(t, Idle)
  BY <1>1, <1>2 DEF NextOK
<1>4. /\ th' \in [Threads -> ThreadType] /\ th'[t] = Idle
      /\ \A u \in Threads \ {t} : th'[u] = th[u]
      /\ \A u \in Threads : Shape(th'[u]) /\ th'[u].gen =< generation
  BY <1>3, NextTh
<1>5. TypeOK'
  <2>1. hub' \in Opt(Threads) /\ silent' \in BOOLEAN
    BY <1>4 DEF HubInv, TypeOK, Opt, ThreadType
  <2> QED
    BY <1>4, <2>1 DEF HubInv, TypeOK, AtMostOne, Counted, inputs, world
<1>6. Announced' => Announced
  BY <1>4 DEF Announced
<1>7. \A u \in Threads : ~Planner(th'[u])
  <2> SUFFICES ASSUME NEW u \in Threads, Planner(th'[u]) PROVE FALSE
    OBVIOUS
  <2>1. u # t
    BY <1>4 DEF Planner, Idle
  <2>2. u \in hub /\ t \in hub
    BY <1>4, <2>1 DEF HubInv
  <2> QED
    BY <2>1, <2>2 DEF HubInv, TypeOK, Opt
<1> QED
  BY <1>4, <1>5, <1>6, <1>7 DEF HubInv, inputs

-----------------------------------------------------------------------------
(* One lemma for each group of actions.                                     *)

LEMMA CallStep ==
    ASSUME HubInv, NEW t \in Threads, Call(t) PROVE HubInv'
<1> DEFINE Fresh(r) == /\ r \in ThreadType /\ Shape(r) /\ r.gen = 0 /\ ~Planner(r)
                       /\ Begin(t, r)
<1>1. \E r : Fresh(r)
  <2>1. Idle \in ThreadType
    BY IdleTyped
  <2>2. ASSUME NEW q \in Requests, Update(t, q) PROVE \E r : Fresh(r)
    <3>1. q \in Seq(Changes) /\ q # <<>>
      BY HubAssumption
    <3> QED
      BY <2>1, <2>2, <3>1 DEF Update, Idle, ThreadType, Shape, Planner
  <2>3. CASE Sources(t)
    BY <2>1, <2>3 DEF Sources, Idle, ThreadType, Shape, Planner
  <2>7. CASE DetectRun(t)
    BY <2>1, <2>7 DEF DetectRun, Idle, ThreadType, Shape, Planner
  <2>4. ASSUME NEW all \in BOOLEAN, Scan(t, all) PROVE \E r : Fresh(r)
    BY <2>1, <2>4 DEF Scan, Idle, ThreadType, Shape, Planner
  <2>5. CASE Designer(t)
    BY <2>1, <2>5 DEF Designer, Idle, ThreadType, Shape, Planner
  <2>6. CASE WriteEnv(t)
    BY <2>1, <2>6 DEF WriteEnv, Idle, ThreadType, Shape, Planner
  <2> QED
    BY <2>2, <2>3, <2>4, <2>5, <2>6, <2>7 DEF Call
<1>2. PICK r : Fresh(r)
  BY <1>1
<1>3. /\ th[t].pc = "idle" /\ begun < MaxCalls /\ begun' = begun + 1
      /\ th' = [th EXCEPT ![t] = r]
      /\ UNCHANGED <<inputs, world, generation, built, hub, silent, upsets>>
  BY <1>2 DEF Begin, At, Now
<1>4. NextOK(t, r)
  BY <1>2, <1>3 DEF NextOK, HubInv, TypeOK
<1>5. Counted /\ World
  BY <1>3, HubAssumption DEF Counted, World, HubInv, TypeOK, world
<1>6. ~Planner(th[t]) /\ ~th[t].news /\ ~(t \in hub)
  BY <1>3 DEF HubInv, Shape, Planner
<1>7. silent' \in BOOLEAN
  BY <1>3 DEF HubInv, TypeOK
<1> HIDE DEF Fresh
<1> QED
  BY <1>2, <1>3, <1>4, <1>5, <1>6, <1>7, ThreadStep DEF Fresh

\* A return of a thread that does not hold the lock.
LEMMA ReturnStep ==
    ASSUME HubInv, NEW t \in Threads, Return(t), ~Planner(th[t]), Counted,
           UNCHANGED <<inputs, world, generation, built, hub>>
    PROVE  HubInv'
<1>1. Idle.gen = 0 /\ ~Planner(Idle)
  BY DEF Idle, Planner
<1>2. NextOK(t, Idle)
  BY <1>1, IdleTyped DEF Return, Now, NextOK, HubInv, TypeOK
<1>3. World /\ ~(t \in hub)
  BY DEF World, HubInv, TypeOK, world
<1>4. silent' \in BOOLEAN /\ (silent => silent') /\ (th[t].news => silent')
  BY DEF Return, HubInv, TypeOK, ThreadType
<1> QED
  BY <1>1, <1>2, <1>3, <1>4, ThreadStep

LEMMA ReturnsStep ==
    ASSUME HubInv, NEW t \in Threads,
           \/ Refuse(t) \/ CancelScan(t) \/ TakeCached(t) \/ EnvPlanned(t)
           \/ NoSources(t) /\ th[t].call = "scan"
    PROVE  HubInv'
<1>1. Return(t) /\ UNCHANGED <<inputs, world, generation, built, hub>>
  BY DEF Refuse, CancelScan, TakeCached, EnvPlanned, NoSources
<1>2. ~Planner(th[t])
  BY DEF Refuse, CancelScan, TakeCached, EnvPlanned, NoSources, At, HubInv, Shape, Planner
<1>3. Counted
  BY HubAssumption DEF Refuse, CancelScan, TakeCached, EnvPlanned, NoSources, Upset,
     Counted, HubInv, TypeOK, budget
<1> QED
  BY <1>1, <1>2, <1>3, ReturnStep

\* Steps that read, by any thread.
LEMMA ReadStep ==
    ASSUME HubInv, NEW t \in Threads,
           \/ Detect(t) \/ ReadSources(t) \/ Walk(t)
           \/ NoSources(t) /\ th[t].call # "scan"
           \/ ReadWorkspace(t) \/ ReadReport(t) \/ ReadLibrary(t) \/ ReadAgain(t)
    PROVE  HubInv'
<1> DEFINE Moves(r) ==
      /\ th' = [th EXCEPT ![t] = r]
      /\ r \in ThreadType /\ Shape(r)
      /\ r.gen = th[t].gen /\ r.call = th[t].call /\ r.news = th[t].news
      /\ r.pc \notin {"lock", "idle"} /\ th[t].pc \notin {"lock", "idle"}
      /\ t \in hub /\ ReadIt(th[t]) => ReadIt(r)
<1>0. /\ th[t] \in ThreadType /\ Shape(th[t]) /\ th[t].gen =< generation
      /\ \A x : th' = [th EXCEPT ![t] = x] => th'[t] = x
  BY DEF HubInv, TypeOK
<1> PICK r : r = th'[t]
  OBVIOUS
<1>1. UNCHANGED <<inputs, world, generation, built, hub, silent, budget>>
  BY DEF Detect, ReadSources, Walk, NoSources, ReadWorkspace, ReadReport, ReadLibrary, ReadAgain
<1>3. Moves(r)
  <2>1. CASE Detect(t)
    <3>1. th[t].pc = "detect" /\ th' = [th EXCEPT ![t] = [th[t] EXCEPT !.pc = "report", !.r = Detected(ws)]]
      BY <2>1 DEF Detect, At, Now, Goto
    <3>2. r = [th[t] EXCEPT !.pc = "report", !.r = Detected(ws)] /\ th' = [th EXCEPT ![t] = r]
      BY <1>0, <3>1
    <3>3. Detected(ws) \in Reports
      BY DetectedTyped DEF HubInv, TypeOK
    <3>4. r \in ThreadType
      BY <1>0, <3>2, <3>3 DEF ThreadType
    <3> QED
      BY <1>0, <3>1, <3>2, <3>3, <3>4 DEF Shape, ReadIt
  <2>2. CASE ReadSources(t)
    <3>1. /\ th[t].pc = "sources"
          /\ \E p \in {"detect", "walk"} :
               th' = [th EXCEPT ![t] = [th[t] EXCEPT !.on = ws.enabled, !.pc = p]]
      BY <2>2 DEF ReadSources, At, Now
    <3>2. PICK p \in {"detect", "walk"} :
            th' = [th EXCEPT ![t] = [th[t] EXCEPT !.on = ws.enabled, !.pc = p]]
      BY <3>1
    <3>3. r = [th[t] EXCEPT !.on = ws.enabled, !.pc = p] /\ th' = [th EXCEPT ![t] = r]
      BY <1>0, <3>2
    <3>4. ws.enabled \in BOOLEAN
      BY DEF HubInv, TypeOK, Workspaces
    <3>5. r \in ThreadType
      BY <1>0, <3>3, <3>4 DEF ThreadType
    <3>6. Shape(r)
      BY <1>0, <3>1, <3>3 DEF Shape, ThreadType
    <3>7. ReadIt(th[t]) => ReadIt(r)
      BY <1>0, <3>1, <3>3 DEF ReadIt, ThreadType
    <3> QED
      BY <1>0, <3>1, <3>3, <3>5, <3>6, <3>7 DEF ThreadType
  <2>3. CASE Walk(t)
    <3>1. th[t].pc = "walk" /\ th' = [th EXCEPT ![t] = [th[t] EXCEPT !.found = ce, !.pc = "install"]]
      BY <2>3 DEF Walk, At, Now, Goto
    <3>2. r = [th[t] EXCEPT !.found = ce, !.pc = "install"] /\ th' = [th EXCEPT ![t] = r]
      BY <1>0, <3>1
    <3>3. ce \in BOOLEAN
      BY DEF HubInv, TypeOK
    <3>4. r \in ThreadType
      BY <1>0, <3>2, <3>3 DEF ThreadType
    <3> QED
      BY <1>0, <3>1, <3>2, <3>3, <3>4 DEF Shape, ReadIt
  <2>4. CASE NoSources(t) /\ th[t].call # "scan"
    <3>1. th[t].pc = "walk" /\ th' = [th EXCEPT ![t] = [th[t] EXCEPT !.pc = "again"]]
      BY <2>4 DEF NoSources, At, Now, Goto
    <3>2. r = [th[t] EXCEPT !.pc = "again"] /\ th' = [th EXCEPT ![t] = r]
      BY <1>0, <3>1
    <3>3. th[t].call \in {"designer", "env"}
      BY <1>0, <2>4, <3>1 DEF ThreadType, Shape
    <3>4. r \in ThreadType
      BY <1>0, <3>2, <3>3 DEF ThreadType
    <3>5. Shape(r)
      BY <1>0, <3>1, <3>2, <3>3 DEF Shape, ThreadType
    <3>6. ReadIt(th[t]) => ReadIt(r)
      BY <1>0, <3>1, <3>2 DEF ReadIt, ThreadType
    <3> QED
      BY <1>0, <3>1, <3>2, <3>4, <3>5, <3>6 DEF ThreadType
  <2>5. CASE ReadWorkspace(t)
    <3>1. th[t].pc = "plan" /\ th' = [th EXCEPT ![t] = [th[t] EXCEPT !.w = ws, !.pc = "cached"]]
      BY <2>5 DEF ReadWorkspace, At, Now, Goto
    <3>2. r = [th[t] EXCEPT !.w = ws, !.pc = "cached"] /\ th' = [th EXCEPT ![t] = r]
      BY <1>0, <3>1
    <3>3. ws \in Workspaces
      BY DEF HubInv, TypeOK
    <3>4. r \in ThreadType
      BY <1>0, <3>2, <3>3 DEF ThreadType
    <3> QED
      BY <1>0, <3>1, <3>2, <3>3, <3>4 DEF Shape, ReadIt
  <2>6. CASE ReadReport(t)
    <3>1. th[t].pc = "cached"
      BY <2>6 DEF ReadReport, At
    <3>2. CASE report = {}
      <4>1. th' = [th EXCEPT ![t] = [th[t] EXCEPT !.pc = "detect"]]
        BY <2>6, <3>2 DEF ReadReport, Goto, Now
      <4>2. r = [th[t] EXCEPT !.pc = "detect"] /\ th' = [th EXCEPT ![t] = r]
        BY <1>0, <4>1
      <4>3. r \in ThreadType
        BY <1>0, <4>2 DEF ThreadType
      <4> QED
        BY <1>0, <3>1, <4>2, <4>3 DEF Shape, ReadIt
    <3>3. CASE report # {}
      <4>1. PICK x \in report : th' = [th EXCEPT ![t] = [th[t] EXCEPT !.r = x, !.pc = "library"]]
        BY <2>6, <3>3 DEF ReadReport, Now
      <4>2. x \in Reports /\ report = {x}
        BY DEF HubInv, TypeOK, AtMostOne
      <4>3. r = [th[t] EXCEPT !.r = x, !.pc = "library"] /\ th' = [th EXCEPT ![t] = r]
        BY <1>0, <4>1
      <4>4. r \in ThreadType
        BY <1>0, <4>2, <4>3 DEF ThreadType
      <4> QED
        BY <1>0, <3>1, <4>2, <4>3, <4>4 DEF Shape, ReadIt
    <3> QED
      BY <3>2, <3>3
  <2>7. CASE ReadLibrary(t)
    <3>1. th[t].pc = "library"
      BY <2>7 DEF ReadLibrary, At
    <3>2. CASE th' = [th EXCEPT ![t] = [th[t] EXCEPT !.pc = "sources"]]
      <4>1. r = [th[t] EXCEPT !.pc = "sources"] /\ th' = [th EXCEPT ![t] = r]
        BY <1>0, <3>2
      <4>2. r \in ThreadType
        BY <1>0, <4>1 DEF ThreadType
      <4> QED
        BY <1>0, <3>1, <4>1, <4>2 DEF Shape, ReadIt
    <3>3. CASE th' = [th EXCEPT ![t] = [th[t] EXCEPT !.lib = library, !.pc = "key"]]
      <4>1. r = [th[t] EXCEPT !.lib = library, !.pc = "key"] /\ th' = [th EXCEPT ![t] = r]
        BY <1>0, <3>3
      <4>2. library \in Opt(Snapshots)
        BY DEF HubInv, TypeOK
      <4>3. r \in ThreadType
        BY <1>0, <4>1, <4>2 DEF ThreadType
      <4> QED
        BY <1>0, <3>1, <4>1, <4>3 DEF Shape, ReadIt
    <3> QED
      BY <2>7, <3>2, <3>3 DEF ReadLibrary, Goto, Now
  <2>8. CASE ReadAgain(t)
    <3>1. th[t].pc = "again" /\ th' = [th EXCEPT ![t] = [th[t] EXCEPT !.lib = library, !.pc = "key"]]
      BY <2>8 DEF ReadAgain, At, Now, Goto
    <3>2. r = [th[t] EXCEPT !.lib = library, !.pc = "key"] /\ th' = [th EXCEPT ![t] = r]
      BY <1>0, <3>1
    <3>3. library \in Opt(Snapshots)
      BY DEF HubInv, TypeOK
    <3>4. r \in ThreadType
      BY <1>0, <3>2, <3>3 DEF ThreadType
    <3> QED
      BY <1>0, <3>1, <3>2, <3>3, <3>4 DEF Shape, ReadIt
  <2> QED
    BY <2>1, <2>2, <2>3, <2>4, <2>5, <2>6, <2>7, <2>8
<1>4. NextOK(t, r)
  BY <1>0, <1>3 DEF NextOK
<1>5. Planner(r) <=> Planner(th[t])
  BY <1>3 DEF Planner
<1>6. Counted /\ World /\ silent' \in BOOLEAN
  BY <1>1 DEF Counted, World, HubInv, TypeOK, world, budget
<1>7. ASSUME t \in hub, Announced', r.gen = generation PROVE ReadIt(r)
  <2>1. th'[t] = r /\ \A u \in Threads \ {t} : th'[u] = th[u]
    BY <1>4, NextTh
  <2>2. Announced
    BY <1>1, <1>3, <1>7, <2>1 DEF Announced
  <2> QED
    BY <1>3, <1>7, <2>2 DEF HubInv
<1> QED
  BY <1>1, <1>3, <1>4, <1>5, <1>6, <1>7, ThreadStep

\* Steps that change an input and leave news.
LEMMA ChangeStep ==
    ASSUME HubInv, NEW t \in Threads,
           \/ Save(t) \/ Enable(t) \/ Install(t)
           \/ WriteReport(t) /\ th[t].call # "designer"
    PROVE  HubInv'
<1> PICK r : r = th'[t]
  OBVIOUS
<1>0. /\ th[t] \in ThreadType /\ Shape(th[t]) /\ th[t].gen =< generation
      /\ \A x : th' = [th EXCEPT ![t] = x] => th'[t] = x
      /\ ws \in Workspaces /\ AtMostOne(report, Reports) /\ library \in Opt(Snapshots)
      /\ ce \in BOOLEAN
  BY DEF HubInv, TypeOK
<1> DEFINE Own ==
      /\ th' = [th EXCEPT ![t] = r]
      /\ r.news /\ r.gen = th[t].gen /\ r.call = th[t].call
      /\ r.pc \notin {"lock", "idle"} /\ th[t].pc \notin {"lock", "idle"}
<1> DEFINE Changed ==
      /\ Own /\ r \in ThreadType /\ Shape(r)
      /\ ws' \in Workspaces /\ AtMostOne(report, Reports)' /\ library' \in Opt(Snapshots)
      /\ UNCHANGED <<world, generation, built, hub, silent, budget>>
<1>1. ASSUME Save(t) PROVE Changed
  <2>1. /\ th[t].pc = "save" /\ ws' = Applied(ws, Head(th[t].todo))
        /\ th' = [th EXCEPT ![t] = [th[t] EXCEPT !.pc = "detect", !.todo = Tail(@), !.news = TRUE]]
        /\ UNCHANGED <<report, library, world, generation, built, hub, silent, budget>>
    BY <1>1 DEF Save, At, Now
  <2>2. th[t].todo \in Seq(Changes) /\ th[t].todo # <<>> /\ th[t].call = "update"
    BY <1>0, <2>1 DEF ThreadType, Shape
  <2>3. Head(th[t].todo) \in Changes /\ Tail(th[t].todo) \in Seq(Changes)
    BY <2>2
  <2>4. ws' \in Workspaces
    BY <1>0, <2>1, <2>3, AppliedTyped
  <2>5. r = [th[t] EXCEPT !.pc = "detect", !.todo = Tail(th[t].todo), !.news = TRUE]
    BY <1>0, <2>1
  <2>6. r \in ThreadType
    BY <1>0, <2>3, <2>5 DEF ThreadType
  <2>8. Shape(r)
    BY <1>0, <2>2, <2>5 DEF Shape, ThreadType
  <2>9. AtMostOne(report, Reports)' /\ library' \in Opt(Snapshots)
    BY <1>0, <2>1 DEF AtMostOne
  <2>10. Own
    BY <1>0, <2>1, <2>5 DEF ThreadType
  <2> HIDE DEF Own
  <2> QED
    BY <2>1, <2>4, <2>6, <2>8, <2>9, <2>10
<1>2. ASSUME Enable(t) PROVE Changed
  <2>1. PICK on \in BOOLEAN : ws' = [ws EXCEPT !.enabled = on]
    BY <1>2 DEF Enable
  <2>2. /\ th[t].pc = "enable"
        /\ th' = [th EXCEPT ![t] = [th[t] EXCEPT !.pc = "bump", !.news = TRUE]]
        /\ UNCHANGED <<report, library, world, generation, built, hub, silent, budget>>
    BY <1>2 DEF Enable, At, Now
  <2>3. ws' \in Workspaces
    BY <1>0, <2>1 DEF Workspaces
  <2>4. r = [th[t] EXCEPT !.pc = "bump", !.news = TRUE]
    BY <1>0, <2>2
  <2>5. r \in ThreadType
    BY <1>0, <2>4 DEF ThreadType
  <2>6. Shape(r)
    BY <1>0, <2>2, <2>4 DEF Shape, ThreadType
  <2>7. AtMostOne(report, Reports)' /\ library' \in Opt(Snapshots)
    BY <1>0, <2>2 DEF AtMostOne
  <2>10. Own
    BY <1>0, <2>2, <2>4 DEF ThreadType
  <2> HIDE DEF Own
  <2> QED
    BY <2>2, <2>3, <2>5, <2>6, <2>7, <2>10
<1>3. ASSUME Install(t) PROVE Changed
  <2>1. /\ th[t].pc = "install" /\ library' = {[ce |-> th[t].found]}
        /\ th' = [th EXCEPT ![t] = [th[t] EXCEPT !.pc = "bump", !.news = TRUE]]
        /\ UNCHANGED <<ws, report, world, generation, built, hub, silent, budget>>
    BY <1>3 DEF Install, At, Now
  <2>2. library' \in Opt(Snapshots)
    <3>1. [ce |-> th[t].found] \in Snapshots
      BY <1>0 DEF Snapshots, ThreadType
    <3> QED
      BY <2>1, <3>1 DEF Opt
  <2>3. r = [th[t] EXCEPT !.pc = "bump", !.news = TRUE]
    BY <1>0, <2>1
  <2>4. r \in ThreadType
    BY <1>0, <2>3 DEF ThreadType
  <2>5. Shape(r)
    BY <1>0, <2>1, <2>3 DEF Shape, ThreadType
  <2>6. ws' \in Workspaces /\ AtMostOne(report, Reports)'
    BY <1>0, <2>1 DEF AtMostOne
  <2>10. Own
    BY <1>0, <2>1, <2>3 DEF ThreadType
  <2> HIDE DEF Own
  <2> QED
    BY <2>1, <2>2, <2>4, <2>5, <2>6, <2>10
<1>4. ASSUME WriteReport(t) /\ th[t].call # "designer" PROVE Changed
  <2>1. /\ th[t].pc = "report" /\ report' = {th[t].r}
        /\ UNCHANGED <<ws, library, world, generation, built, hub, silent, budget>>
    BY <1>4 DEF WriteReport, At
  <2>2. /\ th' = [th EXCEPT ![t] = r]
        /\ \E p \in {"bump", "save", "walk", "library"} :
             /\ r = [th[t] EXCEPT !.news = TRUE, !.pc = p]
             /\ p = "save" => th[t].call = "update" /\ th[t].todo # <<>>
             /\ p = "walk" => th[t].call = "scan"
             /\ p = "library" => th[t].call \notin {"scan", "update"}
    <3> DEFINE P == CASE th[t].call = "update" -> IF th[t].todo = <<>> THEN "bump" ELSE "save"
                      [] th[t].call = "scan" -> "walk"
                      [] OTHER -> "library"
    <3>1. th' = [th EXCEPT ![t] = [th[t] EXCEPT !.news = TRUE, !.pc = P]]
      BY <1>0, <1>4 DEF WriteReport, Now
    <3>2. r = [th[t] EXCEPT !.news = TRUE, !.pc = P]
      BY <1>0, <3>1
    <3>3. CASE th[t].call = "update"
      BY <3>1, <3>2, <3>3
    <3>4. CASE th[t].call = "scan"
      BY <3>1, <3>2, <3>4
    <3>5. CASE th[t].call \notin {"update", "scan"}
      BY <3>1, <3>2, <3>5
    <3> QED
      BY <3>3, <3>4, <3>5
  <2>3. PICK p \in {"bump", "save", "walk", "library"} :
             /\ r = [th[t] EXCEPT !.news = TRUE, !.pc = p]
             /\ p = "save" => th[t].call = "update" /\ th[t].todo # <<>>
             /\ p = "walk" => th[t].call = "scan"
             /\ p = "library" => th[t].call \notin {"scan", "update"}
    BY <2>2
  <2>4. r \in ThreadType
    BY <1>0, <2>3 DEF ThreadType
  <2>5. th[t].call \in {"update", "scan", "env"}
    BY <1>0, <1>4, <2>1 DEF Shape, ThreadType
  <2>6. Shape(r)
    BY <1>0, <2>1, <2>3, <2>5 DEF Shape, ThreadType
  <2>7. AtMostOne(report, Reports)' /\ ws' \in Workspaces /\ library' \in Opt(Snapshots)
    BY <1>0, <2>1 DEF AtMostOne, ThreadType
  <2>10. Own
    BY <1>0, <2>1, <2>2, <2>3 DEF ThreadType
  <2> HIDE DEF Own
  <2> QED
    BY <2>1, <2>4, <2>6, <2>7, <2>10
<1>5. Changed
  BY <1>1, <1>2, <1>3, <1>4
<1> HIDE DEF Changed
<1>6. NextOK(t, r) /\ (Planner(r) <=> Planner(th[t]))
  BY <1>0, <1>5 DEF NextOK, Planner, Changed
<1> QED
  BY <1>5, <1>6, NewsStep DEF Changed

\* The plan writes the report its key will come from.
LEMMA PlanReportStep ==
    ASSUME HubInv, NEW t \in Threads, WriteReport(t), th[t].call = "designer"
    PROVE  HubInv'
<1> PICK r : r = th'[t]
  OBVIOUS
<1>0. /\ th[t] \in ThreadType /\ Shape(th[t]) /\ th[t].gen =< generation
      /\ \A x : th' = [th EXCEPT ![t] = x] => th'[t] = x
  BY DEF HubInv, TypeOK
<1>1. /\ th[t].pc = "report" /\ report' = {th[t].r}
      /\ th' = [th EXCEPT ![t] = [th[t] EXCEPT !.news = th[t].news, !.pc = "library"]]
      /\ UNCHANGED <<ws, library, world, generation, built, hub, silent, budget>>
  <2>1. (th[t].news \/ th[t].call # "designer") = th[t].news
    BY <1>0 DEF ThreadType
  <2> QED
    BY <2>1 DEF WriteReport, At, Now
<1>2. r = [th[t] EXCEPT !.news = th[t].news, !.pc = "library"]
  BY <1>0, <1>1
<1>3. r \in ThreadType
  BY <1>0, <1>2 DEF ThreadType
<1>4. Shape(r) /\ r.gen = th[t].gen /\ r.news = th[t].news /\ r.r = th[t].r
  BY <1>0, <1>1, <1>2 DEF Shape, ThreadType
<1>5. Planner(r) /\ Planner(th[t]) /\ r.pc = "library"
  BY <1>0, <1>1, <1>2 DEF Planner, ThreadType
<1>6. NextOK(t, r)
  BY <1>0, <1>1, <1>2, <1>3, <1>4 DEF NextOK
<1>7. /\ th' \in [Threads -> ThreadType] /\ th'[t] = r
      /\ \A u \in Threads \ {t} : th'[u] = th[u]
      /\ \A u \in Threads : Shape(th'[u]) /\ th'[u].gen =< generation
  BY <1>6, NextTh
<1>8. t \in hub /\ hub = {t}
  BY <1>5 DEF HubInv, TypeOK, Opt
<1>9. TypeOK'
  <2>1. AtMostOne(report, Reports)'
    BY <1>0, <1>1 DEF AtMostOne, ThreadType
  <2> QED
    BY <1>1, <1>7, <2>1 DEF HubInv, TypeOK, AtMostOne, world, budget
<1>10. \A b \in built' : b.gen < generation'
  BY <1>1, <1>8 DEF HubInv
<1>11. ReadIt(th[t])'
  BY <1>1, <1>4, <1>5, <1>7 DEF ReadIt
<1>12. \A b \in built' : b.gen \in Nat /\ generation' \in Nat
  BY <1>1 DEF HubInv, TypeOK, AtMostOne, Contexts
<1> QED
  BY <1>1, <1>5, <1>7, <1>8, <1>9, <1>10, <1>11, <1>12 DEF HubInv

LEMMA BumpStep ==
    ASSUME HubInv, NEW t \in Threads, Bump(t) PROVE HubInv'
<1> PICK r : r = th'[t]
  OBVIOUS
<1>0. /\ th[t] \in ThreadType /\ Shape(th[t]) /\ th[t].gen =< generation
      /\ \A x : th' = [th EXCEPT ![t] = x] => th'[t] = x
      /\ generation \in Nat /\ \A u \in Threads : th[u].gen \in Nat /\ th[u].gen =< generation
  BY DEF HubInv, TypeOK, ThreadType
<1>1. /\ th[t].pc = "bump" /\ generation' = generation + 1 /\ silent' = FALSE
      /\ UNCHANGED <<inputs, world, built, hub, budget>>
  BY DEF Bump, At
<1>2. /\ th' = [th EXCEPT ![t] = r] /\ r \in ThreadType /\ Shape(r)
      /\ r.gen =< generation /\ (Planner(r) <=> Planner(th[t]))
  <2>1. CASE th[t].call \in {"designer", "env"}
    <3>1. th' = [th EXCEPT ![t] = [th[t] EXCEPT !.pc = "again", !.news = FALSE]]
      BY <2>1 DEF Bump, Now
    <3>2. r = [th[t] EXCEPT !.pc = "again", !.news = FALSE]
      BY <1>0, <3>1
    <3>3. r \in ThreadType
      BY <1>0, <3>2 DEF ThreadType
    <3>4. Shape(r) /\ r.gen = th[t].gen
      BY <1>0, <2>1, <3>2 DEF Shape, ThreadType
    <3>5. Planner(r) <=> Planner(th[t])
      BY <1>0, <1>1, <3>2 DEF Planner, ThreadType
    <3> QED
      BY <1>0, <3>1, <3>2, <3>3, <3>4, <3>5
  <2>2. CASE th[t].call \notin {"designer", "env"}
    <3>1. th' = [th EXCEPT ![t] = Idle] /\ r = Idle
      BY <1>0, <2>2 DEF Bump, Now
    <3>2. Idle.gen = 0 /\ ~Planner(Idle) /\ ~Planner(th[t])
      BY <2>2 DEF Idle, Planner
    <3>3. Idle.gen =< generation
      BY <1>0, <3>2
    <3>4. Idle \in ThreadType /\ Shape(Idle)
      BY IdleTyped
    <3> QED
      BY <3>1, <3>2, <3>3, <3>4
  <2> QED
    BY <2>1, <2>2
<1>3. NextOK(t, r)
  BY <1>2 DEF NextOK
<1>4. /\ th' \in [Threads -> ThreadType] /\ th'[t] = r
      /\ \A u \in Threads \ {t} : th'[u] = th[u]
      /\ \A u \in Threads : Shape(th'[u]) /\ th'[u].gen =< generation
  BY <1>3, NextTh
<1>5. \A u \in Threads : th'[u].gen < generation'
  BY <1>0, <1>1, <1>4 DEF ThreadType
<1>6. \A b \in built' : b.gen < generation' /\ b.gen =< generation'
  BY <1>0, <1>1 DEF HubInv, TypeOK, AtMostOne, Contexts
<1>7. TypeOK'
  <2>1. generation' \in Nat
    BY <1>1 DEF HubInv, TypeOK
  <2>3. silent' \in BOOLEAN
    BY <1>1
  <2>2. AtMostOne(report, Reports)' /\ AtMostOne(built, Contexts)'
    BY <1>1 DEF HubInv, TypeOK, AtMostOne, inputs
  <2> QED
    BY <1>1, <1>4, <2>1, <2>2, <2>3 DEF HubInv, TypeOK, inputs, world, budget
<1>8. \A u \in Threads : u \in hub' <=> Planner(th'[u])
  BY <1>1, <1>2, <1>4 DEF HubInv
<1>9. hub' \subseteq Threads
  BY <1>1 DEF HubInv, TypeOK, Opt
<1>10. /\ \A u \in Threads : th'[u].gen \in Nat /\ th'[u].gen =< generation'
       /\ generation' \in Nat /\ \A b \in built' : b.gen \in Nat
  BY <1>0, <1>1, <1>4, <1>5 DEF HubInv, TypeOK, AtMostOne, Contexts, ThreadType
<1> QED
  BY <1>4, <1>5, <1>6, <1>7, <1>8, <1>9, <1>10 DEF HubInv

LEMMA LockStep ==
    ASSUME HubInv, NEW t \in Threads, Lock(t) PROVE HubInv'
<1> PICK r : r = th'[t]
  OBVIOUS
<1>0. /\ th[t] \in ThreadType /\ Shape(th[t]) /\ generation \in Nat
      /\ \A x : th' = [th EXCEPT ![t] = x] => th'[t] = x
  BY DEF HubInv, TypeOK
<1>1. /\ th[t].pc = "lock" /\ hub = {} /\ ~Cached(t)
      /\ hub' = IF th[t].call = "designer" THEN {t} ELSE hub
      /\ th' = [th EXCEPT ![t] = [th[t] EXCEPT !.pc = "plan", !.gen = generation]]
      /\ UNCHANGED <<inputs, world, generation, built, silent, budget>>
  BY DEF Lock, At, Now
<1>2. r = [th[t] EXCEPT !.pc = "plan", !.gen = generation]
  BY <1>0, <1>1
<1>3. r \in ThreadType
  BY <1>0, <1>2 DEF ThreadType
<1>4. Shape(r) /\ r.gen = generation /\ r.news = th[t].news /\ r.pc = "plan" /\ r.call = th[t].call
  BY <1>0, <1>1, <1>2 DEF Shape, ThreadType
<1>5. NextOK(t, r)
  <2>1. r.gen =< generation
    BY <1>0, <1>4
  <2>2. th' = [th EXCEPT ![t] = r]
    BY <1>1, <1>2
  <2> QED
    BY <1>3, <1>4, <2>1, <2>2 DEF NextOK
<1>6. /\ th' \in [Threads -> ThreadType] /\ th'[t] = r
      /\ \A u \in Threads \ {t} : th'[u] = th[u]
      /\ \A u \in Threads : Shape(th'[u]) /\ th'[u].gen =< generation
  BY <1>5, NextTh
<1>7. hub' \in Opt(Threads)
  BY <1>1 DEF Opt
<1>8. TypeOK'
  BY <1>1, <1>6, <1>7 DEF HubInv, TypeOK, AtMostOne, inputs, world, budget
<1>9. \A u \in Threads : u \in hub' <=> Planner(th'[u])
  <2>1. t \in hub' <=> th[t].call = "designer"
    BY <1>1
  <2>2. Planner(r) <=> th[t].call = "designer"
    BY <1>4 DEF Planner
  <2>3. \A u \in Threads \ {t} : ~(u \in hub') /\ ~Planner(th[u])
    BY <1>1 DEF HubInv
  <2> QED
    BY <1>6, <2>1, <2>2, <2>3
<1>10. \A b \in built' : b.gen =< generation /\ (hub' # {} => b.gen < generation)
  <2> SUFFICES ASSUME NEW b \in built
               PROVE  b.gen =< generation /\ (hub' # {} => b.gen < generation)
    BY <1>1
  <2>1. b.gen \in Nat /\ b.gen =< generation
    BY DEF HubInv, TypeOK, AtMostOne, Contexts
  <2>2. b.gen # generation
    BY <1>1 DEF Cached
  <2> QED
    BY <1>0, <2>1, <2>2
<1>11. Announced' => Announced
  BY <1>1, <1>4, <1>6 DEF Announced
<1>12. \A u \in hub' : ReadIt(th[u])'
  <2>1. ReadIt(th[t])'
    BY <1>4, <1>6 DEF ReadIt
  <2> QED
    BY <1>1, <2>1
<1> QED
  BY <1>1, <1>6, <1>8, <1>9, <1>10, <1>11, <1>12 DEF HubInv, inputs

LEMMA UnlockStep ==
    ASSUME HubInv, NEW t \in Threads, Confirm(t) \/ Build(t) \/ FailBuild(t)
    PROVE  HubInv'
<1>0. /\ th[t] \in ThreadType /\ Shape(th[t]) /\ th[t].gen \in Nat /\ th[t].gen =< generation
  BY DEF HubInv, TypeOK, ThreadType
<1>1. /\ th[t].pc = "key" /\ th[t].call = "designer"
      /\ th' = [th EXCEPT ![t] = Idle] /\ silent' = (silent \/ th[t].news)
      /\ hub' = {} /\ UNCHANGED <<inputs, world, generation>>
  BY DEF Confirm, Build, FailBuild, At, Return, Now
<1>2. Planner(th[t]) /\ t \in hub
  BY <1>1 DEF Planner, HubInv
<1>3. Counted
  BY HubAssumption DEF Confirm, Build, FailBuild, Upset, Counted, HubInv, TypeOK, budget
<1>4. Announced /\ th[t].gen = generation =>
        \A r \in report : KeyOf(th[t].r, th[t].lib) = KeyOf(r, library)
  BY <1>1, <1>2 DEF HubInv, ReadIt
<1>5. \A b \in built : b.gen \in Nat /\ b.gen < generation
  BY <1>2 DEF HubInv, TypeOK, AtMostOne, Contexts
<1>6. CASE Confirm(t)
  <2>1. /\ built' = {[b EXCEPT !.gen = th[t].gen] : b \in built}
        /\ \E b \in built : b.key = KeyOf(th[t].r, th[t].lib)
    BY <1>6 DEF Confirm, SameKey
  <2>2. PICK b \in built : b.key = KeyOf(th[t].r, th[t].lib)
    BY <2>1
  <2>3. b \in Contexts /\ built = {b}
    BY DEF HubInv, TypeOK, AtMostOne
  <2>4. built' = {[b EXCEPT !.gen = th[t].gen]}
    BY <2>1, <2>3
  <2>5. /\ [b EXCEPT !.gen = th[t].gen] \in Contexts
        /\ [b EXCEPT !.gen = th[t].gen].gen = th[t].gen
        /\ [b EXCEPT !.gen = th[t].gen].key = KeyOf(th[t].r, th[t].lib)
    BY <1>0, <2>2, <2>3 DEF Contexts
  <2>6. AtMostOne(built, Contexts)'
    BY <2>4, <2>5 DEF AtMostOne
  <2> QED
    BY <1>0, <1>1, <1>2, <1>3, <1>4, <2>4, <2>5, <2>6, Unlock
<1>7. CASE Build(t)
  <2>1. built' = {Context(th[t].r, th[t].w, th[t].lib, th[t].gen)}
    BY <1>7 DEF Build
  <2>2. Context(th[t].r, th[t].w, th[t].lib, th[t].gen) \in Contexts
    BY <1>0, ContextTyped DEF ThreadType
  <2>3. /\ Context(th[t].r, th[t].w, th[t].lib, th[t].gen).gen = th[t].gen
        /\ Context(th[t].r, th[t].w, th[t].lib, th[t].gen).key = KeyOf(th[t].r, th[t].lib)
    BY DEF Context
  <2>4. AtMostOne(built, Contexts)'
    BY <2>1, <2>2 DEF AtMostOne
  <2> QED
    BY <1>0, <1>1, <1>2, <1>3, <1>4, <2>1, <2>3, <2>4, Unlock
<1>8. CASE FailBuild(t)
  <2>1. UNCHANGED built
    BY <1>8 DEF FailBuild
  <2>2. generation \in Nat /\ AtMostOne(built, Contexts)'
    BY <2>1 DEF HubInv, TypeOK, AtMostOne
  <2>3. \A b \in built' : b.gen =< generation /\ b.gen # generation
    BY <1>5, <2>1, <2>2
  <2> QED
    BY <1>1, <1>2, <1>3, <2>2, <2>3, Unlock
<1> QED
  BY <1>6, <1>7, <1>8

LEMMA WorldStep == ASSUME HubInv, Upgrade \/ MoveMod PROVE HubInv'
<1>1. UNCHANGED <<inputs, generation, built, hub, th, silent>>
  BY DEF Upgrade, MoveMod
<1>3. World
  <2>1. ce' \in BOOLEAN
    BY DEF Upgrade, MoveMod, HubInv, TypeOK
  <2>2. version' \in Nat
    BY DEF Upgrade, MoveMod, HubInv, TypeOK
  <2> QED
    BY <2>1, <2>2 DEF World
<1>4. Counted
  <2>1. Upset /\ MaxCalls \in Nat /\ MaxUpsets \in Nat
    BY HubAssumption DEF Upgrade, MoveMod
  <2> QED
    BY <2>1 DEF Upset, Counted, HubInv, TypeOK
<1>2. TypeOK'
  BY <1>1, <1>3, <1>4 DEF HubInv, TypeOK, AtMostOne, World, Counted, inputs
<1> QED
  BY <1>1, <1>2 DEF HubInv, inputs, Announced, ReadIt

LEMMA NextHub == HubInv /\ [Next]_vars => HubInv'
<1> SUFFICES ASSUME HubInv, [Next]_vars PROVE HubInv'
  OBVIOUS
<1>1. ASSUME NEW t \in Threads, Call(t) PROVE HubInv'
  BY <1>1, CallStep
<1>2. ASSUME NEW t \in Threads, Step(t) PROVE HubInv'
  <2>1. CASE Save(t) \/ Enable(t) \/ Install(t) \/ WriteReport(t)
    BY <2>1, ChangeStep, PlanReportStep
  <2>2. CASE Detect(t) \/ ReadSources(t) \/ Walk(t) \/ ReadWorkspace(t) \/ ReadReport(t)
             \/ ReadLibrary(t) \/ ReadAgain(t)
    BY <2>2, ReadStep
  <2>3. CASE NoSources(t)
    BY <2>3, ReadStep, ReturnsStep
  <2>4. CASE TakeCached(t) \/ EnvPlanned(t)
    BY <2>4, ReturnsStep
  <2>5. CASE Bump(t)
    BY <2>5, BumpStep
  <2>6. CASE Lock(t)
    BY <2>6, LockStep
  <2>7. CASE Confirm(t) \/ Build(t)
    BY <2>7, UnlockStep
  <2> QED
    BY <1>2, <2>1, <2>2, <2>3, <2>4, <2>5, <2>6, <2>7 DEF Step
<1>3. ASSUME NEW t \in Threads, Disturb(t) PROVE HubInv'
  BY <1>3, ReturnsStep, UnlockStep DEF Disturb
<1>4. CASE Upgrade \/ MoveMod
  BY <1>4, WorldStep
<1>5. CASE UNCHANGED vars
  <2>1. TypeOK'
    BY <1>5 DEF HubInv, TypeOK, AtMostOne, vars
  <2> QED
    BY <1>5, <2>1 DEF HubInv, Announced, ReadIt, vars
<1> QED
  BY <1>1, <1>2, <1>3, <1>4, <1>5 DEF Next

-----------------------------------------------------------------------------
(* The hub's state and every call in progress are well typed, and only the  *)
(* planning designer_ctx holds the lock (workspace.rs, WorkspaceHub).       *)
THEOREM TypeCorrect == Spec => []TypeOK
<1>1. HubInv => TypeOK
  BY DEF HubInv
<1> QED
  BY <1>1, InitHub, NextHub, PTL DEF Spec

(* A context that the next designer_ctx returns unseen has the key planning *)
(* again would give, whatever was changed and bumped while it was planned.  *)
THEOREM KeyAlwaysFresh == Spec => []KeyFresh
<1>1. HubInv => KeyFresh
  BY DEF HubInv, KeyFresh
<1> QED
  BY <1>1, InitHub, NextHub, PTL DEF Spec
=============================================================================

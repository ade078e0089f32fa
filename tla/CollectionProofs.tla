-------------------------- MODULE CollectionProofs --------------------------
(***************************************************************************)
(* Theorems about Collection, for any ids, threads, values and bounds, and *)
(* about the file writes below it (AtomicWrite), in the second half.       *)
(*                                                                         *)
(* Three action properties follow from one inductive invariant.  It says   *)
(* that the write lock is exclusive and that, while a thread holds it,     *)
(* what the thread saw of its document under the lock is still true: this  *)
(* is what makes the second read of get, the version check of put and the  *)
(* one of the write back count, and what the move of a scan lacks.  Two    *)
(* more invariants rest on it: where unreadable bytes are, and which rows  *)
(* of the index are true.                                                  *)
(***************************************************************************)
EXTENDS Collection, AtomicWrite, TLAPS

Points == {"idle", "recheck", "writeback", "misread"} \cup Locked

LockedKnows(t) ==
    /\ pc[t] = "quarantine" => \A c \in file[id[t]] : Corrupt(c)
    /\ pc[t] = "replace" => \A c \in file[id[t]] : Corrupt(c)
    /\ pc[t] = "write" => \A c \in file[id[t]] : c.ver # "newer" /\ ~NoEnvelope(c)
    /\ pc[t] = "migrate" => \A c \in file[id[t]] : c.ver = "old"
    /\ pc[t] = "drop" => \A c \in file[id[t]] : Corrupt(c)

IsMap(f) == f = [i \in Ids |-> f[i]]

LockInv ==
    /\ pc \in [Threads -> Points] /\ id \in [Threads -> Ids]
    /\ IsMap(file) /\ IsMap(quarantine)
    /\ \A i \in Ids : \A c, d \in file[i] : c = d
    /\ \A t, u \in Threads : pc[t] \in Locked /\ pc[u] \in Locked => t = u
    /\ \A t \in Threads : LockedKnows(t)

LEMMA InitLock == Init => LockInv
<1> SUFFICES ASSUME Init PROVE LockInv
  OBVIOUS
<1>1. \A i \in Ids : \A c, d \in file[i] : c = d
  BY DEF Init
<1>2. \A t \in Threads : pc[t] = "idle"
  BY DEF Init
<1>3. PICK first \in Ids : id = [t \in Threads |-> first]
  BY CollectionAssumption, Zenon DEF Init
<1>5. pc \in [Threads -> Points]
  <2>1. pc = [t \in Threads |-> "idle"]
    BY DEF Init
  <2> QED
    BY <2>1 DEF Points
<1>6. id \in [Threads -> Ids]
  BY <1>3
<1>4. IsMap(file) /\ IsMap(quarantine)
  BY DEF Init, IsMap
<1> QED
  BY <1>1, <1>2, <1>4, <1>5, <1>6 DEF LockInv, LockedKnows, Locked

\* What a step of thread t has to establish: the lock is its own or free, and what t knows holds.
LEMMA OwnStep ==
    ASSUME LockInv, NEW t \in Threads, NEW p \in Points, Goto(t, p),
           pc[t] \in Locked \/ Free,
           id' \in [Threads -> Ids],
           IsMap(file'), IsMap(quarantine'),
           \A i \in Ids : \A c, d \in file'[i] : c = d,
           LockedKnows(t)'
    PROVE  LockInv'
<1>1. \A u \in Threads \ {t} : pc[u] \notin Locked /\ pc'[u] = pc[u]
  BY DEF LockInv, Goto, Free
<1>2. pc' \in [Threads -> Points]
  BY DEF LockInv, Goto
<1>3. \A u \in Threads \ {t} : LockedKnows(u)'
  BY <1>1 DEF LockedKnows, Locked
<1> QED
  BY <1>1, <1>2, <1>3 DEF LockInv

\* A step of t that leaves the files alone and takes no lock.
LEMMA ReadStep ==
    ASSUME LockInv, NEW t \in Threads, NEW p \in Points \ Locked, Goto(t, p),
           UNCHANGED <<file, quarantine>>,
           id' \in [Threads -> Ids], \A u \in Threads \ {t} : id'[u] = id[u]
    PROVE  LockInv'
<1>1. \A u \in Threads \ {t} : pc'[u] = pc[u]
  BY DEF LockInv, Goto
<1>2. pc' \in [Threads -> Points] /\ pc'[t] = p
  BY DEF LockInv, Goto
<1>3. \A u \in Threads \ {t} : LockedKnows(u)'
  BY <1>1 DEF LockedKnows, Corrupt, LockInv
<1>4. LockedKnows(t)'
  BY <1>2 DEF LockedKnows, Locked
<1> QED
  BY <1>1, <1>2, <1>3, <1>4 DEF LockInv

LEMMA AsideKeeps ==
    ASSUME LockInv, NEW i \in Ids, MoveAside(i) \/ CannotMove(i)
    PROVE  /\ IsMap(file') /\ IsMap(quarantine')
           /\ \A j \in Ids : \A c, d \in file'[j] : c = d
           /\ \A j \in Ids : file'[j] = file[j] \/ (j = i /\ file'[j] = {})
           /\ \A j \in Ids \ {i} : file'[j] = file[j] /\ quarantine'[j] = quarantine[j]
           /\ quarantine'[i] \subseteq quarantine[i] \cup file[i]
           /\ MoveAside(i) => file'[i] = {}
  BY DEF LockInv, MoveAside, CannotMove, IsMap

-----------------------------------------------------------------------------
(* One lemma per group of actions: the invariant is kept, and what the files and the quarantine do. *)

ReadAction(t) ==
    \/ \E i \in Ids : Get(t, i) \/ Scan(t, i)
LockAction(t) ==
    \/ Recheck(t) \/ WriteBack(t) \/ List(t) \/ RebuildIndex(t)
    \/ \E i \in Ids, v \in Values : Put(t, i, v)
IndexAction(t) == IndexPut(t) \/ Unindex(t) \/ RebuildStore(t)

LEMMA ReadKeeps ==
    ASSUME LockInv, NEW t \in Threads, ReadAction(t)
    PROVE  LockInv' /\ UNCHANGED <<file, quarantine>>
<1>1. PICK i \in Ids, p \in Points \ Locked :
          Goto(t, p) /\ id' = [id EXCEPT ![t] = i] /\ UNCHANGED <<file, quarantine>>
  BY DEF ReadAction, Get, Scan, Begin, Same, Points, Locked
<1>2. id' \in [Threads -> Ids] /\ \A u \in Threads \ {t} : id'[u] = id[u]
  BY <1>1 DEF LockInv
<1> QED
  BY <1>1, <1>2, ReadStep

LEMMA LockKeeps ==
    ASSUME LockInv, NEW t \in Threads, LockAction(t)
    PROVE  LockInv' /\ UNCHANGED <<file, quarantine>>
<1>1. CASE Recheck(t)
  <2>1. PICK p \in Points : /\ Goto(t, p) /\ UNCHANGED <<file, quarantine, id>> /\ Free
                            /\ p = "idle" \/ p = "writeback"
                               \/ (p = "quarantine" /\ \E c \in file[id[t]] : Corrupt(c))
    BY <1>1 DEF Recheck, Same, Points, Locked
  <2>2. pc'[t] = p /\ id[t] \in Ids
    BY <2>1 DEF Goto, LockInv
  <2>3. LockedKnows(t)'
    BY <2>1, <2>2 DEF LockedKnows, Locked, LockInv, Corrupt
  <2> QED
    BY <2>1, <2>3, OwnStep DEF LockInv
<1>2. CASE WriteBack(t)
  <2>1. PICK p \in Points : /\ Goto(t, p) /\ UNCHANGED <<file, quarantine, id>> /\ Free
                            /\ p = "idle" \/ (p = "migrate" /\ \A c \in file[id[t]] : c.ver = "old")
    BY <1>2 DEF WriteBack, Same, Points, Locked
  <2>2. pc'[t] = p
    BY <2>1 DEF Goto, LockInv
  <2>3. LockedKnows(t)'
    BY <2>1, <2>2 DEF LockedKnows
  <2> QED
    BY <2>1, <2>3, OwnStep DEF LockInv
<1>3. CASE List(t)
  <2>1. PICK p \in {"idle", "relist"} : /\ Goto(t, p) /\ UNCHANGED <<file, quarantine, id>> /\ Free
    BY <1>3 DEF List, Relist, Goto, LockInv
  <2>2. pc'[t] = p /\ p \in Points
    BY <2>1 DEF Goto, LockInv, Points, Locked
  <2>3. LockedKnows(t)'
    BY <2>1, <2>2 DEF LockedKnows
  <2> QED
    BY <2>1, <2>2, <2>3, OwnStep DEF LockInv
<1>4. CASE RebuildIndex(t)
  <2>1. Goto(t, "rebuild") /\ UNCHANGED <<file, quarantine, id>> /\ Free
    BY <1>4 DEF RebuildIndex, Relist
  <2>2. pc'[t] = "rebuild" /\ "rebuild" \in Points
    BY <2>1 DEF Goto, LockInv, Points, Locked
  <2>3. LockedKnows(t)'
    BY <2>2 DEF LockedKnows
  <2> QED
    BY <2>1, <2>2, <2>3, OwnStep DEF LockInv
<1>5. CASE \E i \in Ids, v \in Values : Put(t, i, v)
  <2>1. PICK i \in Ids, v \in Values : Put(t, i, v)
    BY <1>5
  <2>2. PICK p \in {"replace", "write"} :
             /\ Goto(t, p) /\ UNCHANGED <<file, quarantine>> /\ Free
             /\ id' = [id EXCEPT ![t] = i]
             /\ \A c \in file[i] : c.ver # "newer"
             /\ p = "replace" => \E c \in file[i] : Corrupt(c)
             /\ p = "write" => \A c \in file[i] : ~NoEnvelope(c)
    BY <2>1 DEF Put, Begin, Same, Corrupt
  <2>3. pc'[t] = p /\ p \in Points /\ id'[t] = i /\ id' \in [Threads -> Ids]
    BY <2>2 DEF Goto, LockInv, Points, Locked
  <2>4. LockedKnows(t)'
    BY <2>2, <2>3 DEF LockedKnows, LockInv, Corrupt
  <2> QED
    BY <2>2, <2>3, <2>4, OwnStep DEF LockInv
<1> QED
  BY <1>1, <1>2, <1>3, <1>4, <1>5
     DEF LockAction, Recheck, WriteBack, List, RebuildIndex, Put, Same

LEMMA IndexKeeps ==
    ASSUME LockInv, NEW t \in Threads, IndexAction(t)
    PROVE  LockInv' /\ UNCHANGED <<file, quarantine>>
<1>1. Goto(t, "idle") /\ UNCHANGED <<file, quarantine, id>>
  BY Zenon DEF IndexAction, IndexPut, Unindex, RebuildStore
<1>2. "idle" \in Points \ Locked
  BY DEF Points, Locked
<1> QED
  BY <1>1, <1>2, ReadStep DEF LockInv

-----------------------------------------------------------------------------
(* The steps that change files.  Safe is what the three action properties ask of a step. *)

Scanned(i) == \E t \in Threads : pc[t] = "misread" /\ id[t] = i
NewerSafe == \A i \in Ids : \A c \in file[i] : c.ver = "newer" /\ c \notin file'[i] => Scanned(i)
MoveSafe == \A i \in Ids : \A c \in quarantine'[i] \ quarantine[i] : Corrupt(c) \/ Scanned(i)
MigrateSafe ==
    \A t \in Threads : \A c \in file[id[t]] :
        (pc[t] = "migrate" /\ pc'[t] = "index") => c.ver = "old"
Safe == NewerSafe /\ MoveSafe /\ MigrateSafe

\* A thread that migrates knows it under the lock, whatever step is taken.
LEMMA MigrateAlways == LockInv => MigrateSafe
  BY DEF LockInv, LockedKnows, MigrateSafe

LEMMA UnchangedSafe == LockInv /\ UNCHANGED <<file, quarantine>> => Safe
  BY MigrateAlways DEF Safe, NewerSafe, MoveSafe

\* A step that moves only a corrupt file, or one for a scan.
LEMMA AsideSafe ==
    ASSUME LockInv, NEW i \in Ids, MoveAside(i) \/ CannotMove(i),
           (\A c \in file[i] : Corrupt(c)) \/ Scanned(i)
    PROVE  Safe
<1>1. NewerSafe
  BY AsideKeeps DEF NewerSafe, Corrupt, NoEnvelope
<1>2. MoveSafe
  BY AsideKeeps DEF MoveSafe
<1> QED
  BY <1>1, <1>2, MigrateAlways DEF Safe

AsideAction(t) == Quarantine(t) \/ Replace(t) \/ Drop(t) \/ ScanAside(t)

LEMMA AsideStep ==
    ASSUME LockInv, NEW t \in Threads, AsideAction(t)
    PROVE  LockInv' /\ Safe
<1>1. /\ id[t] \in Ids /\ UNCHANGED id
      /\ MoveAside(id[t]) \/ CannotMove(id[t])
  BY DEF LockInv, AsideAction, Quarantine, Replace, Drop, ScanAside
<1>2. Safe
  <2>1. (\A c \in file[id[t]] : Corrupt(c)) \/ Scanned(id[t])
    BY DEF LockInv, LockedKnows, Scanned, AsideAction, Quarantine, Replace, Drop, ScanAside
  <2> QED
    BY <1>1, <2>1, AsideSafe
<1>3. pc[t] \in Locked \/ Free
  BY DEF Locked, AsideAction, Quarantine, Replace, Drop, ScanAside
<1>4. PICK p \in {"idle", "write", "unindex"} :
          /\ Goto(t, p)
          /\ p = "write" => MoveAside(id[t])
  BY DEF AsideAction, Quarantine, Replace, Drop, ScanAside
<1>10. Goto(t, p)
  BY <1>4
<1>5. pc'[t] = p /\ p \in Points
  BY <1>10 DEF Goto, LockInv, Points, Locked
<1>6. LockedKnows(t)'
  <2>1. p = "write" => file'[id[t]] = {}
    BY <1>1, <1>4, AsideKeeps
  <2> QED
    BY <1>1, <1>4, <1>5, <2>1 DEF LockedKnows
<1>11. /\ IsMap(file') /\ IsMap(quarantine')
      /\ \A j \in Ids : \A c, d \in file'[j] : c = d
  BY <1>1, AsideKeeps
<1>7. LockInv'
  BY <1>1, <1>3, <1>10, <1>5, <1>6, <1>11, OwnStep DEF LockInv
<1> QED
  BY <1>2, <1>7

LEMMA WriteStep ==
    ASSUME LockInv, NEW t \in Threads, Write(t)
    PROVE  LockInv' /\ Safe
<1>1. /\ pc[t] \in {"write", "migrate"} /\ pc[t] \in Locked /\ id[t] \in Ids
      /\ UNCHANGED <<quarantine, id>>
  BY DEF Write, Locked, LockInv
<1>2. PICK p \in {"idle", "index"} : Goto(t, p)
  BY DEF Write
<1>3. file' = [file EXCEPT ![id[t]] = {Doc(val[t])}] \/ file' = file
  BY DEF Write
<1>4. pc'[t] = p /\ p \in Points
  BY <1>2 DEF Goto, LockInv, Points, Locked
<1>5. LockedKnows(t)'
  BY <1>4 DEF LockedKnows
<1>6. IsMap(file') /\ \A i \in Ids : \A c, d \in file'[i] : c = d
  BY <1>1, <1>3 DEF LockInv, IsMap
<1>7. LockInv'
  BY <1>1, <1>2, <1>4, <1>5, <1>6, OwnStep DEF LockInv
<1>8. NewerSafe
  BY <1>1, <1>3 DEF NewerSafe, LockInv, LockedKnows, IsMap
<1>9. MoveSafe
  BY <1>1 DEF MoveSafe
<1> QED
  BY <1>7, <1>8, <1>9, MigrateAlways DEF Safe

LEMMA DeleteStep ==
    ASSUME LockInv, NEW t \in Threads, NEW i \in Ids, Delete(t, i)
    PROVE  LockInv' /\ Safe
<1>1. PICK c \in file[i] : \/ c.ver = "huge" /\ Goto(t, "drop") /\ UNCHANGED file
                           \/ /\ c.ver \in {"now", "old", "bad"} /\ Goto(t, "unindex")
                              /\ file' = [file EXCEPT ![i] = {}]
  BY DEF Delete
<1>2. UNCHANGED quarantine /\ Free /\ id' = [id EXCEPT ![t] = i]
  BY DEF Delete, Begin
<1>3. PICK p \in {"drop", "unindex"} : Goto(t, p) /\ (p = "drop" => c.ver = "huge" /\ file' = file)
  BY <1>1
<1>4. pc'[t] = p /\ p \in Points /\ id'[t] = i /\ id' \in [Threads -> Ids]
  BY <1>2, <1>3 DEF Goto, LockInv, Points, Locked
<1>5. IsMap(file') /\ \A j \in Ids : \A d, e \in file'[j] : d = e
  BY <1>1 DEF LockInv, IsMap
<1>6. LockedKnows(t)'
  <2>1. p = "drop" => \A d \in file'[i] : Corrupt(d)
    BY <1>1, <1>3 DEF LockInv, Corrupt, NoEnvelope
  <2> QED
    BY <1>3, <1>4, <2>1 DEF LockedKnows
<1>7. LockInv'
  BY <1>2, <1>3, <1>4, <1>5, <1>6, OwnStep DEF LockInv
<1>8. NewerSafe
  BY <1>1 DEF NewerSafe, LockInv, IsMap
<1>9. MoveSafe
  BY <1>2 DEF MoveSafe
<1> QED
  BY <1>7, <1>8, <1>9, MigrateAlways DEF Safe

LEMMA RebuildStep ==
    ASSUME LockInv, NEW t \in Threads, RebuildOne(t)
    PROVE  LockInv' /\ Safe
<1>1. pc[t] \in {"relist", "rebuild"} /\ UNCHANGED <<pc, id>>
  BY DEF RebuildOne
<1>2. \A u \in Threads \ {t} : pc[u] \notin Locked
  BY <1>1 DEF LockInv, Locked
<1>3. \A u \in Threads : LockedKnows(u)'
  BY <1>1, <1>2 DEF LockedKnows, Locked
<1>4. CASE UNCHANGED <<file, quarantine>>
  <2>1. LockInv'
    BY <1>1, <1>3, <1>4 DEF LockInv
  <2> QED
    BY <1>4, <2>1, UnchangedSafe
<1>5. CASE ~UNCHANGED <<file, quarantine>>
  <2>1. PICK i \in Ids : /\ MoveAside(i)
                         /\ \E c \in file[i] : Corrupt(c)
    <3>1. PICK i : /\ i = CHOOSE j \in todo[t] : TRUE
                   /\ MoveAside(i) \/ CannotMove(i)
                   /\ \E c \in file[i] : Corrupt(c)
      BY <1>5, Zenon DEF RebuildOne
    <3>2. MoveAside(i)
      BY <1>5, <3>1 DEF CannotMove
    <3>3. i \in Ids
      BY <1>5, <3>2 DEF MoveAside, LockInv, IsMap
    <3> QED
      BY <3>1, <3>2, <3>3
  <2>2. \A c \in file[i] : Corrupt(c)
    BY <2>1 DEF LockInv
  <2>3. Safe
    BY <2>1, <2>2, AsideSafe
  <2>4. LockInv'
    BY <1>1, <1>3, <2>1, AsideKeeps DEF LockInv
  <2> QED
    BY <2>3, <2>4
<1> QED
  BY <1>4, <1>5

LEMMA CrashStep == LockInv /\ Crash => LockInv' /\ Safe
<1> SUFFICES ASSUME LockInv, Crash PROVE LockInv' /\ Safe
  OBVIOUS
<1>1. pc' = [t \in Threads |-> "idle"] /\ UNCHANGED <<file, quarantine, id>>
  BY DEF Crash
<1>2. pc' \in [Threads -> Points] /\ \A t \in Threads : pc'[t] \notin Locked
  BY <1>1 DEF Points, Locked
<1>3. \A t \in Threads : LockedKnows(t)'
  BY <1>2 DEF LockedKnows, Locked
<1> QED
  BY <1>1, <1>2, <1>3, UnchangedSafe DEF LockInv

LEMMA ForeignStep ==
    LockInv /\ ForeignChange => LockInv' /\ UNCHANGED <<thread, quarantine>>
<1> SUFFICES ASSUME LockInv, ForeignChange PROVE LockInv' /\ UNCHANGED <<thread, quarantine>>
  OBVIOUS
<1>1. Free /\ UNCHANGED <<thread, quarantine>>
  BY DEF ForeignChange
<1>2. PICK i \in Ids, new \in {{}} \cup {{c} : c \in Foreign} : file' = [file EXCEPT ![i] = new]
  BY DEF ForeignChange
<1>3. \A t \in Threads : LockedKnows(t)'
  BY <1>1 DEF Free, LockedKnows, Locked, thread
<1> QED
  BY <1>1, <1>2, <1>3 DEF LockInv, thread, IsMap

LEMMA NextCases ==
    ASSUME Next
    PROVE  \/ \E t \in Threads :
                \/ ReadAction(t) \/ LockAction(t) \/ IndexAction(t) \/ AsideAction(t)
                \/ Write(t) \/ (\E i \in Ids : Delete(t, i)) \/ RebuildOne(t)
           \/ Crash \/ ForeignChange
  BY Zenon DEF Next, ReadAction, LockAction, IndexAction, AsideAction

\* Every step keeps the invariant; every step but another program's is safe.
LEMMA StepLock ==
    ASSUME LockInv, Next
    PROVE  LockInv' /\ (Safe \/ UNCHANGED <<thread, quarantine>>)
<1>1. ASSUME NEW t \in Threads, ReadAction(t) \/ LockAction(t) \/ IndexAction(t)
      PROVE  LockInv' /\ Safe
  BY <1>1, ReadKeeps, LockKeeps, IndexKeeps, UnchangedSafe
<1>2. ASSUME NEW t \in Threads, AsideAction(t) PROVE LockInv' /\ Safe
  BY <1>2, AsideStep
<1>3. ASSUME NEW t \in Threads, Write(t) PROVE LockInv' /\ Safe
  BY <1>3, WriteStep
<1>4. ASSUME NEW t \in Threads, NEW i \in Ids, Delete(t, i) PROVE LockInv' /\ Safe
  BY <1>4, DeleteStep
<1>5. ASSUME NEW t \in Threads, RebuildOne(t) PROVE LockInv' /\ Safe
  BY <1>5, RebuildStep
<1> QED
  BY <1>1, <1>2, <1>3, <1>4, <1>5, CrashStep, ForeignStep, NextCases

LEMMA StutterLock == LockInv /\ UNCHANGED vars => LockInv' /\ UNCHANGED <<thread, quarantine>>
<1> SUFFICES ASSUME LockInv, UNCHANGED vars
             PROVE  LockInv' /\ UNCHANGED <<thread, quarantine>>
  OBVIOUS
<1>1. UNCHANGED <<file, quarantine, pc, id>> /\ UNCHANGED thread
  BY DEF vars, thread
<1>2. \A t \in Threads : LockedKnows(t) <=> LockedKnows(t)'
  BY <1>1 DEF LockedKnows
<1> QED
  BY <1>1, <1>2 DEF LockInv

LEMMA LockAlways == Spec => []LockInv
<1>1. LockInv /\ [Next]_vars => LockInv'
  BY StepLock, StutterLock
<1> QED
  BY <1>1, InitLock, PTL DEF Spec
-----------------------------------------------------------------------------
\* A document a newer app wrote is not rewritten or deleted by a call, and moved only by a scan.
THEOREM NewerDocumentsKept == Spec => NewerKept
<1> DEFINE Step == \A i \in Ids : \A c \in file[i] :
                      (c.ver = "newer" /\ thread' # thread /\ c \notin file'[i])
                          => \E t \in Threads : pc[t] = "misread" /\ id[t] = i
<1>1. LockInv /\ [Next]_vars => [Step]_vars
  <2> SUFFICES ASSUME LockInv, Next PROVE Step
    OBVIOUS
  <2>1. CASE Safe
    BY <2>1 DEF Safe, NewerSafe, Scanned
  <2>2. CASE UNCHANGED <<thread, quarantine>>
    BY <2>2
  <2> QED
    BY <2>1, <2>2, StepLock
<1> QED
  BY <1>1, LockAlways, PTL DEF Spec, NewerKept

\* The write back of a migrated document replaces nothing but an older document.
THEOREM MigrationNeverReplacesCurrent == Spec => MigrationKeepsCurrent
<1>1. LockInv /\ [Next]_vars => [MigrateSafe]_vars
  BY MigrateAlways
<1> QED
  BY <1>1, LockAlways, PTL DEF Spec, MigrationKeepsCurrent, MigrateSafe

\* Nothing but a scan puts a readable document into the quarantine.
THEOREM QuarantineMisjudgedOnlyByScan == Spec => OnlyScanMisjudges
<1>1. LockInv /\ [Next]_vars => [MoveSafe]_vars
  <2> SUFFICES ASSUME LockInv, Next PROVE MoveSafe
    OBVIOUS
  <2>1. CASE Safe
    BY <2>1 DEF Safe
  <2>2. CASE UNCHANGED <<thread, quarantine>>
    BY <2>2 DEF MoveSafe
  <2> QED
    BY <2>1, <2>2, StepLock
<1> QED
  BY <1>1, LockAlways, PTL DEF Spec, OnlyScanMisjudges, MoveSafe, Scanned

-----------------------------------------------------------------------------
(* The bytes nobody could read.  Only a write, a delete and another program make a content *)
(* disappear; the first knows there are none under it, the others account for what they take. *)

Where(i) == file[i] \cup quarantine[i]
KeptInv ==
    /\ unread \subseteq {u \in Ids \X Foreign : NoEnvelope(u[2])}
    /\ UnreadableKept

\* A step that keeps or adds to what is somewhere, and notes no new unreadable file.
LEMMA NothingGone ==
    ASSUME KeptInv, unread' = unread, \A i \in Ids : Where(i) \subseteq Where(i)'
    PROVE  KeptInv'
  BY DEF KeptInv, UnreadableKept, Where

LEMMA AsideLosesNothing ==
    ASSUME LockInv, NEW i \in Ids, MoveAside(i) \/ CannotMove(i)
    PROVE  \A j \in Ids : Where(j) \subseteq Where(j)'
<1>1. CASE MoveAside(i)
  BY <1>1 DEF MoveAside, Where, LockInv, IsMap
<1>2. CASE CannotMove(i)
  BY <1>2 DEF CannotMove, Where
<1> QED
  BY <1>1, <1>2

LEMMA WriteKept ==
    ASSUME LockInv, KeptInv, NEW t \in Threads, Write(t)
    PROVE  KeptInv'
<1> DEFINE i == id[t]
<1>1. i \in Ids /\ UNCHANGED <<quarantine, unread>> /\ pc[t] \in {"write", "migrate"}
  BY DEF Write, LockInv
<1>2. CASE file' = file
  BY <1>1, <1>2, NothingGone DEF Where
<1>3. CASE file' = [file EXCEPT ![i] = {Doc(val[t])}]
  <2>1. \A c \in file[i] : ~NoEnvelope(c)
    BY <1>1 DEF LockInv, LockedKnows, NoEnvelope
  <2> QED
    BY <1>1, <1>3, <2>1 DEF KeptInv, UnreadableKept, LockInv, IsMap
<1> QED
  BY <1>2, <1>3 DEF Write

\* A delete removes the one content of its document, and with it the note of it.
LEMMA DeleteKept ==
    ASSUME LockInv, KeptInv, NEW t \in Threads, NEW i \in Ids, Delete(t, i)
    PROVE  KeptInv'
<1>1. UNCHANGED quarantine
  BY DEF Delete
<1>2. CASE UNCHANGED <<file, unread>>
  BY <1>1, <1>2, NothingGone DEF Where
<1>3. CASE ~UNCHANGED <<file, unread>>
  <2>1. PICK c \in file[i] : file' = [file EXCEPT ![i] = {}] /\ unread' = unread \ {<<i, c>>}
    BY <1>3 DEF Delete
  <2>2. unread' \subseteq {u \in Ids \X Foreign : NoEnvelope(u[2])}
    BY <2>1 DEF KeptInv
  <2>3. ASSUME NEW u \in unread' PROVE u[2] \in (file[u[1]] \cup quarantine[u[1]])'
    <3>1. u \in unread /\ u # <<i, c>> /\ u = <<u[1], u[2]>> /\ u[1] \in Ids
      BY <2>1, <2>3 DEF KeptInv
    <3>2. CASE u[1] = i
      <4>1. u[2] # c /\ \A d \in file[i] : d = c
        BY <2>1, <3>1, <3>2 DEF LockInv
      <4> QED
        BY <1>1, <3>1, <3>2, <4>1 DEF KeptInv, UnreadableKept
    <3>3. CASE u[1] # i
      BY <1>1, <2>1, <3>1, <3>3 DEF KeptInv, UnreadableKept, LockInv, IsMap
    <3> QED
      BY <3>2, <3>3
  <2> QED
    BY <2>2, <2>3 DEF KeptInv, UnreadableKept
<1> QED
  BY <1>2, <1>3

LEMMA ForeignKept ==
    ASSUME LockInv, KeptInv, ForeignChange
    PROVE  KeptInv'
<1>1. PICK i \in Ids, new \in {{}} \cup {{c} : c \in Foreign} :
          /\ file' = [file EXCEPT ![i] = new]
          /\ unread' = {u \in unread : u[1] # i \/ u[2] \notin file[i]}
                         \cup {<<i, c>> : c \in {d \in new : NoEnvelope(d)}}
  BY DEF ForeignChange
<1>2. UNCHANGED quarantine /\ new \subseteq Foreign
  BY <1>1 DEF ForeignChange
<1>3. unread' \subseteq {u \in Ids \X Foreign : NoEnvelope(u[2])}
  BY <1>1, <1>2 DEF KeptInv
<1>4. ASSUME NEW u \in unread' PROVE u[2] \in (file[u[1]] \cup quarantine[u[1]])'
  <2>1. CASE u \in unread /\ (u[1] # i \/ u[2] \notin file[i])
    BY <1>1, <1>2, <2>1 DEF KeptInv, UnreadableKept, LockInv, IsMap
  <2>2. CASE u \in {<<i, c>> : c \in {d \in new : NoEnvelope(d)}}
    BY <1>1, <2>2 DEF LockInv, IsMap
  <2> QED
    BY <1>1, <2>1, <2>2
<1> QED
  BY <1>3, <1>4 DEF KeptInv, UnreadableKept

LEMMA AsideKept ==
    ASSUME LockInv, KeptInv, NEW t \in Threads, AsideAction(t) \/ RebuildOne(t)
    PROVE  KeptInv'
<1>1. unread' = unread
  BY DEF AsideAction, Quarantine, Replace, Drop, ScanAside, RebuildOne, ghost
<1>2. CASE UNCHANGED <<file, quarantine>>
  BY <1>1, <1>2, NothingGone DEF Where
<1>3. CASE ~UNCHANGED <<file, quarantine>>
  <2>1. PICK i : MoveAside(i) /\ i \in Ids
    <3>1. PICK i : MoveAside(i) \/ CannotMove(i)
      BY <1>3, Zenon DEF AsideAction, Quarantine, Replace, Drop, ScanAside, RebuildOne
    <3>2. MoveAside(i)
      BY <1>3, <3>1 DEF CannotMove
    <3> QED
      BY <1>3, <3>2 DEF MoveAside, LockInv, IsMap
  <2> QED
    BY <1>1, <2>1, AsideLosesNothing, NothingGone
<1> QED
  BY <1>2, <1>3

LEMMA StepKept ==
    ASSUME LockInv, KeptInv, [Next]_vars
    PROVE  KeptInv'
<1>1. ASSUME UNCHANGED <<file, quarantine, unread>> PROVE KeptInv'
  BY <1>1, NothingGone DEF Where
<1>2. ASSUME NEW t \in Threads, ReadAction(t) \/ LockAction(t) \/ IndexAction(t) PROVE KeptInv'
  <2>1. unread' = unread
    BY <1>2, Zenon DEF ReadAction, LockAction, IndexAction, Get, Scan, Recheck, WriteBack, List,
                RebuildIndex, Put, IndexPut, Unindex, RebuildStore, Same, ghost
  <2>2. UNCHANGED <<file, quarantine>>
    BY <1>2, ReadKeeps, LockKeeps, IndexKeeps
  <2> QED
    BY <1>1, <2>1, <2>2
<1>3. CASE Crash \/ UNCHANGED vars
  BY <1>1, <1>3 DEF Crash, vars, ghost
<1>4. CASE Next
  BY <1>2, <1>3, <1>4, NextCases, AsideKept, WriteKept, DeleteKept, ForeignKept
<1> QED
  BY <1>3, <1>4

\* Bytes without a valid envelope are in place or in the quarantine until a person deletes them or
\* another program takes them, whatever was called, failed or crashed.
THEOREM UnreadableNeverLost == Spec => []UnreadableKept
<1>1. Init => KeptInv
  BY DEF Init, KeptInv, UnreadableKept
<1>2. LockInv /\ KeptInv /\ [Next]_vars => KeptInv'
  BY StepKept
<1>3. KeptInv => UnreadableKept
  BY DEF KeptInv
<1> QED
  BY <1>1, <1>2, <1>3, LockAlways, PTL DEF Spec
-----------------------------------------------------------------------------
(* The index.  A row is true when it describes what is in its document now.  The rows a reader     *)
(* would believe, those of the index in memory or else of its file, are true except where `stale'  *)
(* says so and for the document whose row the lock holder is about to write; so are the rows of a  *)
(* rebuild, read under the lock.                                                                   *)

RowsTrue(m, S) == \A i \in S \cap DOMAIN m : \A c \in file[i] : m[i] = Row(c)

\* The documents whose write is done and whose row is not.
Unlisted == {i \in Ids : \E t \in Threads : pc[t] = "index" /\ id[t] = i}

IndexKnows(t) ==
    /\ pc[t] = "index" => \A c \in file[id[t]] : c = Doc(val[t])
    /\ pc[t] \in {"relist", "rebuild"} => RowsTrue(map[t], Ids)

ListShape ==
    /\ upsets \in Nat
    /\ val = [t \in Threads |-> val[t]] /\ map = [t \in Threads |-> map[t]]

ListInv ==
    /\ ListShape
    /\ \A t \in Threads : IndexKnows(t)
    /\ \A m \in Loaded : RowsTrue(m, Ids \ (stale \cup Unlisted))

LEMMA InitList == Init => ListInv
<1> SUFFICES ASSUME Init PROVE ListInv
  OBVIOUS
<1>1. \A i \in Ids : \A c, d \in file[i] : c = d
  BY DEF Init
<1>2. Loaded = ifile /\ ListShape /\ \A t \in Threads : pc[t] = "idle"
  BY DEF Init, Loaded, ListShape
<1>3. \A t \in Threads : IndexKnows(t)
  BY <1>2 DEF IndexKnows
<1>4. ASSUME NEW m \in ifile PROVE RowsTrue(m, Ids)
  <2>1. m = [i \in {j \in Ids : \E c \in file[j] : Decodes(c)} |->
                Row(CHOOSE c \in file[i] : TRUE)]
    BY <1>4, Zenon DEF Init
  <2>2. ASSUME NEW i \in Ids \cap DOMAIN m, NEW c \in file[i] PROVE m[i] = Row(c)
    <3>1. (CHOOSE d \in file[i] : TRUE) \in file[i]
      BY <2>2
    <3>2. (CHOOSE d \in file[i] : TRUE) = c
      BY <1>1, <2>2, <3>1
    <3>3. m[i] = Row(CHOOSE d \in file[i] : TRUE)
      BY <2>1, <2>2
    <3> QED
      BY <3>2, <3>3
  <2> QED
    BY <2>2 DEF RowsTrue
<1> QED
  BY <1>2, <1>3, <1>4 DEF ListInv, RowsTrue

\* When documents stay or go and the believed rows stay, are dropped or move between memory and
\* file, true rows stay true.
Thinner(S) == \A i \in S : file'[i] = file[i] \/ file'[i] = {}
Fewer(m, n) == DOMAIN n \subseteq DOMAIN m /\ \A i \in DOMAIN n : n[i] = m[i]
LoadedFewer == \A n \in Loaded' : \E m \in Loaded : Fewer(m, n)

LEMMA ThinnerTrue ==
    ASSUME NEW m, NEW n, NEW S, RowsTrue(m, S), Fewer(m, n), Thinner(S)
    PROVE  RowsTrue(n, S)'
  BY DEF RowsTrue, Fewer, Thinner

LEMMA LoadedTrue ==
    ASSUME ListInv, LoadedFewer, Thinner(Ids \ (stale' \cup Unlisted')),
           stale \subseteq stale', Unlisted \subseteq Unlisted'
    PROVE  \A n \in Loaded' : RowsTrue(n, Ids \ (stale \cup Unlisted))'
<1> SUFFICES ASSUME NEW n \in Loaded'
             PROVE  RowsTrue(n, Ids \ (stale \cup Unlisted))'
  OBVIOUS
<1>1. PICK m \in Loaded : Fewer(m, n)
  BY DEF LoadedFewer
<1>2. RowsTrue(m, Ids \ (stale \cup Unlisted))
  BY DEF ListInv
<1> QED
  BY <1>1, <1>2 DEF RowsTrue, Fewer, Thinner

\* What a step of thread t leaves alone, and that what the other threads know stays true.
Alone(t) ==
    \/ pc[t] \in Locked \/ Free
    \/ file' = file /\ \A u \in Threads \ {t} : id'[u] = id[u] /\ val'[u] = val[u] /\ map'[u] = map[u]

LEMMA ListStep ==
    ASSUME LockInv, ListInv, ListShape', NEW t \in Threads, NEW p, Goto(t, p), Alone(t),
           IndexKnows(t)', \A n \in Loaded' : RowsTrue(n, Ids \ (stale \cup Unlisted))'
    PROVE  ListInv'
<1>1. \A u \in Threads \ {t} : pc'[u] = pc[u]
  BY DEF LockInv, Goto
<1>2. CASE pc[t] \in Locked \/ Free
  <2>1. \A u \in Threads \ {t} : pc'[u] \notin Locked
    BY <1>1, <1>2 DEF LockInv, Free
  <2>2. \A u \in Threads \ {t} : IndexKnows(u)'
    BY <2>1 DEF IndexKnows, Locked
  <2> QED
    BY <2>2 DEF ListInv
<1>3. CASE /\ file' = file
           /\ \A u \in Threads \ {t} : id'[u] = id[u] /\ val'[u] = val[u] /\ map'[u] = map[u]
  <2>1. ASSUME NEW u \in Threads \ {t} PROVE IndexKnows(u)'
    <3>1. PICK m, v : m = map[u] /\ v = val[u]
      OBVIOUS
    <3>2. map'[u] = m /\ val'[u] = v /\ pc'[u] = pc[u] /\ id'[u] = id[u] /\ IndexKnows(u)
      BY <1>1, <1>3, <3>1 DEF ListInv
    <3>3. pc[u] \in {"relist", "rebuild"} => RowsTrue(m, Ids)'
      BY <1>3, <3>1, <3>2 DEF IndexKnows, RowsTrue
    <3> QED
      BY <1>3, <3>1, <3>2, <3>3 DEF IndexKnows
  <2> QED
    BY <2>1 DEF ListInv
<1> QED
  BY <1>2, <1>3 DEF Alone

LEMMA UnlistedGrows ==
    ASSUME LockInv, NEW t \in Threads, NEW p, Goto(t, p), pc[t] # "index",
           \A u \in Threads \ {t} : id'[u] = id[u]
    PROVE  Unlisted \subseteq Unlisted'
<1>1. \A u \in Threads \ {t} : pc'[u] = pc[u]
  BY DEF LockInv, Goto
<1> QED
  BY <1>1 DEF Unlisted

\* The steps that at most take documents away and rows with them.
LEMMA QuietStep ==
    ASSUME LockInv, ListInv, ListShape', NEW t \in Threads, NEW p, Goto(t, p), Alone(t),
           pc[t] # "index", p \notin {"index", "relist", "rebuild"},
           \A u \in Threads \ {t} : id'[u] = id[u],
           LoadedFewer, Thinner(Ids), UNCHANGED stale
    PROVE  ListInv'
<1>1. pc'[t] = p
  BY DEF LockInv, Goto
<1>2. IndexKnows(t)'
  BY <1>1 DEF IndexKnows
<1>3. \A n \in Loaded' : RowsTrue(n, Ids \ (stale \cup Unlisted))'
  BY UnlistedGrows, LoadedTrue DEF Thinner
<1> QED
  BY <1>2, <1>3, ListStep

LEMMA SameIndex ==
    UNCHANGED <<imem, ifile>> => LoadedFewer
  BY DEF LoadedFewer, Loaded, Fewer

LEMMA SameFiles == UNCHANGED file => Thinner(Ids)
  BY DEF Thinner

LookAction(t) ==
    \/ \E i \in Ids : Get(t, i) \/ Scan(t, i)
    \/ Recheck(t) \/ WriteBack(t) \/ \E i \in Ids, v \in Values : Put(t, i, v)

LEMMA LookList ==
    ASSUME LockInv, ListInv, NEW t \in Threads, LookAction(t)
    PROVE  ListInv'
<1>1. PICK p : /\ Goto(t, p) /\ p \notin {"index", "relist", "rebuild"}
               /\ pc[t] \in {"idle", "recheck", "writeback"}
               /\ Same /\ UNCHANGED upsets
  BY DEF LookAction, Get, Scan, Recheck, WriteBack, Put, Begin, budget
<1>2. \/ UNCHANGED id
      \/ \E i \in Ids : id' = [id EXCEPT ![t] = i]
  BY DEF LookAction, Get, Scan, Recheck, WriteBack, Put, Begin
<1>3. \/ UNCHANGED val
      \/ \E v : val' = [val EXCEPT ![t] = v]
  BY DEF LookAction, Get, Scan, Recheck, WriteBack, Put, Begin
<1>4. \A u \in Threads \ {t} : id'[u] = id[u] /\ val'[u] = val[u]
  BY <1>2, <1>3 DEF LockInv, ListInv, ListShape
<1>5. UNCHANGED <<file, imem, ifile, stale, map>>
  BY <1>1 DEF Same, index, ghost
<1>6. ListShape'
  BY <1>1, <1>3, <1>5 DEF ListInv, ListShape
<1>7. Alone(t)
  BY <1>4, <1>5 DEF Alone
<1> QED
  BY <1>1, <1>4, <1>5, <1>6, <1>7, SameIndex, SameFiles, QuietStep

LEMMA ForgetFewer ==
    ASSUME NEW i, Forget(i), UNCHANGED ifile
    PROVE  LoadedFewer
<1>1. CASE imem = {}
  BY <1>1 DEF Forget, LoadedFewer, Loaded, Fewer
<1>2. CASE imem # {}
  <2>1. imem' # {} /\ Loaded' = imem' /\ Loaded = imem
    BY <1>2 DEF Forget, Loaded
  <2>2. ASSUME NEW n \in imem' PROVE \E m \in imem : Fewer(m, n)
    BY <2>2 DEF Forget, Fewer, Restrict
  <2> QED
    BY <2>1, <2>2 DEF LoadedFewer
<1> QED
  BY <1>1, <1>2

LEMMA AsideThinner ==
    ASSUME LockInv, NEW i \in Ids, MoveAside(i) \/ CannotMove(i), ListShape, UNCHANGED ifile
    PROVE  Thinner(Ids) /\ LoadedFewer /\ upsets' \in Nat
<1>1. Thinner(Ids)
  BY AsideKeeps DEF Thinner
<1>2. LoadedFewer
  BY ForgetFewer DEF MoveAside, CannotMove
<1>3. upsets' \in Nat
  BY DEF MoveAside, CannotMove, Upset, ListShape
<1> QED
  BY <1>1, <1>2, <1>3

LEMMA AsideList ==
    ASSUME LockInv, ListInv, NEW t \in Threads, AsideAction(t)
    PROVE  ListInv'
<1>1. /\ id[t] \in Ids /\ UNCHANGED <<id, ifile, val, map, stale>>
      /\ MoveAside(id[t]) \/ CannotMove(id[t])
  BY DEF LockInv, AsideAction, Quarantine, Replace, Drop, ScanAside, ghost
<1>2. pc[t] \in {"quarantine", "replace", "drop", "misread"} /\ (pc[t] \in Locked \/ Free)
  BY DEF Locked, AsideAction, Quarantine, Replace, Drop, ScanAside
<1>3. PICK p \in {"idle", "write", "unindex"} : Goto(t, p)
  BY DEF AsideAction, Quarantine, Replace, Drop, ScanAside
<1>4. Thinner(Ids) /\ LoadedFewer /\ upsets' \in Nat
  BY <1>1, AsideThinner DEF ListInv
<1>5. ListShape'
  BY <1>1, <1>4 DEF ListInv, ListShape
<1>6. Alone(t)
  BY <1>2 DEF Alone
<1>7. pc[t] # "index" /\ p \notin {"index", "relist", "rebuild"}
  BY <1>2, <1>3
<1> QED
  BY <1>1, <1>3, <1>4, <1>5, <1>6, <1>7, QuietStep

LEMMA DeleteList ==
    ASSUME LockInv, ListInv, NEW t \in Threads, NEW i \in Ids, Delete(t, i)
    PROVE  ListInv'
<1>1. PICK p \in {"drop", "unindex"} : Goto(t, p)
  BY DEF Delete
<1>2. file' = file \/ file' = [file EXCEPT ![i] = {}]
  BY DEF Delete
<1>3. /\ UNCHANGED <<imem, ifile, val, map, upsets, stale>> /\ Free
      /\ id' = [id EXCEPT ![t] = i] /\ pc[t] = "idle"
  BY DEF Delete, Begin, index
<1>4. Thinner(Ids)
  BY <1>2 DEF Thinner, LockInv, IsMap
<1>5. \A u \in Threads \ {t} : id'[u] = id[u]
  BY <1>3 DEF LockInv
<1>6. Alone(t)
  BY <1>3 DEF Alone
<1>7. ListShape'
  BY <1>3 DEF ListInv, ListShape
<1> QED
  BY <1>1, <1>3, <1>4, <1>5, <1>6, <1>7, SameIndex, QuietStep

\* The document a write leaves has no row yet, and the thread at the next step is to give it one.
LEMMA WriteList ==
    ASSUME LockInv, ListInv, NEW t \in Threads, Write(t)
    PROVE  ListInv'
<1>1. /\ pc[t] \in {"write", "migrate"} /\ pc[t] \in Locked /\ id[t] \in Ids
      /\ UNCHANGED <<imem, ifile, id, val, map, stale>>
  BY DEF Write, Locked, LockInv, index
<1>2. ListShape'
  BY <1>1 DEF Write, Upset, ListInv, ListShape
<1>3. Alone(t)
  BY <1>1 DEF Alone
<1>4. CASE file' = file /\ Goto(t, "idle")
  BY <1>1, <1>2, <1>3, <1>4, SameIndex, SameFiles, QuietStep
<1>5. CASE file' = [file EXCEPT ![id[t]] = {Doc(val[t])}] /\ Goto(t, "index")
  <2>1. pc'[t] = "index"
    BY <1>5 DEF LockInv, Goto
  <2>2. IndexKnows(t)'
    BY <1>1, <1>5, <2>1 DEF IndexKnows, LockInv, IsMap
  <2>3. Unlisted \subseteq Unlisted'
    BY <1>1, <1>5, UnlistedGrows
  <2>4. id[t] \in Unlisted'
    BY <1>1, <2>1 DEF Unlisted
  <2>5. Thinner(Ids \ (stale' \cup Unlisted'))
    BY <1>5, <2>4 DEF Thinner, LockInv, IsMap
  <2>6. \A n \in Loaded' : RowsTrue(n, Ids \ (stale \cup Unlisted))'
    BY <1>1, <2>3, <2>5, SameIndex, LoadedTrue
  <2> QED
    BY <1>2, <1>3, <1>5, <2>2, <2>6, ListStep
<1> QED
  BY <1>4, <1>5 DEF Write

LEMMA ListList ==
    ASSUME LockInv, ListInv, NEW t \in Threads, List(t)
    PROVE  ListInv'
<1>1. /\ pc[t] = "idle" /\ Free /\ UNCHANGED <<file, id, val, stale>> /\ imem' = Loaded
      /\ ifile' = ifile \/ ifile' = Loaded
      /\ upsets' = upsets \/ upsets' = upsets + 1
  BY DEF List, Upset, Loaded, ghost, Relist
<1>2. PICK p \in {"idle", "relist"} :
          /\ Goto(t, p)
          /\ \/ p = "idle" /\ UNCHANGED map
             \/ p = "relist" /\ map' = [map EXCEPT ![t] = <<>>]
  BY DEF List, Relist, Goto, LockInv
<1>3. pc'[t] = p
  BY <1>2 DEF LockInv, Goto
<1>4. ListShape'
  BY <1>1, <1>2 DEF ListInv, ListShape
<1>5. LoadedFewer
  BY <1>1 DEF LoadedFewer, Loaded, Fewer
<1>6. IndexKnows(t)'
  BY <1>2, <1>3 DEF IndexKnows, RowsTrue, ListInv, ListShape
<1>7. Unlisted \subseteq Unlisted'
  BY <1>1, <1>2, UnlistedGrows
<1>8. Thinner(Ids \ (stale' \cup Unlisted'))
  BY <1>1 DEF Thinner
<1>9. \A n \in Loaded' : RowsTrue(n, Ids \ (stale \cup Unlisted))'
  BY <1>1, <1>5, <1>7, <1>8, LoadedTrue
<1> QED
  BY <1>1, <1>2, <1>4, <1>6, <1>9, ListStep DEF Alone

LEMMA RebuildIndexList ==
    ASSUME LockInv, ListInv, NEW t \in Threads, RebuildIndex(t)
    PROVE  ListInv'
<1>1. /\ pc[t] = "idle" /\ Free /\ UNCHANGED <<file, imem, ifile, id, val, stale, upsets>>
      /\ Goto(t, "rebuild") /\ map' = [map EXCEPT ![t] = <<>>]
  BY DEF RebuildIndex, Relist, ghost, index
<1>2. pc'[t] = "rebuild"
  BY <1>1 DEF LockInv, Goto
<1>3. ListShape'
  BY <1>1 DEF ListInv, ListShape
<1>4. IndexKnows(t)'
  BY <1>1, <1>2 DEF IndexKnows, RowsTrue, ListInv, ListShape
<1>5. Unlisted \subseteq Unlisted'
  BY <1>1, UnlistedGrows
<1>6. Thinner(Ids \ (stale' \cup Unlisted'))
  BY <1>1 DEF Thinner
<1>7. \A n \in Loaded' : RowsTrue(n, Ids \ (stale \cup Unlisted))'
  BY <1>1, <1>5, <1>6, SameIndex, LoadedTrue
<1> QED
  BY <1>1, <1>3, <1>4, <1>7, ListStep DEF Alone

\* A rebuild reads under the lock, so what it has read stays true until it is stored.
LEMMA RebuildOneList ==
    ASSUME LockInv, ListInv, NEW t \in Threads, RebuildOne(t)
    PROVE  ListInv'
<1>1. /\ pc[t] \in {"relist", "rebuild"} /\ pc[t] \in Locked /\ pc' = pc
      /\ UNCHANGED <<ifile, id, val, stale>>
  BY DEF RebuildOne, Locked, ghost
<1>2. PICK i : /\ i = CHOOSE j \in todo[t] : TRUE
               /\ \/ /\ \E c \in file[i] : Corrupt(c)
                     /\ MoveAside(i) \/ CannotMove(i)
                     /\ UNCHANGED map
                  \/ /\ \A c \in file[i] : ~Corrupt(c)
                     /\ map' = [map EXCEPT ![t] =
                            IF \E c \in file[i] : Decodes(c)
                            THEN WithRow(@, i, CHOOSE c \in file[i] : TRUE) ELSE @]
                     /\ UNCHANGED <<file, quarantine, imem, upsets>>
  BY Zenon DEF RebuildOne
<1>3. Goto(t, pc[t])
  BY <1>1 DEF Goto, LockInv
<1>4. Unlisted \subseteq Unlisted' /\ Alone(t)
  BY <1>1 DEF Unlisted, Alone
<1>5. RowsTrue(map[t], Ids)
  BY <1>1 DEF ListInv, IndexKnows
<1>6. PICK m : m = map[t]
  OBVIOUS
<1>7. CASE UNCHANGED map
  <2>1. MoveAside(i) \/ CannotMove(i) \/ UNCHANGED <<file, imem, upsets>>
    BY <1>2
  <2>2. Thinner(Ids)
    BY <2>1 DEF MoveAside, CannotMove, Thinner, LockInv, IsMap
  <2>3. LoadedFewer
    BY <1>1, <2>1, ForgetFewer, SameIndex DEF MoveAside, CannotMove
  <2>4. upsets' \in Nat
    BY <2>1 DEF MoveAside, CannotMove, Upset, ListInv, ListShape
  <2>5. ListShape'
    BY <1>1, <1>7, <2>4 DEF ListInv, ListShape
  <2>6. Thinner(Ids \ (stale' \cup Unlisted'))
    BY <2>2 DEF Thinner
  <2>7. \A n \in Loaded' : RowsTrue(n, Ids \ (stale \cup Unlisted))'
    BY <1>1, <1>4, <2>3, <2>6, LoadedTrue
  <2>8. RowsTrue(m, Ids)'
    BY <1>5, <1>6, <2>2, ThinnerTrue DEF Fewer
  <2>9. IndexKnows(t)'
    BY <1>1, <1>6, <1>7, <2>8 DEF IndexKnows
  <2> QED
    BY <1>3, <1>4, <2>5, <2>7, <2>9, ListStep
<1>8. CASE /\ UNCHANGED <<file, imem, upsets>>
           /\ map' = [map EXCEPT ![t] =
                          IF \E c \in file[i] : Decodes(c)
                          THEN WithRow(@, i, CHOOSE c \in file[i] : TRUE) ELSE @]
  <2>1. ListShape'
    BY <1>1, <1>8 DEF ListInv, ListShape
  <2>2. Thinner(Ids \ (stale' \cup Unlisted'))
    BY <1>8 DEF Thinner
  <2>3. \A n \in Loaded' : RowsTrue(n, Ids \ (stale \cup Unlisted))'
    BY <1>1, <1>4, <1>8, <2>2, SameIndex, LoadedTrue
  <2>4. PICK n : n = IF \E c \in file[i] : Decodes(c)
                     THEN WithRow(m, i, CHOOSE c \in file[i] : TRUE) ELSE m
    OBVIOUS
  <2>5. map'[t] = n
    BY <1>6, <1>8, <2>4 DEF ListInv, ListShape
  <2>6. RowsTrue(n, Ids)
    <3>1. ASSUME \E c \in file[i] : Decodes(c), NEW j \in Ids \cap DOMAIN n, NEW c \in file[j]
          PROVE  n[j] = Row(c)
      <4>1. (CHOOSE d \in file[i] : TRUE) \in file[i]
        BY <3>1
      <4>2. CASE j = i
        <5>1. (CHOOSE d \in file[i] : TRUE) = c
          BY <3>1, <4>1, <4>2 DEF LockInv
        <5> QED
          BY <2>4, <3>1, <4>2, <5>1 DEF WithRow
      <4>3. CASE j # i
        BY <1>5, <1>6, <2>4, <3>1, <4>3 DEF WithRow, RowsTrue
      <4> QED
        BY <4>2, <4>3
    <3>2. CASE ~\E c \in file[i] : Decodes(c)
      BY <1>5, <1>6, <2>4, <3>2
    <3> QED
      BY <3>1, <3>2 DEF RowsTrue
  <2>7. RowsTrue(n, Ids)'
    BY <1>8, <2>6 DEF RowsTrue
  <2>8. IndexKnows(t)'
    BY <1>1, <2>5, <2>7 DEF IndexKnows
  <2> QED
    BY <1>3, <1>4, <2>1, <2>3, <2>8, ListStep
<1> QED
  BY <1>2, <1>7, <1>8

\* When memory loses the index and the file does not change, `stale' takes in every row it has wrong.
LEMMA FallBack ==
    ASSUME ListInv, LockInv, imem' = {}, UNCHANGED <<file, ifile>>, stale' = stale \cup Behind
    PROVE  \A n \in Loaded' : RowsTrue(n, Ids \ (stale \cup Unlisted))'
<1>1. ASSUME NEW n \in ifile, NEW i \in (Ids \cap DOMAIN n) \ Behind, NEW c \in file[i]
      PROVE  n[i] = Row(c)
  BY <1>1 DEF Behind, LockInv
<1>2. Loaded' = ifile
  BY DEF Loaded
<1> QED
  BY <1>1, <1>2 DEF RowsTrue

LEMMA IndexRows ==
    ASSUME LockInv, ListInv, NEW t \in Threads, IndexPut(t) \/ Unindex(t)
    PROVE  ListInv'
<1> DEFINE i == id[t]
<1>1. /\ pc[t] \in {"index", "unindex"} /\ pc[t] \in Locked /\ i \in Ids
      /\ Goto(t, "idle") /\ NoteStale /\ UNCHANGED <<file, id, val, map>>
  BY DEF IndexPut, Unindex, Locked, LockInv
<1>2. PICK changed :
          /\ IndexChange(changed)
          /\ \/ pc[t] = "index" /\ changed = {WithRow(m, i, Doc(val[t])) : m \in Loaded}
             \/ pc[t] = "unindex" /\ changed = {WithoutRow(m, i) : m \in Loaded}
  BY Zenon DEF IndexPut, Unindex
<1>7. \/ changed = {} /\ UNCHANGED <<imem, ifile, upsets>>
      \/ changed # {} /\ imem' = changed /\ UNCHANGED upsets
      \/ imem' = {} /\ UNCHANGED ifile /\ upsets' = upsets + 1
  BY <1>2, Zenon DEF IndexChange, index, Upset
<1>3. pc'[t] = "idle" /\ IndexKnows(t)' /\ Alone(t)
  BY <1>1 DEF LockInv, Goto, IndexKnows, Alone
<1>4. ListShape' /\ (upsets' = upsets \/ upsets' > upsets)
  BY <1>1, <1>7 DEF ListInv, ListShape
<1>5. Unlisted' = {} /\ Unlisted \subseteq {i}
  <2>1. \A u \in Threads \ {t} : pc[u] # "index" /\ pc'[u] = pc[u]
    BY <1>1 DEF LockInv, Goto, Locked
  <2> QED
    BY <1>1, <1>3, <2>1 DEF Unlisted
<1>6. \A n \in Loaded' : RowsTrue(n, Ids \ (stale \cup Unlisted))'
  <2>1. CASE upsets' > upsets
    <3>1. imem' = {} /\ UNCHANGED ifile
      BY <1>7, <2>1 DEF ListInv, ListShape
    <3> QED
      BY <1>1, <2>1, <3>1, FallBack DEF NoteStale
  <2>2. CASE upsets' = upsets
    <3>1. Loaded' = changed /\ stale' = stale
      <4>1. changed = {} => Loaded = {}
        BY <1>2
      <4>2. upsets \in Nat /\ stale' = stale
        BY <1>1, <2>2 DEF NoteStale, ListInv, ListShape
      <4>3. \/ changed = {} /\ UNCHANGED <<imem, ifile>>
            \/ changed # {} /\ imem' = changed
        BY <1>7, <2>2, <4>2
      <4> QED
        BY <4>1, <4>2, <4>3 DEF Loaded
    <3>2. ASSUME NEW n \in changed, NEW j \in (Ids \ stale) \cap DOMAIN n, NEW c \in file[j]
          PROVE  n[j] = Row(c)
      <4>1. PICK m \in Loaded : \/ n = WithRow(m, i, Doc(val[t])) /\ pc[t] = "index"
                                \/ n = WithoutRow(m, i) /\ pc[t] = "unindex"
        <5>1. CASE pc[t] = "index"
          BY <1>2, <3>2, <5>1
        <5>2. CASE pc[t] = "unindex"
          BY <1>2, <3>2, <5>2
        <5> QED
          BY <1>1, <5>1, <5>2
      <4>2. j \in DOMAIN m /\ j # i => m[j] = Row(c)
        BY <1>5, <3>2 DEF ListInv, RowsTrue
      <4>3. CASE n = WithRow(m, i, Doc(val[t])) /\ pc[t] = "index"
        <5>1. j = i => c = Doc(val[t])
          BY <1>1, <3>2, <4>3 DEF ListInv, IndexKnows
        <5> QED
          BY <3>2, <4>2, <4>3, <5>1 DEF WithRow
      <4>4. CASE n = WithoutRow(m, i) /\ pc[t] = "unindex"
        BY <3>2, <4>2, <4>4 DEF WithoutRow, Restrict
      <4> QED
        BY <4>1, <4>3, <4>4
    <3>3. \A n \in changed : RowsTrue(n, Ids \ stale)'
      BY <1>1, <3>1, <3>2 DEF RowsTrue
    <3> QED
      BY <1>5, <3>1, <3>3
  <2> QED
    BY <1>4, <2>1, <2>2
<1> QED
  BY <1>1, <1>3, <1>4, <1>6, ListStep

LEMMA StoreList ==
    ASSUME LockInv, ListInv, NEW t \in Threads, RebuildStore(t)
    PROVE  ListInv'
<1>1. /\ pc[t] \in {"relist", "rebuild"} /\ pc[t] \in Locked
      /\ Goto(t, "idle") /\ UNCHANGED <<file, id, val, map>>
      /\ upsets' = upsets \/ upsets' = upsets + 1
      /\ \/ imem' = {map[t]} /\ stale' = {}
         \/ UNCHANGED <<imem, ifile, stale>>
  BY DEF RebuildStore, Locked, Upset
<1>2. pc'[t] = "idle" /\ IndexKnows(t)' /\ Alone(t)
  BY <1>1 DEF LockInv, Goto, IndexKnows, Alone
<1>3. ListShape'
  BY <1>1 DEF ListInv, ListShape
<1>4. \A n \in Loaded' : RowsTrue(n, Ids \ (stale \cup Unlisted))'
  <2>1. CASE imem' = {map[t]} /\ stale' = {}
    <3>1. PICK m : m = map[t]
      OBVIOUS
    <3>2. RowsTrue(m, Ids)
      BY <1>1, <3>1 DEF ListInv, IndexKnows
    <3>3. RowsTrue(m, Ids)'
      BY <1>1, <3>2 DEF RowsTrue
    <3>4. Loaded' = {m}
      BY <2>1, <3>1 DEF Loaded
    <3> QED
      BY <3>3, <3>4 DEF RowsTrue
  <2>2. CASE UNCHANGED <<imem, ifile, stale>>
    <3>1. Unlisted \subseteq Unlisted'
      BY <1>1, UnlistedGrows
    <3>2. Thinner(Ids \ (stale' \cup Unlisted'))
      BY <1>1 DEF Thinner
    <3> QED
      BY <2>2, <3>1, <3>2, SameIndex, LoadedTrue
  <2> QED
    BY <1>1, <2>1, <2>2
<1> QED
  BY <1>1, <1>2, <1>3, <1>4, ListStep

LEMMA CrashList ==
    ASSUME LockInv, ListInv, Crash
    PROVE  ListInv'
<1>1. /\ pc' = [t \in Threads |-> "idle"] /\ imem' = {} /\ stale' = stale \cup Behind
      /\ UNCHANGED <<file, ifile, id, val, map>> /\ upsets' = upsets + 1
  BY DEF Crash, Upset
<1>2. ListShape' /\ \A t \in Threads : IndexKnows(t)'
  BY <1>1 DEF ListInv, ListShape, IndexKnows
<1> QED
  BY <1>1, <1>2, FallBack DEF ListInv

LEMMA ForeignList ==
    ASSUME LockInv, ListInv, ForeignChange
    PROVE  ListInv'
<1>1. Free /\ UNCHANGED <<imem, ifile, pc, id, val, map>> /\ upsets' = upsets + 1
  BY DEF ForeignChange, Upset, index, thread
<1>2. PICK i \in Ids, new \in {{}} \cup {{c} : c \in Foreign} :
          file' = [file EXCEPT ![i] = new] /\ stale' = stale \cup {i}
  BY DEF ForeignChange
<1>3. ListShape'
  BY <1>1 DEF ListInv, ListShape
<1>4. \A t \in Threads : IndexKnows(t)'
  BY <1>1 DEF Free, Locked, IndexKnows
<1>5. Thinner(Ids \ (stale' \cup Unlisted'))
  BY <1>2 DEF Thinner, LockInv, IsMap
<1>6. Unlisted' = Unlisted
  BY <1>1 DEF Unlisted
<1>7. \A n \in Loaded' : RowsTrue(n, Ids \ (stale \cup Unlisted))'
  BY <1>1, <1>2, <1>5, <1>6, SameIndex, LoadedTrue
<1> QED
  BY <1>3, <1>4, <1>7 DEF ListInv

LEMMA StepList ==
    ASSUME LockInv, ListInv, Next
    PROVE  ListInv'
<1>1. ASSUME NEW t \in Threads, ReadAction(t) \/ LockAction(t) \/ IndexAction(t) PROVE ListInv'
  BY <1>1, LookList, ListList, RebuildIndexList, IndexRows, StoreList
     DEF ReadAction, LockAction, IndexAction, LookAction
<1> QED
  BY <1>1, AsideList, WriteList, DeleteList, RebuildOneList, CrashList, ForeignList, NextCases

LEMMA StutterList ==
    ASSUME LockInv, ListInv, UNCHANGED vars
    PROVE  ListInv'
<1>1. UNCHANGED <<file, imem, ifile, pc, id, val, map, upsets, stale>>
  BY DEF vars, index, thread, budget, ghost
<1>2. ListShape' /\ \A t \in Threads : IndexKnows(t)'
  BY <1>1 DEF ListInv, ListShape, IndexKnows, RowsTrue
<1>3. \A n \in Loaded' : RowsTrue(n, Ids \ (stale \cup Unlisted))'
  BY <1>1 DEF ListInv, Loaded, RowsTrue, Unlisted
<1> QED
  BY <1>2, <1>3 DEF ListInv

LEMMA ListMatches == LockInv /\ ListInv => ListingMatches
<1> SUFFICES ASSUME LockInv, ListInv, Free,
                    NEW m \in Loaded, Consistent(m), NEW i \in DOMAIN m \ stale, NEW c \in file[i]
             PROVE  m[i] = Row(c)
  BY DEF ListingMatches, Loaded
<1>1. i \in Ids
  BY DEF Consistent
<1>2. i \notin Unlisted
  BY DEF Unlisted, Free, Locked
<1> QED
  BY <1>1, <1>2 DEF ListInv, RowsTrue

\* An index that would be served describes every document it names, whichever calls ran before it,
\* failed or were cut off, but for the documents whose row an outside change or a failure left wrong.
THEOREM ServedListingMatches == Spec => []ListingMatches
<1>1. LockInv /\ ListInv /\ [Next]_vars => LockInv' /\ ListInv'
  BY StepLock, StutterLock, StepList, StutterList
<1> QED
  BY <1>1, InitLock, InitList, ListMatches, PTL DEF Spec
-----------------------------------------------------------------------------
(***************************************************************************)
(* The files below the collection (AtomicWrite), for any bounds.  One      *)
(* inductive invariant carries the three theorems: every folder a loss of  *)
(* power may leave is sound, that is, what is at its target was synced     *)
(* before it got there or was put there by a cleanup, and it holds a whole *)
(* copy of what was confirmed, or has lost it to a cleanup.                *)
(***************************************************************************)
Writing == {"create", "fill", "sync", "rename", "aside", "movein", "removeold", "restore", "drop", "syncdir"}
Early == {"create", "fill", "sync", "rename", "aside"}
Pending == {"fill", "sync", "rename", "aside", "movein", "restore", "drop"}

Whole(v) == v \notin torn /\ v \in synced
Fine(v) == v \in rolled \/ (Whole(v) /\ v >= last)

\* The names in a folder: a temporary file carries the number of its write.
Named(f) ==
    \A n \in DOMAIN f :
        /\ f[n] \in 0..w /\ (step = "create" => f[n] # w)
        /\ n = Target \/ n = Temp(f[n]) \/ \E k \in 1..w : n = Aside(k) /\ (step \in Early => k # w)
        /\ step \in Early /\ f[n] = w => n = Temp(w)

\* A whole copy of the last confirmed write or a later one, the one still in the making not counted.
Copied(f) ==
    \E n \in DOMAIN f : /\ f[n] >= last /\ Whole(f[n])
                        /\ step \in Pending \cup {"create"} => f[n] # w

Sound(f) ==
    /\ Target \in DOMAIN f => Fine(f[Target])
    /\ last # None => Copied(f) \/ Spoiled(f)

\* What the writer knows of its own files.
WriterKnows ==
    /\ step \in Pending => Temp(w) \in DOMAIN dir /\ dir[Temp(w)] = w
    /\ step = "sync" => w \notin torn
    /\ step \in {"rename", "aside", "movein"} => Whole(w)
    /\ step \in {"movein", "restore"} =>
          Target \notin DOMAIN dir /\ Aside(w) \in DOMAIN dir /\ dir[Aside(w)] # w /\ Fine(dir[Aside(w)])
    /\ step \in {"removeold", "syncdir"} => Target \in DOMAIN dir /\ dir[Target] = w /\ Whole(w)

FileInv ==
    /\ step \in Writing \cup {"down", "idle", "clean"}
    /\ w \in Nat /\ last \in None..w /\ (step \in Writing => last < w)
    /\ dir \in disk /\ Target \notin entries
    /\ \A f \in disk : Named(f) /\ Sound(f)
    /\ last = w => \A f \in disk : Target \in DOMAIN f /\ f[Target] = w /\ Whole(w)
    /\ WriterKnows

LEMMA TakenOut ==
    ASSUME NEW f, NEW n
    PROVE  /\ DOMAIN Without(f, n) = DOMAIN f \ {n}
           /\ \A m \in DOMAIN f \ {n} : Without(f, n)[m] = f[m]
  BY DEF Without, Restrict

LEMMA NamesDiffer ==
    \A k, j : /\ Target # Temp(k) /\ Target # Aside(k) /\ Temp(k) # Aside(j)
              /\ (Temp(k) = Temp(j) => k = j) /\ (Aside(k) = Aside(j) => k = j)
  BY DEF Target, Temp, Aside

\* A step that begins no write and confirms none, and leaves at most one folder that was not there.
LEMMA FolderStep ==
    ASSUME FileInv,
           step' \in (Writing \cup {"down", "idle", "clean"}) \ {"create"},
           step' \in Writing => step \in Writing,
           step' \in Early => step \in Early,
           step' \in Pending => step \in Pending \cup {"create"},
           w' = w, last' = last, rolled \subseteq rolled', Target \notin entries',
           \A f \in disk : \A n \in DOMAIN f : Whole(f[n]) => Whole(f[n])',
           NEW g, dir' = g, g \in disk', disk' \subseteq disk \cup {g},
           g \in disk \/ (Named(g)' /\ Sound(g)'),
           last = w => Target \in DOMAIN g /\ g[Target] = w,
           WriterKnows'
    PROVE  FileInv'
<1>1. \A f \in disk : Named(f)'
  BY DEF FileInv, Named
<1>2. ASSUME NEW f \in disk PROVE Sound(f)'
  <2>1. Sound(f) /\ Named(f)
    BY DEF FileInv
  <2>2. Target \in DOMAIN f => Fine(f[Target])'
    BY <2>1 DEF Sound, Fine
  <2>3. Copied(f) => Copied(f)'
    BY DEF Copied
  <2>4. Spoiled(f) => Spoiled(f)'
    BY DEF Spoiled
  <2> QED
    BY <2>1, <2>2, <2>3, <2>4 DEF Sound
<1>3. last = w => \A f \in disk' : Target \in DOMAIN f /\ f[Target] = w /\ Whole(w)'
  <2> SUFFICES ASSUME last = w PROVE \A f \in disk' : Target \in DOMAIN f /\ f[Target] = w /\ Whole(w)'
    OBVIOUS
  <2>1. dir \in disk /\ \A f \in disk : Target \in DOMAIN f /\ f[Target] = w /\ Whole(w)
    BY DEF FileInv
  <2> QED
    BY <2>1
<1> QED
  BY <1>1, <1>2, <1>3 DEF FileInv

LEMMA InitFile == FileInit => FileInv
<1> SUFFICES ASSUME FileInit PROVE FileInv
  OBVIOUS
<1>1. PICK names \in SUBSET {Target} : dir = [n \in names |-> 0]
  BY DEF FileInit
<1>2. /\ DOMAIN dir \subseteq {Target} /\ \A n \in DOMAIN dir : dir[n] = 0
      /\ disk = {dir} /\ torn = {} /\ synced = {0} /\ step = "down" /\ w = 0 /\ entries = {}
      /\ last = IF Target \in DOMAIN dir THEN 0 ELSE None
  BY <1>1 DEF FileInit
<1>3. Named(dir)
  BY <1>2 DEF Named, Early
<1>4. last \in None..w
  BY <1>2 DEF None
<1>5. Sound(dir)
  <2>1. CASE Target \in DOMAIN dir
    BY <1>2, <2>1 DEF Sound, Fine, Whole, Copied, Pending
  <2>2. CASE Target \notin DOMAIN dir
    BY <1>2, <2>2 DEF Sound
  <2> QED
    BY <2>1, <2>2
<1>6. last = w => Target \in DOMAIN dir /\ dir[Target] = w /\ Whole(w)
  BY <1>2 DEF Whole, None
<1>7. WriterKnows
  BY <1>2 DEF WriterKnows, Pending
<1> QED
  BY <1>2, <1>3, <1>4, <1>5, <1>6, <1>7 DEF FileInv, Writing

\* A step that leaves the folder and what is on stable storage alone.
LEMMA StillStep ==
    ASSUME FileInv,
           step' \in (Writing \cup {"down", "idle", "clean"}) \ {"create"},
           step' \in Writing => step \in Writing,
           step' \in Early => step \in Early,
           step' \in Pending => step \in Pending \cup {"create"},
           UNCHANGED <<dir, disk, w, last, rolled>>, Target \notin entries',
           \A f \in disk : \A n \in DOMAIN f : Whole(f[n]) => Whole(f[n])',
           WriterKnows'
    PROVE  FileInv'
<1>1. dir \in disk /\ (last = w => Target \in DOMAIN dir /\ dir[Target] = w)
  BY DEF FileInv
<1> QED
  BY <1>1, FolderStep

LEMMA BeginKeeps == ASSUME FileInv, BeginWrite PROVE FileInv'
<1>1. /\ step = "idle" /\ step' = "create" /\ w' = w + 1 /\ w \in Nat
      /\ UNCHANGED <<dir, disk, torn, synced, entries, rolled, last>>
      /\ last \in None..w
  BY DEF BeginWrite, At, FileInv
<1>2. last' \in None..w' /\ last' < w'
  BY <1>1 DEF None
<1>3. ASSUME NEW f \in disk PROVE Named(f)' /\ Sound(f)'
  <2>1. Named(f) /\ Sound(f)
    BY DEF FileInv
  <2>2. Named(f)'
    BY <1>1, <2>1 DEF Named, Early
  <2>3. Copied(f) => Copied(f)'
    BY <1>1, <2>1 DEF Copied, Whole, Named, Pending
  <2>4. Spoiled(f) => Spoiled(f)'
    BY <1>1 DEF Spoiled
  <2> QED
    BY <1>1, <2>1, <2>2, <2>3, <2>4 DEF Sound, Fine, Whole
<1>4. WriterKnows'
  BY <1>1 DEF WriterKnows, Pending
<1> QED
  BY <1>1, <1>2, <1>3, <1>4 DEF FileInv, Writing

LEMMA CreateKeeps == ASSUME FileInv, CreateTemp PROVE FileInv'
<1>0. PICK g : g = Written(dir, Temp(w), w)
  OBVIOUS
<1>1. /\ step = "create" /\ step' = "fill" /\ UNCHANGED <<synced, w, entries, rolled, last>>
      /\ dir' = g /\ disk' = disk \cup {g} /\ torn' = torn \cup {w}
  BY <1>0 DEF CreateTemp, At, Folder, Quiet
<1>2. w \in Nat /\ last \in None..w /\ last < w /\ Named(dir) /\ Sound(dir)
  BY <1>1 DEF FileInv, Writing
<1>3. DOMAIN g = DOMAIN dir \cup {Temp(w)} /\ g[Temp(w)] = w /\ \A m \in DOMAIN dir \ {Temp(w)} : g[m] = dir[m]
  BY <1>0 DEF Written
<1>4. Temp(w) \notin DOMAIN dir /\ \A f \in disk : \A n \in DOMAIN f : f[n] # w
  BY <1>1, NamesDiffer DEF FileInv, Named, Early
<1>5. \A f \in disk : \A n \in DOMAIN f : Whole(f[n]) => Whole(f[n])'
  BY <1>1, <1>4 DEF Whole
<1>6. Named(g)'
  BY <1>1, <1>2, <1>3, <1>4, NamesDiffer DEF Named, Early
<1>7. Sound(g)'
  <2>1. \A n \in DOMAIN dir : n \in DOMAIN g /\ g[n] = dir[n] /\ dir[n] # w
    BY <1>3, <1>4, FileInv DEF FileInv
  <2>2. Target \in DOMAIN g => Fine(g[Target])'
    BY <1>1, <1>2, <1>3, <2>1, NamesDiffer DEF Sound, Fine, Whole
  <2>3. Copied(dir) => Copied(g)'
    BY <1>1, <2>1 DEF Copied, Whole, Pending
  <2>4. Spoiled(dir) => Spoiled(g)'
    BY <1>1, <1>3, <2>1, NamesDiffer DEF Spoiled
  <2> QED
    BY <1>1, <1>2, <2>2, <2>3, <2>4 DEF Sound
<1>8. WriterKnows'
  BY <1>1, <1>3 DEF WriterKnows, Pending
<1> QED
  BY <1>1, <1>2, <1>5, <1>6, <1>7, <1>8, FolderStep DEF Writing, Early, Pending, FileInv

LEMMA BytesKeep == ASSUME FileInv, FillTemp \/ SyncTemp PROVE FileInv'
<1>1. w \in Nat /\ last \in None..w /\ Target \notin entries
  BY DEF FileInv
<1>2. CASE FillTemp
  <2>1. /\ step = "fill" /\ UNCHANGED <<dir, disk, synced, w, entries, rolled, last>> /\ torn' \subseteq torn
        /\ (step' = "sync" /\ w \notin torn') \/ step' = "drop"
    BY <1>2 DEF FillTemp, Quiet
  <2>2. WriterKnows'
    BY <2>1 DEF WriterKnows, Pending, FileInv
  <2> QED
    BY <1>1, <2>1, <2>2, StillStep DEF Whole, Writing, Early, Pending
<1>3. CASE SyncTemp
  <2>1. /\ step = "sync" /\ UNCHANGED <<dir, disk, torn, w, entries, rolled, last>> /\ synced \subseteq synced'
        /\ (step' = "rename" /\ w \in synced') \/ step' = "drop"
    BY <1>3 DEF SyncTemp, Quiet
  <2>2. WriterKnows'
    BY <2>1 DEF WriterKnows, Pending, FileInv, Whole
  <2> QED
    BY <1>1, <2>1, <2>2, StillStep DEF Whole, Writing, Early, Pending
<1> QED
  BY <1>2, <1>3

\* The write's file takes the target's place.
LEMMA InPlace ==
    ASSUME FileInv, step \in {"rename", "movein"}, step' \in {"syncdir", "removeold"},
           Folder(Moved(dir, Temp(w), Target)),
           UNCHANGED <<torn, synced, w, entries, rolled, last>>
    PROVE  FileInv'
<1>0. PICK g : g = Moved(dir, Temp(w), Target)
  OBVIOUS
<1>1. dir' = g /\ disk' = disk \cup {g}
  BY <1>0 DEF Folder
<1>2. /\ w \in Nat /\ last \in None..w /\ last < w /\ Named(dir) /\ Target \notin entries
      /\ Temp(w) \in DOMAIN dir /\ dir[Temp(w)] = w /\ Whole(w)
  BY DEF FileInv, Writing, WriterKnows, Pending
<1>3. /\ DOMAIN g = (DOMAIN dir \ {Temp(w)}) \cup {Target} /\ g[Target] = w
      /\ \A m \in DOMAIN dir \ {Temp(w), Target} : g[m] = dir[m]
  <2>1. Temp(w) # Target
    BY NamesDiffer
  <2> QED
    BY <1>0, <1>2, <2>1, TakenOut DEF Moved, Written
<1>4. Named(g)'
  BY <1>2, <1>3, NamesDiffer DEF Named, Early
<1>5. Sound(g)'
  <2>1. Fine(g[Target])' /\ Copied(g)'
    BY <1>2, <1>3 DEF Fine, Copied, Whole, Pending
  <2> QED
    BY <2>1 DEF Sound
<1>6. WriterKnows'
  BY <1>1, <1>2, <1>3 DEF WriterKnows, Pending, Whole
<1> QED
  BY <1>1, <1>2, <1>4, <1>5, <1>6, FolderStep DEF Writing, Early, Pending, Whole

LEMMA RenameKeeps == ASSUME FileInv, RenameTemp \/ MoveIn PROVE FileInv'
<1>1. UNCHANGED <<torn, synced, w, entries, rolled, last>> /\ Target \notin entries
  BY DEF RenameTemp, MoveIn, Quiet, FileInv
<1>2. CASE Folder(Moved(dir, Temp(w), Target)) /\ step \in {"rename", "movein"} /\ step' \in {"syncdir", "removeold"}
  BY <1>1, <1>2, InPlace
<1>3. CASE /\ UNCHANGED <<dir, disk>>
           /\ (step = "rename" /\ step' = "aside") \/ (step = "movein" /\ step' = "restore")
  <2>1. WriterKnows'
    BY <1>1, <1>3 DEF WriterKnows, Pending, FileInv, Whole, Fine
  <2> QED
    BY <1>1, <1>3, <2>1, StillStep DEF Whole, Writing, Early, Pending
<1> QED
  BY <1>2, <1>3 DEF RenameTemp, MoveIn

LEMMA OutKeeps == ASSUME FileInv, MoveOut PROVE FileInv'
<1>1. step = "aside" /\ UNCHANGED <<torn, synced, w, entries, rolled, last>> /\ Target \notin entries
  BY DEF MoveOut, Quiet, FileInv
<1>2. CASE UNCHANGED <<dir, disk>> /\ step' = "drop"
  <2>1. WriterKnows'
    BY <1>1, <1>2 DEF WriterKnows, Pending, FileInv
  <2> QED
    BY <1>1, <1>2, <2>1, StillStep DEF Whole, Writing, Early, Pending
<1>3. CASE step' = "movein" /\ Target \in DOMAIN dir /\ Folder(Moved(dir, Target, Aside(w)))
  <2>0. PICK g : g = Moved(dir, Target, Aside(w))
    OBVIOUS
  <2>1. dir' = g /\ disk' = disk \cup {g}
    BY <1>3, <2>0 DEF Folder
  <2>2. /\ w \in Nat /\ last \in None..w /\ last < w /\ Named(dir) /\ Sound(dir)
        /\ Temp(w) \in DOMAIN dir /\ dir[Temp(w)] = w /\ Whole(w)
    BY <1>1 DEF FileInv, Writing, WriterKnows, Pending
  <2>3. /\ Aside(w) \notin DOMAIN dir /\ dir[Target] # w
        /\ \A n \in DOMAIN dir \ {Temp(w)} : dir[n] # w
    BY <1>1, <1>3, <2>2, NamesDiffer DEF Named, Early
  <2>4. /\ DOMAIN g = (DOMAIN dir \ {Target}) \cup {Aside(w)} /\ g[Aside(w)] = dir[Target]
        /\ \A m \in DOMAIN dir \ {Aside(w), Target} : g[m] = dir[m]
    <3>1. Target # Aside(w)
      BY NamesDiffer
    <3> QED
      BY <1>3, <2>0, <3>1, TakenOut DEF Moved, Written
  <2>5. Fine(dir[Target]) /\ w # 0
    BY <1>3, <2>2, <2>3 DEF Sound, Named
  <2>6. Named(g)'
    BY <1>1, <1>3, <2>2, <2>3, <2>4, <2>5, NamesDiffer DEF Named, Early
  <2>7. Sound(g)'
    <3>1. Target \notin DOMAIN g
      BY <2>4, NamesDiffer
    <3>2. Copied(dir) => Copied(g)'
      BY <1>1, <2>3, <2>4, NamesDiffer DEF Copied, Whole, Pending
    <3>3. Spoiled(dir) => Spoiled(g)'
      BY <1>1, <1>3, <2>2, <2>4, <2>5, <3>1 DEF Spoiled
    <3> QED
      BY <1>1, <2>2, <3>1, <3>2, <3>3 DEF Sound
  <2>8. WriterKnows'
    BY <1>1, <1>3, <2>1, <2>2, <2>3, <2>4, <2>5, NamesDiffer DEF WriterKnows, Pending, Whole, Fine
  <2> QED
    BY <1>1, <1>3, <2>1, <2>2, <2>6, <2>7, <2>8, FolderStep DEF Writing, Early, Pending, Whole
<1> QED
  BY <1>2, <1>3 DEF MoveOut

LEMMA RemoveKeeps == ASSUME FileInv, RemoveOld PROVE FileInv'
<1>1. /\ step = "removeold" /\ step' = "syncdir" /\ Target \notin entries
      /\ UNCHANGED <<torn, synced, w, entries, rolled, last>>
  BY DEF RemoveOld, Quiet, At, FileInv
<1>2. CASE UNCHANGED <<dir, disk>>
  <2>1. WriterKnows'
    BY <1>1, <1>2 DEF WriterKnows, Pending, FileInv, Whole
  <2> QED
    BY <1>1, <1>2, <2>1, StillStep DEF Whole, Writing, Early, Pending
<1>3. CASE Folder(Without(dir, Aside(w)))
  <2>0. PICK g : g = Without(dir, Aside(w))
    OBVIOUS
  <2>1. dir' = g /\ disk' = disk \cup {g}
    BY <1>3, <2>0 DEF Folder
  <2>2. /\ w \in Nat /\ last \in None..w /\ last < w /\ Named(dir)
        /\ Target \in DOMAIN dir /\ dir[Target] = w /\ Whole(w)
    BY <1>1 DEF FileInv, Writing, WriterKnows
  <2>3. DOMAIN g = DOMAIN dir \ {Aside(w)} /\ \A m \in DOMAIN g : g[m] = dir[m]
    BY <2>0, TakenOut
  <2>4. Target \in DOMAIN g /\ g[Target] = w
    BY <2>2, <2>3, NamesDiffer
  <2>5. Named(g)'
    BY <1>1, <2>2, <2>3 DEF Named, Early
  <2>6. Sound(g)'
    <3>1. Fine(g[Target])' /\ Copied(g)'
      BY <1>1, <2>2, <2>4 DEF Fine, Copied, Whole, Pending
    <3> QED
      BY <3>1 DEF Sound
  <2>7. WriterKnows'
    BY <1>1, <2>1, <2>2, <2>4 DEF WriterKnows, Pending, Whole
  <2> QED
    BY <1>1, <2>1, <2>2, <2>5, <2>6, <2>7, FolderStep DEF Writing, Early, Pending, Whole
<1> QED
  BY <1>2, <1>3 DEF RemoveOld

LEMMA RestoreKeeps == ASSUME FileInv, Restore PROVE FileInv'
<1>1. /\ step = "restore" /\ step' = "drop" /\ Target \notin entries
      /\ UNCHANGED <<torn, synced, w, entries, rolled, last>>
  BY DEF Restore, Quiet, At, FileInv
<1>2. CASE UNCHANGED <<dir, disk>>
  <2>1. WriterKnows'
    BY <1>1, <1>2 DEF WriterKnows, Pending, FileInv
  <2> QED
    BY <1>1, <1>2, <2>1, StillStep DEF Whole, Writing, Early, Pending
<1>3. CASE Folder(Moved(dir, Aside(w), Target))
  <2>0. PICK g : g = Moved(dir, Aside(w), Target)
    OBVIOUS
  <2>1. dir' = g /\ disk' = disk \cup {g}
    BY <1>3, <2>0 DEF Folder
  <2>2. /\ w \in Nat /\ last \in None..w /\ last < w /\ Named(dir)
        /\ Temp(w) \in DOMAIN dir /\ dir[Temp(w)] = w
        /\ Aside(w) \in DOMAIN dir /\ dir[Aside(w)] # w /\ Fine(dir[Aside(w)])
    BY <1>1 DEF FileInv, Writing, WriterKnows, Pending
  <2>3. /\ DOMAIN g = (DOMAIN dir \ {Aside(w)}) \cup {Target} /\ g[Target] = dir[Aside(w)]
        /\ \A m \in DOMAIN dir \ {Aside(w), Target} : g[m] = dir[m]
    <3>1. Target # Aside(w)
      BY NamesDiffer
    <3> QED
      BY <2>0, <3>1, TakenOut DEF Moved, Written
  <2>4. Named(g)'
    BY <1>1, <2>2, <2>3, NamesDiffer DEF Named, Early
  <2>5. Sound(g)'
    <3>1. Fine(g[Target])'
      BY <1>1, <2>2, <2>3 DEF Fine, Whole
    <3>2. Copied(g)' \/ Spoiled(g)'
      BY <1>1, <2>2, <2>3 DEF Fine, Whole, Copied, Spoiled
    <3> QED
      BY <3>1, <3>2 DEF Sound
  <2>6. WriterKnows'
    BY <1>1, <2>1, <2>2, <2>3, NamesDiffer DEF WriterKnows, Pending
  <2> QED
    BY <1>1, <2>1, <2>2, <2>4, <2>5, <2>6, FolderStep DEF Writing, Early, Pending, Whole
<1> QED
  BY <1>2, <1>3 DEF Restore

LEMMA DropKeeps == ASSUME FileInv, DropTemp PROVE FileInv'
<1>1. /\ step = "drop" /\ step' = "idle" /\ Target \notin entries
      /\ UNCHANGED <<torn, synced, w, entries, rolled, last>>
  BY DEF DropTemp, Quiet, At, FileInv
<1>2. WriterKnows'
  BY <1>1 DEF WriterKnows, Pending
<1>3. CASE UNCHANGED <<dir, disk>>
  BY <1>1, <1>2, <1>3, StillStep DEF Whole, Writing, Early, Pending
<1>4. CASE Folder(Without(dir, Temp(w)))
  <2>0. PICK g : g = Without(dir, Temp(w))
    OBVIOUS
  <2>1. dir' = g /\ disk' = disk \cup {g}
    BY <1>4, <2>0 DEF Folder
  <2>2. /\ w \in Nat /\ last \in None..w /\ last < w /\ Named(dir) /\ Sound(dir)
        /\ Temp(w) \in DOMAIN dir /\ dir[Temp(w)] = w
    BY <1>1 DEF FileInv, Writing, WriterKnows, Pending
  <2>3. DOMAIN g = DOMAIN dir \ {Temp(w)} /\ \A m \in DOMAIN g : g[m] = dir[m]
    BY <2>0, TakenOut
  <2>4. Named(g)'
    BY <1>1, <2>2, <2>3 DEF Named, Early
  <2>5. Sound(g)'
    <3>1. Target \in DOMAIN g => Fine(g[Target])'
      BY <1>1, <2>2, <2>3 DEF Sound, Fine, Whole
    <3>2. Copied(dir) => Copied(g)'
      BY <1>1, <2>2, <2>3 DEF Copied, Whole, Pending
    <3>3. Spoiled(dir) => Spoiled(g)'
      BY <1>1, <2>3, NamesDiffer DEF Spoiled
    <3> QED
      BY <1>1, <2>2, <3>1, <3>2, <3>3 DEF Sound
  <2> QED
    BY <1>1, <1>2, <2>1, <2>2, <2>4, <2>5, FolderStep DEF Writing, Early, Pending, Whole
<1> QED
  BY <1>3, <1>4 DEF DropTemp

LEMMA ConfirmKeeps == ASSUME FileInv, SyncDir PROVE FileInv'
<1>1. /\ step = "syncdir" /\ step' = "idle" /\ Target \notin entries
      /\ UNCHANGED <<dir, torn, synced, w, entries, rolled>>
  BY DEF SyncDir, At, FileInv
<1>2. WriterKnows'
  BY <1>1 DEF WriterKnows, Pending
<1>3. CASE UNCHANGED <<disk, last>>
  BY <1>1, <1>2, <1>3, StillStep DEF Whole, Writing, Early, Pending
<1>4. CASE disk' = {dir} /\ last' = w
  <2>1. w \in Nat /\ Named(dir) /\ Target \in DOMAIN dir /\ dir[Target] = w /\ Whole(w)
    BY <1>1 DEF FileInv, WriterKnows
  <2>2. Named(dir)'
    BY <1>1, <2>1 DEF Named, Early
  <2>3. Fine(dir[Target])' /\ Copied(dir)'
    BY <1>1, <1>4, <2>1 DEF Fine, Whole, Copied, Pending
  <2>4. Sound(dir)'
    BY <2>3 DEF Sound
  <2>5. last' \in None..w' /\ \A f \in disk' : f = dir /\ Target \in DOMAIN f /\ f[Target] = w /\ Whole(w)'
    BY <1>1, <1>4, <2>1 DEF None, Whole
  <2> QED
    BY <1>1, <1>2, <1>4, <2>1, <2>2, <2>4, <2>5 DEF FileInv, Writing
<1> QED
  BY <1>3, <1>4 DEF SyncDir

LEMMA DeleteKeeps == ASSUME FileInv, DeleteFile PROVE FileInv'
<1>0. PICK g : g = Without(dir, Target)
  OBVIOUS
<1>1. /\ step = "idle" /\ step' = "idle" /\ Target \notin entries /\ last' = None
      /\ dir' = g /\ disk' = disk \cup {g}
      /\ UNCHANGED <<torn, synced, w, entries, rolled>>
  BY <1>0 DEF DeleteFile, At, FileInv, Folder
<1>2. WriterKnows'
  BY <1>1 DEF WriterKnows, Pending
<1>3. w \in Nat /\ last \in None..w /\ \A f \in disk : Named(f) /\ Sound(f)
  BY DEF FileInv
<1>4. DOMAIN g = DOMAIN dir \ {Target} /\ \A m \in DOMAIN g : g[m] = dir[m]
  BY <1>0, TakenOut
<1>5. ASSUME NEW f \in disk PROVE Named(f)' /\ Sound(f)'
  <2>1. Named(f)' /\ \A n \in DOMAIN f : f[n] \in 0..w
    BY <1>1, <1>3 DEF Named, Early
  <2>2. Target \in DOMAIN f => Fine(f[Target])'
    BY <1>1, <1>3, <2>1 DEF Sound, Fine, Whole, None
  <2> QED
    BY <1>1, <2>1, <2>2 DEF Sound
<1>6. Named(g)' /\ Sound(g)'
  <2>1. Named(dir)
    BY DEF FileInv
  <2>2. Named(g)'
    BY <1>1, <1>4, <2>1 DEF Named, Early
  <2> QED
    BY <1>1, <1>4, <2>2 DEF Sound
<1>7. last' \in None..w' /\ last' # w'
  BY <1>1, <1>3 DEF None
<1> QED
  BY <1>1, <1>2, <1>3, <1>5, <1>6, <1>7 DEF FileInv, Writing

LEMMA DownKeeps == ASSUME FileInv, Open \/ CleanDone \/ ProcessDies PROVE FileInv'
<1>1. /\ UNCHANGED <<dir, disk, torn, synced, w, last, rolled>>
      /\ step' \in {"clean", "idle", "down"}
  BY DEF Open, CleanDone, ProcessDies, Die, At
<1>2. Target \notin entries'
  BY DEF Open, CleanDone, ProcessDies, Die, FileInv
<1>3. WriterKnows'
  BY <1>1 DEF WriterKnows, Pending
<1> QED
  BY <1>1, <1>2, <1>3, StillStep DEF Whole, Writing, Early, Pending

LEMMA PowerKeeps == ASSUME FileInv, PowerLoss PROVE FileInv'
<1>1. PICK lost \in SUBSET (0..w \ synced) : torn' = torn \cup lost
  BY DEF PowerLoss
<1>2. /\ step' = "down" /\ synced' = 0..w /\ UNCHANGED <<w, last, rolled>>
      /\ dir' \in disk /\ disk' = {dir'} /\ entries' = {}
  BY DEF PowerLoss, Die
<1>3. PICK g \in disk : dir' = g
  BY <1>2
<1>4. \A f \in disk : \A n \in DOMAIN f : f[n] \in 0..w
  BY DEF FileInv, Named
<1>5. \A f \in disk : \A n \in DOMAIN f : Whole(f[n]) => Whole(f[n])'
  BY <1>1, <1>2, <1>4 DEF Whole
<1>6. last = w => Target \in DOMAIN g /\ g[Target] = w
  BY <1>3 DEF FileInv
<1>7. WriterKnows'
  BY <1>2 DEF WriterKnows, Pending
<1>8. g \in disk' /\ disk' \subseteq disk \cup {g}
  BY <1>2, <1>3
<1> QED
  BY <1>2, <1>3, <1>5, <1>6, <1>7, <1>8, FolderStep DEF Writing, Early, Pending

\* The cleanup of one entry: a leftover beside a target goes, and one without it becomes the target.
LEMMA CleanKeeps == ASSUME FileInv, CleanOne PROVE FileInv'
<1>1. PICK n \in entries :
         /\ entries' = entries \ {n}
         /\ \/ Folder(IF Target \in DOMAIN dir THEN Without(dir, n) ELSE Repaired(n)) /\ n \in DOMAIN dir
            \/ UNCHANGED <<dir, disk>>
  BY DEF CleanOne
<1>2. /\ step = "clean" /\ step' = "clean" /\ UNCHANGED <<torn, synced, w, last>>
      /\ rolled' = rolled \cup (Held(dir') \ Held(dir))
      /\ n # Target /\ Target \notin entries' /\ w \in Nat /\ last \in None..w
      /\ Named(dir) /\ Sound(dir) /\ (last = w => Target \in DOMAIN dir /\ dir[Target] = w)
  BY <1>1 DEF CleanOne, FileInv
<1>3. WriterKnows'
  BY <1>2 DEF WriterKnows, Pending
<1>4. CASE UNCHANGED <<dir, disk>>
  <2>1. rolled' = rolled
    BY <1>2, <1>4
  <2> QED
    BY <1>2, <1>3, <1>4, <2>1, StillStep DEF Whole, Writing, Early, Pending
<1>5. CASE Target \in DOMAIN dir /\ Folder(Without(dir, n)) /\ n \in DOMAIN dir
  <2>0. PICK g : g = Without(dir, n)
    OBVIOUS
  <2>1. dir' = g /\ disk' = disk \cup {g}
    BY <1>5, <2>0 DEF Folder
  <2>2. DOMAIN g = DOMAIN dir \ {n} /\ \A m \in DOMAIN g : g[m] = dir[m]
    BY <2>0, TakenOut
  <2>3. Named(g)'
    BY <1>2, <2>2 DEF Named, Early
  <2>4. rolled \subseteq rolled' /\ Target \in DOMAIN g /\ g[Target] = dir[Target] /\ Fine(g[Target])'
    BY <1>2, <1>5, <2>2 DEF Sound, Fine, Whole
  <2>5. Copied(g)' \/ Spoiled(g)'
    BY <1>2, <2>4 DEF Fine, Whole, Copied, Spoiled, Pending
  <2>6. Sound(g)'
    BY <2>4, <2>5 DEF Sound
  <2> QED
    BY <1>2, <1>3, <2>1, <2>3, <2>4, <2>6, FolderStep DEF Writing, Early, Pending, Whole
<1>6. CASE Target \notin DOMAIN dir /\ Folder(Repaired(n)) /\ n \in DOMAIN dir
  <2>0. PICK g : g = Repaired(n)
    OBVIOUS
  <2>1. dir' = g /\ disk' = disk \cup {g}
    BY <1>6, <2>0 DEF Folder
  <2>2. CASE g = dir
    <3>1. rolled' = rolled
      BY <1>2, <2>1, <2>2
    <3>2. UNCHANGED <<dir, disk>>
      BY <2>1, <2>2 DEF FileInv
    <3> QED
      BY <1>2, <1>3, <3>1, <3>2, StillStep DEF Whole, Writing, Early, Pending
  <2>3. CASE g # dir
    <3>1. /\ Target \in DOMAIN g /\ g[Target] = dir[n]
          /\ \A m \in DOMAIN g \ {Target} : m \in DOMAIN dir /\ g[m] = dir[m]
      <4>0. PICK h : h = Moved(dir, n, Target)
        OBVIOUS
      <4>1. /\ Target \in DOMAIN h /\ h[Target] = dir[n]
            /\ \A m \in DOMAIN h \ {Target} : m \in DOMAIN dir /\ h[m] = dir[m]
        <5>0. PICK rest : rest = Without(dir, n)
          OBVIOUS
        <5>1. DOMAIN rest = DOMAIN dir \ {n} /\ \A m \in DOMAIN rest : rest[m] = dir[m]
          BY <5>0, TakenOut
        <5>2. h = Written(rest, Target, dir[n])
          BY <4>0, <5>0 DEF Moved
        <5> QED
          BY <5>1, <5>2 DEF Written
      <4>2. g = h \/ g = Without(h, Aside(n[2]))
        BY <2>0, <2>3, <4>0 DEF Repaired
      <4>3. Target # Aside(n[2])
        BY NamesDiffer
      <4> QED
        <5>1. CASE g = h
          BY <4>1, <5>1
        <5>2. CASE g = Without(h, Aside(n[2]))
          <6>1. DOMAIN g = DOMAIN h \ {Aside(n[2])} /\ \A m \in DOMAIN g : g[m] = h[m]
            BY <5>2, TakenOut
          <6> QED
            BY <4>1, <4>3, <6>1
        <5> QED
          BY <4>2, <5>1, <5>2
    <3>2. Held(dir) = {} /\ Held(g) = {g[Target]}
      BY <1>6, <3>1 DEF Held
    <3>3. rolled \subseteq rolled' /\ g[Target] \in rolled'
      BY <1>2, <2>1, <3>2
    <3>4. Named(g)'
      BY <1>2, <1>6, <3>1 DEF Named, Early
    <3>5. Sound(g)'
      BY <3>1, <3>3 DEF Sound, Fine, Spoiled
    <3> QED
      BY <1>2, <1>3, <1>6, <2>1, <3>1, <3>3, <3>4, <3>5, FolderStep DEF Writing, Early, Pending, Whole
  <2> QED
    BY <2>2, <2>3
<1> QED
  BY <1>1, <1>4, <1>5, <1>6

LEMMA FileInductive == FileSpec => []FileInv
<1>1. FileInv /\ [FileNext]_fileVars => FileInv'
  <2> SUFFICES ASSUME FileInv, [FileNext]_fileVars PROVE FileInv'
    OBVIOUS
  <2>1. CASE FileNext
    BY <2>1, BeginKeeps, CreateKeeps, BytesKeep, RenameKeeps, OutKeeps, RemoveKeeps, RestoreKeeps,
       DropKeeps, ConfirmKeeps, DeleteKeeps, DownKeeps, CleanKeeps, PowerKeeps DEF FileNext
  <2>2. CASE UNCHANGED fileVars
    BY <2>2 DEF fileVars, FileInv, Named, Sound, Copied, Spoiled, Fine, Whole, WriterKnows
  <2> QED
    BY <2>1, <2>2
<1> QED
  BY InitFile, <1>1, PTL DEF FileSpec

\* A confirmed write stays whole at the target until the next one begins or the document is deleted.
THEOREM ConfirmedStays == FileSpec => []ConfirmedKept
<1>1. FileInv => ConfirmedKept
  BY DEF FileInv, ConfirmedKept, Whole
<1> QED
  BY FileInductive, <1>1, PTL

\* Torn bytes at the target are those of a temporary file that a cleanup completed.
THEOREM TornOnlyByCleanup == FileSpec => []OnlyCleanupTears
<1>1. FileInv => OnlyCleanupTears
  BY DEF FileInv, Sound, Fine, Whole, OnlyCleanupTears, Held
<1> QED
  BY FileInductive, <1>1, PTL

\* No write, failed replacement or crash by itself loses every whole copy of the last confirmed write.
THEOREM CopyStays == FileSpec => []CopyLostOnlyToCleanup
<1>1. FileInv => CopyLostOnlyToCleanup
  BY DEF FileInv, Sound, Copied, Whole, CopyLostOnlyToCleanup, CopyKept
<1> QED
  BY FileInductive, <1>1, PTL
=============================================================================

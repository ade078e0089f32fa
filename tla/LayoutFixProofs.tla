------------------------- MODULE LayoutFixProofs ---------------------------
(* What holds of the layout fix for every plan, every project and every     *)
(* number of failures, crashes and changes by other programs.               *)
EXTENDS LayoutFix, Deploy, TLAPS, SequenceTheorems, FiniteSetTheorems, WellFoundedInduction

\* Nothing keeps an undo from an apply that still runs, and `concurrent` remembers when one began so. Most
\* of what follows holds until then, and an invariant Inv is proved as concurrent \/ Inv: each step that
\* ends with ~concurrent keeps it.
LEMMA ConcurrentStays ==
    ASSUME concurrent, [Next]_vars
    PROVE  concurrent'
  BY DEF Next, vars, budget, disk, BeginApply, EndApply, SkipItem, MakeFolder, CheckMove, RefuseMove, MakeParents,
         LinkFile, UnlinkFile, LoseSource, RenameFolder, JournalEdit, CheckText, WriteText, RefuseLate, FailItem,
         RecordDone, CrashApply, Cancel, BeginUndo, LinkBack, UnlinkBack, FailBack, RenameBack, RemoveCreated,
         RemoveFolders, RestoreText, RefuseStep, FinishUndo, CrashUndo, ForeignChange

\* There is no journal before the apply, and one at most. An undo runs only while no apply runs.
UndoInv ==
    /\ \A j, j2 \in journal : j = j2
    /\ apc = "idle" => journal = {} /\ upc = "idle"
    /\ UndoRuns => ~ApplyRuns

LEMMA UndoInvInit == Init => UndoInv
  BY DEF Init, UndoInv, UndoRuns

\* The steps of the apply need that it runs; they write its own copy of the journal.
ApplyStep ==
    \/ EndApply \/ SkipItem \/ MakeFolder
    \/ CheckMove \/ RefuseMove \/ MakeParents \/ LinkFile \/ UnlinkFile \/ LoseSource \/ RenameFolder
    \/ JournalEdit \/ CheckText \/ WriteText \/ RefuseLate \/ FailItem \/ RecordDone \/ CrashApply

\* The steps of the undo, its start excepted, need that it runs.
UndoStep ==
    \/ LinkBack \/ UnlinkBack \/ FailBack \/ RenameBack \/ RemoveCreated \/ RemoveFolders
    \/ RestoreText \/ RefuseStep \/ CrashUndo

LEMMA ApplyStepShape ==
  ASSUME ApplyStep, UndoInv
  PROVE  /\ ApplyRuns /\ apc' # "idle" /\ upc' = upc /\ umem' = umem
         /\ journal' = journal \/ journal' = {mem'}
<1> USE DEF undoing, UndoInv, ApplyRuns
<1>1. CASE EndApply
  BY <1>1 DEF EndApply
<1>2. CASE SkipItem
  BY <1>2 DEF SkipItem, Record, Journaled
<1>3. CASE MakeFolder
  BY <1>3 DEF MakeFolder, CarryOut
<1>4. CASE CheckMove
  BY <1>4 DEF CheckMove, CarryOut, Journaled
<1>5. CASE RefuseMove
  BY <1>5 DEF RefuseMove, CarryOut, Record, Journaled
<1>6. CASE MakeParents \/ LinkFile \/ UnlinkFile \/ RenameFolder
  BY <1>6 DEF MakeParents, LinkFile, UnlinkFile, RenameFolder
<1>7. CASE JournalEdit
  BY <1>7 DEF JournalEdit, CarryOut, Journaled
<1>8. CASE CheckText \/ WriteText
  BY <1>8 DEF CheckText, WriteText
<1>9. CASE RefuseLate
  BY <1>9 DEF RefuseLate, CarryOut, Record, Journaled
<1>10. CASE FailItem \/ LoseSource
  BY <1>10 DEF FailItem, LoseSource, CarryOut, Record, Journaled
<1>11. CASE RecordDone \/ CrashApply
  BY <1>11 DEF RecordDone, CrashApply, Journaled
<1> QED
  BY <1>1, <1>2, <1>3, <1>4, <1>5, <1>6, <1>7, <1>8, <1>9, <1>10, <1>11 DEF ApplyStep

LEMMA UndoStepShape ==
  ASSUME UndoStep, UndoInv
  PROVE  /\ UndoRuns /\ apc' = apc /\ mem' = mem /\ umem' = umem /\ journal' = journal
         /\ upc' # "idle"
<1> USE DEF applying, UndoRuns
<1>1. CASE LinkBack \/ UnlinkBack \/ FailBack \/ RenameBack
  BY <1>1 DEF LinkBack, UnlinkBack, FailBack, RenameBack, CanMoveBack
<1>2. CASE RemoveCreated \/ RemoveFolders \/ RestoreText
  BY <1>2 DEF RemoveCreated, RemoveFolders, RestoreText, NextStep
<1>3. CASE RefuseStep \/ CrashUndo
  BY <1>3 DEF RefuseStep, CrashUndo
<1> QED
  BY <1>1, <1>2, <1>3 DEF UndoStep

LEMMA NextCases ==
  ASSUME Next
  PROVE  \/ ApplyStep \/ UndoStep \/ BeginUndo \/ FinishUndo \/ Cancel \/ ForeignChange
         \/ \E selected \in SUBSET DOMAIN Plan : BeginApply(selected)
  BY DEF Next, ApplyStep, UndoStep

LEMMA FinishUndoShape ==
  ASSUME FinishUndo, UndoInv
  PROVE  /\ UndoRuns /\ apc' = apc /\ mem' = mem /\ umem' = umem /\ upc' = "undone"
         /\ \A j, j2 \in journal' : j = j2
  BY DEF FinishUndo, UndoInv, UndoRuns, applying

LEMMA BeginUndoShape ==
  ASSUME BeginUndo, UndoInv, ~concurrent'
  PROVE  ~ApplyRuns /\ apc' = apc /\ mem' = mem /\ journal' = journal /\ journal # {}
  BY DEF BeginUndo, UndoInv, applying

LEMMA BeginApplyShape ==
  ASSUME NEW selected, BeginApply(selected), UndoInv
  PROVE  /\ apc = "idle" /\ upc' = upc /\ umem' = umem /\ apc' = "next"
         /\ journal' = {mem'}
  BY DEF BeginApply, UndoInv, undoing

LEMMA UndoInvStep ==
  ASSUME ~concurrent', UndoInv, [Next]_vars
  PROVE  UndoInv'
<1> USE DEF UndoInv, UndoRuns, ApplyRuns
<1>1. CASE ApplyStep
  BY <1>1, ApplyStepShape
<1>2. CASE UndoStep
  BY <1>2, UndoStepShape
<1>3. CASE BeginUndo
  BY <1>3, BeginUndoShape
<1>4. CASE FinishUndo
  BY <1>4, FinishUndoShape
<1>5. CASE Cancel \/ ForeignChange \/ UNCHANGED vars
  BY <1>5 DEF Cancel, ForeignChange, vars, applying, undoing
<1>6. ASSUME NEW selected \in SUBSET DOMAIN Plan, BeginApply(selected) PROVE UndoInv'
  BY <1>6, BeginApplyShape
<1> QED
  BY <1>1, <1>2, <1>3, <1>4, <1>5, <1>6, NextCases
-----------------------------------------------------------------------------
(* Paths. A prefix and a rebased path, name by name. *)

LEMMA PrefixNames ==
    ASSUME NEW s \in Seq(STRING), NEW t \in Seq(STRING)
    PROVE  IsPrefix(s, t) <=> Len(s) <= Len(t) /\ \A i \in 1..Len(s) : s[i] = t[i]
<1>1. CASE Len(s) <= Len(t)
  <2>1. SubSeq(s, 1, Len(s)) = s
    OBVIOUS
  <2>2. /\ SubSeq(t, 1, Len(s)) \in Seq(STRING) /\ Len(SubSeq(t, 1, Len(s))) = Len(s)
        /\ \A i \in 1..Len(s) : SubSeq(t, 1, Len(s))[i] = t[i]
    BY <1>1
  <2> QED
    BY <1>1, <2>1, <2>2 DEF IsPrefix
<1>2. CASE ~(Len(s) <= Len(t))
  BY <1>2 DEF IsPrefix
<1> QED
  BY <1>1, <1>2

LEMMA SamePath ==
    ASSUME NEW s \in Seq(STRING), NEW t \in Seq(STRING), Len(s) = Len(t),
           \A i \in 1..Len(s) : s[i] = t[i]
    PROVE  s = t
  OBVIOUS

Rebased(r, p, from, to) ==
    /\ r \in Seq(STRING)
    /\ Len(r) = Len(to) + Len(p) - Len(from)
    /\ \A i \in 1..Len(to) : r[i] = to[i]
    /\ \A i \in Len(to) + 1..Len(to) + Len(p) - Len(from) : r[i] = p[i - Len(to) + Len(from)]

LEMMA RebaseNames ==
    ASSUME NEW p \in Seq(STRING), NEW from \in Seq(STRING), NEW to \in Seq(STRING), IsPrefix(from, p)
    PROVE  Rebased(Rebase(p, from, to), p, from, to)
<1>1. Len(from) <= Len(p)
  BY DEF IsPrefix
<1>2. PICK rest : rest = SubSeq(p, Len(from) + 1, Len(p))
  OBVIOUS
<1>3. /\ rest \in Seq(STRING) /\ Len(rest) = Len(p) - Len(from)
      /\ \A i \in 1..Len(rest) : rest[i] = p[i + Len(from)]
  BY <1>1, <1>2
<1>4. PICK r : r = to \o rest
  OBVIOUS
<1>9. Rebase(p, from, to) = r
  BY <1>2, <1>4 DEF Rebase
<1>10. Len(to) \in Nat /\ Len(rest) \in Nat /\ rest \in Seq(STRING)
  BY <1>3
<1>5. /\ r \in Seq(STRING) /\ Len(r) = Len(to) + Len(rest)
      /\ \A i \in 1..Len(to) + Len(rest) : r[i] = IF i <= Len(to) THEN to[i] ELSE rest[i - Len(to)]
  <2>1. /\ to \o rest \in Seq(STRING) /\ Len(to \o rest) = Len(to) + Len(rest)
        /\ \A i \in 1..Len(to) + Len(rest) :
              (to \o rest)[i] = IF i <= Len(to) THEN to[i] ELSE rest[i - Len(to)]
    BY <1>10, ConcatProperties, Zenon
  <2> QED
    BY <1>4, <2>1
<1>6. \A i \in 1..Len(to) : r[i] = to[i]
  BY <1>10, <1>5
<1>7. \A i \in Len(to) + 1..Len(to) + Len(rest) : r[i] = rest[i - Len(to)]
  BY <1>3, <1>5
<1>8. ASSUME NEW i \in Len(to) + 1..Len(to) + Len(p) - Len(from)
      PROVE  r[i] = p[i - Len(to) + Len(from)]
  <2>1. i - Len(to) \in 1..Len(rest)
    BY <1>1, <1>3, <1>8
  <2> QED
    BY <1>1, <1>3, <1>7, <2>1
<1> QED
  BY <1>1, <1>3, <1>5, <1>6, <1>8, <1>9 DEF Rebased

LEMMA AncestorNames ==
    ASSUME NEW p \in Seq(STRING), NEW a
    PROVE  a \in Ancestors(p) <=> a \in Path /\ IsPrefix(a, p) /\ Len(a) < Len(p)
<1>1. ASSUME a \in Ancestors(p) PROVE a \in Path /\ IsPrefix(a, p) /\ Len(a) < Len(p)
  <2>1. PICK k_ \in 1..Len(p) - 1 : a = SubSeq(p, 1, k_)
    BY <1>1 DEF Ancestors
  <2>2. a \in Seq(STRING) /\ Len(a) = k_ /\ \A i \in 1..k_ : a[i] = p[i]
    BY <2>1
  <2>3. a # <<>>
    <3>1. Len(a) # 0 /\ Len(<<>>) = 0
      BY <2>1, <2>2
    <3> QED
      BY <3>1
  <2>4. Len(a) \in Nat /\ Len(p) \in Nat /\ Len(a) < Len(p)
    BY <2>1, <2>2
  <2>5. IsPrefix(a, p)
    BY <2>2, <2>4, PrefixNames
  <2> QED
    BY <2>2, <2>3, <2>4, <2>5 DEF Path
<1>2. ASSUME a \in Path, IsPrefix(a, p), Len(a) < Len(p) PROVE a \in Ancestors(p)
  <2>1. a \in Seq(STRING) /\ Len(a) \in 1..Len(p) - 1
    BY <1>2 DEF Path
  <2>2. a = SubSeq(p, 1, Len(a))
    BY <1>2, <2>1, PrefixNames
  <2> QED
    BY <2>1, <2>2 DEF Ancestors
<1> QED
  BY <1>1, <1>2

LEMMA PrefixChain ==
    ASSUME NEW r \in Seq(STRING), NEW s \in Seq(STRING), NEW t \in Seq(STRING),
           IsPrefix(r, s), IsPrefix(s, t)
    PROVE  IsPrefix(r, t)
<1>1. /\ Len(r) <= Len(s) /\ \A i \in 1..Len(r) : r[i] = s[i]
      /\ Len(s) <= Len(t) /\ \A i \in 1..Len(s) : s[i] = t[i]
  BY PrefixNames
<1>2. Len(r) <= Len(t) /\ \A i \in 1..Len(r) : r[i] = t[i]
  BY <1>1
<1> QED
  BY <1>2, PrefixNames

\* What is below a folder that moves is below its new place, and goes back where it was.
LEMMA RebaseBack ==
    ASSUME NEW p \in Seq(STRING), NEW from \in Seq(STRING), NEW to \in Seq(STRING), IsPrefix(from, p)
    PROVE  /\ IsPrefix(to, Rebase(p, from, to))
           /\ Rebase(Rebase(p, from, to), to, from) = p
<1>1. PICK r : r = Rebase(p, from, to)
  OBVIOUS
<1>2. /\ r \in Seq(STRING) /\ Len(r) = Len(to) + Len(p) - Len(from)
      /\ \A i \in 1..Len(to) : r[i] = to[i]
      /\ \A i \in Len(to) + 1..Len(to) + Len(p) - Len(from) : r[i] = p[i - Len(to) + Len(from)]
  <2>1. Rebased(r, p, from, to)
    BY <1>1, RebaseNames
  <2> QED
    BY <2>1 DEF Rebased
<1>3. /\ Len(from) <= Len(p) /\ \A i \in 1..Len(from) : from[i] = p[i]
      /\ Len(from) \in Nat /\ Len(p) \in Nat /\ Len(to) \in Nat
  BY PrefixNames
<1>4. IsPrefix(to, r)
  BY <1>2, <1>3, PrefixNames
<1>5. PICK b : b = Rebase(r, to, from)
  OBVIOUS
<1>6. /\ b \in Seq(STRING) /\ Len(b) = Len(from) + Len(r) - Len(to)
      /\ \A i \in 1..Len(from) : b[i] = from[i]
      /\ \A i \in Len(from) + 1..Len(from) + Len(r) - Len(to) : b[i] = r[i - Len(from) + Len(to)]
  <2>1. Rebased(b, r, to, from)
    BY <1>2, <1>4, <1>5, RebaseNames
  <2> QED
    BY <2>1 DEF Rebased
<1>7. ASSUME NEW i \in 1..Len(p) PROVE b[i] = p[i]
  <2>1. CASE i <= Len(from)
    BY <1>3, <1>6, <2>1
  <2>2. CASE i > Len(from)
    <3>1. b[i] = r[i - Len(from) + Len(to)]
      BY <1>2, <1>3, <1>6, <2>2
    <3>2. PICK j : j = i - Len(from) + Len(to)
      OBVIOUS
    <3>3. j \in Len(to) + 1..Len(to) + Len(p) - Len(from) /\ j - Len(to) + Len(from) = i
      BY <1>3, <2>2, <3>2
    <3> QED
      BY <1>2, <3>1, <3>2, <3>3
  <2> QED
    BY <1>3, <2>1, <2>2
<1>8. b = p
  BY <1>2, <1>3, <1>6, <1>7, SamePath
<1> QED
  BY <1>1, <1>4, <1>5, <1>8

\* The folders on the way to a rebased path are on the way to the new place, or rebased themselves.
LEMMA RebasedAncestors ==
    ASSUME NEW p \in Seq(STRING), NEW from \in Path, NEW to \in Path, IsPrefix(from, p),
           NEW a \in Ancestors(Rebase(p, from, to)), a \notin Ancestors(to)
    PROVE  \E b \in Ancestors(p) : IsPrefix(from, b) /\ a = Rebase(b, from, to)
<1>0. from \in Seq(STRING) /\ to \in Seq(STRING)
  BY DEF Path
<1>1. PICK r : r = Rebase(p, from, to)
  OBVIOUS
<1>2. /\ r \in Seq(STRING) /\ Len(r) = Len(to) + Len(p) - Len(from)
      /\ \A i \in 1..Len(to) : r[i] = to[i]
      /\ \A i \in Len(to) + 1..Len(to) + Len(p) - Len(from) : r[i] = p[i - Len(to) + Len(from)]
  <2>1. Rebased(r, p, from, to)
    BY <1>0, <1>1, RebaseNames
  <2> QED
    BY <2>1 DEF Rebased
<1>3. /\ Len(from) <= Len(p) /\ \A i \in 1..Len(from) : from[i] = p[i]
      /\ Len(from) \in Nat /\ Len(p) \in Nat /\ Len(to) \in Nat
  BY <1>0, PrefixNames
<1>4. a \in Path /\ a \in Seq(STRING) /\ IsPrefix(a, r) /\ Len(a) < Len(r)
  BY <1>1, <1>2, AncestorNames DEF Path
<1>5. Len(a) \in Nat /\ \A i \in 1..Len(a) : a[i] = r[i]
  BY <1>2, <1>4, PrefixNames
<1>6. Len(to) <= Len(a)
  <2>1. SUFFICES ASSUME Len(a) < Len(to) PROVE FALSE
    BY <1>3, <1>5
  <2>2. \A i \in 1..Len(a) : a[i] = to[i]
    BY <1>2, <1>3, <1>5, <2>1
  <2>3. IsPrefix(a, to)
    BY <1>0, <1>4, <2>1, <2>2, PrefixNames
  <2> QED
    BY <1>0, <1>4, <2>1, <2>3, AncestorNames
<1>7. PICK m : m = Len(from) + Len(a) - Len(to)
  OBVIOUS
<1>8. m \in Nat /\ m < Len(p) /\ Len(from) <= m
  BY <1>2, <1>3, <1>4, <1>5, <1>6, <1>7
<1>9. PICK b : b = SubSeq(p, 1, m)
  OBVIOUS
<1>10. b \in Seq(STRING) /\ Len(b) = m /\ \A i \in 1..m : b[i] = p[i]
  BY <1>3, <1>8, <1>9
<1>11. IsPrefix(from, b)
  BY <1>0, <1>3, <1>8, <1>10, PrefixNames
<1>12. b \in Ancestors(p)
  <2>1. b # <<>>
    <3>1. Len(from) # 0
      BY <1>0 DEF Path
    <3>2. Len(b) # 0
      BY <1>3, <1>8, <1>10, <3>1
    <3> QED
      BY <3>2
  <2>2. IsPrefix(b, p)
    BY <1>3, <1>8, <1>10, PrefixNames
  <2> QED
    BY <1>8, <1>10, <2>1, <2>2, AncestorNames DEF Path
<1>13. PICK c : c = Rebase(b, from, to)
  OBVIOUS
<1>14. /\ c \in Seq(STRING) /\ Len(c) = Len(to) + Len(b) - Len(from)
       /\ \A i \in 1..Len(to) : c[i] = to[i]
       /\ \A i \in Len(to) + 1..Len(to) + Len(b) - Len(from) : c[i] = b[i - Len(to) + Len(from)]
  <2>1. Rebased(c, b, from, to)
    BY <1>0, <1>10, <1>11, <1>13, RebaseNames
  <2> QED
    BY <2>1 DEF Rebased
<1>15. Len(c) = Len(a)
  BY <1>3, <1>5, <1>7, <1>10, <1>14
<1>16. ASSUME NEW i \in 1..Len(a) PROVE a[i] = c[i]
  <2>1. CASE i <= Len(to)
    BY <1>2, <1>3, <1>5, <1>14, <2>1
  <2>2. CASE i > Len(to)
    <3>1. PICK j : j = i - Len(to) + Len(from)
      OBVIOUS
    <3>2. j \in 1..m /\ i \in Len(to) + 1..Len(to) + Len(p) - Len(from)
          /\ i \in Len(to) + 1..Len(to) + Len(b) - Len(from)
      BY <1>3, <1>5, <1>7, <1>8, <1>10, <2>2, <3>1
    <3>3. a[i] = p[j] /\ c[i] = b[j]
      BY <1>2, <1>5, <1>14, <3>1, <3>2
    <3> QED
      BY <1>10, <3>2, <3>3
  <2> QED
    BY <1>3, <1>5, <2>1, <2>2
<1>17. a = c
  BY <1>4, <1>14, <1>15, <1>16, SamePath
<1> QED
  BY <1>11, <1>12, <1>13, <1>17
-----------------------------------------------------------------------------
(* Trees. Each change of the disk leaves a closed tree closed, and keeps the content of every file. *)

Kept(t, r) == \A p \in Files(t) : \E q \in Files(r) : r[q] = t[p]

LEMMA WithFoldersSound ==
    ASSUME NEW t, Closed(t), NEW dst \in Path, CanMake(t, Ancestors(dst))
    PROVE  LET r == WithFolders(t, Ancestors(dst))
           IN  /\ Closed(r) /\ InFolders(r, dst) /\ Kept(t, r)
               /\ \A p \in DOMAIN t : p \in DOMAIN r /\ r[p] = t[p]
               /\ \A p \in DOMAIN r : p \in DOMAIN t \/ p \in Ancestors(dst)
<1> DEFINE r == WithFolders(t, Ancestors(dst))
<1>1. /\ DOMAIN r = DOMAIN t \cup Ancestors(dst)
      /\ \A p \in DOMAIN t : r[p] = t[p]
      /\ \A p \in Ancestors(dst) : r[p] = Folder
  BY DEF WithFolders, CanMake
<1>2. dst \in Seq(STRING) /\ Ancestors(dst) \subseteq Path
  BY AncestorNames DEF Path
<1>3. ASSUME NEW p \in DOMAIN r PROVE InFolders(r, p)
  <2>1. CASE p \in DOMAIN t
    BY <1>1, <2>1 DEF Closed, InFolders
  <2>2. CASE p \in Ancestors(dst)
    <3>1. ASSUME NEW a \in Ancestors(p) PROVE a \in Ancestors(dst)
      <4>1. p \in Seq(STRING) /\ IsPrefix(p, dst) /\ Len(p) < Len(dst)
        BY <1>2, <2>2, AncestorNames DEF Path
      <4>2. a \in Path /\ a \in Seq(STRING) /\ IsPrefix(a, p) /\ Len(a) < Len(p)
        BY <3>1, <4>1, AncestorNames DEF Path
      <4>3. IsPrefix(a, dst)
        BY <1>2, <4>1, <4>2, PrefixChain
      <4>4. Len(a) < Len(dst)
        BY <1>2, <4>1, <4>2
      <4> QED
        BY <1>2, <4>2, <4>3, <4>4, AncestorNames
    <3> QED
      BY <1>1, <3>1 DEF InFolders
  <2> QED
    BY <1>1, <2>1, <2>2
<1>4. Closed(r)
  BY <1>1, <1>2, <1>3 DEF Closed
<1>5. InFolders(r, dst) /\ Kept(t, r)
  BY <1>1 DEF InFolders, Kept, Files
<1> QED
  BY <1>1, <1>4, <1>5

LEMMA WithFileSound ==
    ASSUME NEW t, Closed(t), NEW dst \in Path, InFolders(t, dst), NEW content
    PROVE  LET r == WithFile(t, dst, content)
           IN  /\ Closed(r) /\ Kept(t, r)
               /\ DOMAIN r = DOMAIN t \cup {dst}
               /\ \A p \in DOMAIN t : r[p] = t[p]
               /\ dst \notin DOMAIN t => r[dst] = content
<1> DEFINE r == WithFile(t, dst, content)
<1>1. /\ DOMAIN r = DOMAIN t \cup {dst}
      /\ \A p \in DOMAIN t : r[p] = t[p]
      /\ dst \notin DOMAIN t => r[dst] = content
  BY DEF WithFile
<1>2. Closed(r)
  BY <1>1 DEF Closed, InFolders
<1>3. Kept(t, r)
  BY <1>1 DEF Kept, Files
<1> QED
  BY <1>1, <1>2, <1>3

LEMMA UnlinkedSound ==
    ASSUME NEW t, Closed(t), NEW path, t[path] # Folder
    PROVE  LET r == Unlinked(t, path)
           IN  /\ Closed(r) /\ DOMAIN r = DOMAIN t \ {path}
               /\ \A p \in DOMAIN r : r[p] = t[p]
  BY DEF Unlinked, Closed, InFolders

\* A rename takes along what is below the folder and leaves the rest where it is.
LEMMA RenamedSound ==
    ASSUME NEW t, Closed(t), NEW src \in DOMAIN t, NEW dst \in Path, dst \notin DOMAIN t,
           ~IsPrefix(src, dst), InFolders(t, dst)
    PROVE  LET r == Renamed(t, src, dst)
           IN  /\ Closed(r) /\ Kept(t, r)
               /\ \A p \in DOMAIN t : ~IsPrefix(src, p) => p \in DOMAIN r /\ r[p] = t[p]
<1> DEFINE r == Renamed(t, src, dst)
<1>1. /\ DOMAIN t \subseteq Path /\ \A p \in DOMAIN t : p \in Seq(STRING)
      /\ src \in Path /\ src \in Seq(STRING) /\ dst \in Seq(STRING)
  BY DEF Closed, Path
<1>2. DOMAIN r = {Rebase(q, src, dst) : q \in DOMAIN t}
  BY DEF Renamed
<1>3. \A p \in DOMAIN r : r[p] = IF IsPrefix(dst, p) THEN t[Rebase(p, dst, src)] ELSE t[p]
  BY DEF Renamed
<1>4. ASSUME NEW p \in DOMAIN t, ~IsPrefix(src, p) PROVE p \in DOMAIN r /\ r[p] = t[p]
  <2>1. p = Rebase(p, src, dst)
    BY <1>4 DEF Rebase
  <2>2. ~IsPrefix(dst, p)
    <3>1. SUFFICES ASSUME IsPrefix(dst, p) PROVE FALSE
      OBVIOUS
    <3>2. Len(dst) = Len(p) => dst = p
      BY <1>1, <3>1, PrefixNames, SamePath
    <3>3. Len(dst) < Len(p) => dst \in Ancestors(p)
      BY <1>1, <3>1, AncestorNames
    <3>4. Len(dst) <= Len(p) /\ Len(dst) \in Nat /\ Len(p) \in Nat
      BY <1>1, <3>1, PrefixNames
    <3> QED
      BY <3>2, <3>3, <3>4 DEF Closed, InFolders
  <2> QED
    BY <1>2, <1>3, <2>1, <2>2
<1>5. ASSUME NEW p \in DOMAIN t, IsPrefix(src, p)
      PROVE  Rebase(p, src, dst) \in DOMAIN r /\ r[Rebase(p, src, dst)] = t[p]
  <2>1. IsPrefix(dst, Rebase(p, src, dst)) /\ Rebase(Rebase(p, src, dst), dst, src) = p
    BY <1>1, <1>5, RebaseBack
  <2> QED
    BY <1>2, <1>3, <2>1
<1>6. Kept(t, r)
  <2>1. ASSUME NEW p \in Files(t) PROVE \E q \in Files(r) : r[q] = t[p]
    <3>1. p \in DOMAIN t /\ t[p] # Folder
      BY DEF Files
    <3> QED
      BY <1>4, <1>5, <3>1 DEF Files
  <2> QED
    BY <2>1 DEF Kept
<1>7. ASSUME NEW p \in DOMAIN t, ~IsPrefix(src, p) PROVE InFolders(r, p)
  <2>1. ASSUME NEW a \in Ancestors(p) PROVE a \in DOMAIN r /\ r[a] = Folder
    <3>1. a \in DOMAIN t /\ t[a] = Folder
      BY DEF Closed, InFolders
    <3>2. ~IsPrefix(src, a)
      BY <1>1, <1>7, <3>1, AncestorNames, PrefixChain
    <3> QED
      BY <1>4, <3>1, <3>2
  <2> QED
    BY <2>1 DEF InFolders
<1>8. ASSUME NEW a \in Ancestors(dst) PROVE a \in DOMAIN r /\ r[a] = Folder
  <2>1. a \in DOMAIN t /\ t[a] = Folder
    BY DEF InFolders
  <2>2. ~IsPrefix(src, a)
    BY <1>1, <2>1, AncestorNames, PrefixChain
  <2> QED
    BY <1>4, <2>1, <2>2
<1>9. ASSUME NEW p \in DOMAIN t, IsPrefix(src, p) PROVE InFolders(r, Rebase(p, src, dst))
  <2>1. ASSUME NEW a \in Ancestors(Rebase(p, src, dst)), a \notin Ancestors(dst)
        PROVE  a \in DOMAIN r /\ r[a] = Folder
    <3>1. PICK b \in Ancestors(p) : IsPrefix(src, b) /\ a = Rebase(b, src, dst)
      BY <1>1, <1>9, <2>1, RebasedAncestors
    <3>2. b \in DOMAIN t /\ t[b] = Folder
      BY DEF Closed, InFolders
    <3> QED
      BY <1>5, <3>1, <3>2
  <2> QED
    BY <1>8, <2>1 DEF InFolders
<1>10. DOMAIN r \subseteq Path
  <2>1. ASSUME NEW p \in DOMAIN t, IsPrefix(src, p) PROVE Rebase(p, src, dst) \in Path
    <3>1. PICK s : s = Rebase(p, src, dst)
      OBVIOUS
    <3>2. s \in Seq(STRING) /\ IsPrefix(dst, s)
      BY <1>1, <2>1, <3>1, RebaseNames, RebaseBack DEF Rebased
    <3>3. s # <<>>
      <4>1. Len(dst) # 0 /\ Len(dst) <= Len(s) /\ Len(dst) \in Nat
        BY <1>1, <3>2, PrefixNames DEF Path
      <4> QED
        BY <3>2, <4>1
    <3> QED
      BY <3>1, <3>2, <3>3 DEF Path
  <2>2. ASSUME NEW p \in DOMAIN t, ~IsPrefix(src, p) PROVE Rebase(p, src, dst) \in Path
    BY <1>1, <2>2 DEF Rebase
  <2> QED
    BY <1>2, <2>1, <2>2
<1>11. ASSUME NEW p \in DOMAIN r PROVE InFolders(r, p)
  <2>1. PICK q \in DOMAIN t : p = Rebase(q, src, dst)
    BY <1>2
  <2>2. CASE IsPrefix(src, q)
    BY <1>9, <2>1, <2>2
  <2>3. CASE ~IsPrefix(src, q)
    BY <1>7, <2>1, <2>3 DEF Rebase
  <2> QED
    BY <2>2, <2>3
<1> QED
  BY <1>4, <1>6, <1>10, <1>11 DEF Closed

LEMMA WithoutChainSound ==
    ASSUME NEW t, Closed(t), NEW start, NEW top, start \notin Files(t)
    PROVE  Closed(WithoutChain(t, start, top)) /\ Kept(t, WithoutChain(t, start, top))
<1> DEFINE Chain == {p \in DOMAIN t : IsPrefix(p, start) /\ t[p] = Folder}
           Gone == {p \in Chain : /\ start \in DOMAIN t
                                  /\ \A q \in DOMAIN t : IsPrefix(p, q) /\ q # p => q \in Chain /\ q # top}
           r == WithoutChain(t, start, top)
<1>1. r = [p \in DOMAIN t \ Gone |-> t[p]]
  BY DEF WithoutChain
<1>2. Kept(t, r)
  BY <1>1 DEF Kept, Files
<1>3. ASSUME NEW p \in Gone, NEW q \in DOMAIN t, p \in Ancestors(q) PROVE q \in Gone
  <2>1. p \in Seq(STRING) /\ q \in Seq(STRING) /\ IsPrefix(p, q) /\ Len(p) < Len(q)
    BY <1>3, AncestorNames DEF Closed, Path
  <2>2. q \in Chain /\ q # top
    BY <1>3, <2>1
  <2>3. ASSUME NEW s \in DOMAIN t, IsPrefix(q, s), s # q PROVE s \in Chain /\ s # top
    <3>1. s \in Seq(STRING) /\ IsPrefix(p, s)
      BY <2>1, <2>3, PrefixChain DEF Closed, Path
    <3>2. Len(q) <= Len(s)
      BY <2>1, <2>3, <3>1, PrefixNames
    <3>3. s # p
      BY <2>1, <3>1, <3>2
    <3> QED
      BY <1>3, <3>1, <3>3
  <2> QED
    BY <1>3, <2>2, <2>3
<1>4. Closed(r)
  <2>1. ASSUME NEW q \in DOMAIN r, NEW a \in Ancestors(q) PROVE a \in DOMAIN r /\ r[a] = Folder
    <3>1. q \in DOMAIN t /\ q \notin Gone
      BY <1>1
    <3>2. a \in DOMAIN t /\ t[a] = Folder
      BY <3>1 DEF Closed, InFolders
    <3>3. a \notin Gone
      BY <1>3, <3>1
    <3> QED
      BY <1>1, <3>2, <3>3
  <2> QED
    BY <1>1, <2>1 DEF Closed, InFolders
<1> QED
  BY <1>2, <1>4
-----------------------------------------------------------------------------
(* No content is lost. Between the two halves of the move of a file, what another program has not put *)
(* under one of its two names alone is in another file as well, so either half may be taken back; and a *)
(* rename takes every file along because the tree is closed and the destination, free and not below the *)
(* source, lies in folders.                                                                             *)

Shared(x) == (x \in Files(tree) /\ tree[x] \in owned \ exposed) => \E q \in Files(tree) : q # x /\ tree[q] = tree[x]
Paired(a, b) == a # b /\ Shared(a) /\ Shared(b)

MoveInv ==
    /\ project \in Projects
    /\ Closed(tree)
    /\ n \in Nat \ {0} /\ queue \in Seq(DOMAIN Plan)
    /\ apc \in {"checked", "parents", "linked"} => n <= Len(queue) /\ Item.kind \in MoveKinds
    /\ apc = "parents" => ~IsPrefix(Item.from, Item.to) /\ InFolders(tree, Item.to)
    /\ apc = "linked" => Paired(Item.from, Item.to)
    /\ upc = "linked" => Paired(Step.from, Step.to)
    /\ upc = "moved" => Step.to \in Path /\ InFolders(tree, Step.to)

Present == \A c \in owned \ exposed : \E p \in Files(tree) : tree[p] = c

FixInv == UndoInv /\ MoveInv /\ Present

LEMMA ItemTyped ==
    ASSUME MoveInv, n <= Len(queue)
    PROVE  /\ Item.kind \in Kinds
           /\ Item.kind \in MoveKinds \cup {"create-folder"} => Item.to \in Path
<1>1. queue[n] \in DOMAIN Plan
  BY DEF MoveInv
<1>2. /\ Plan \in Seq([kind : Kinds, from : Seq(STRING), to : Seq(STRING), requires : SUBSET Nat])
      /\ \A i \in DOMAIN Plan : Plan[i].kind \in MoveKinds \cup {"create-folder"} => Plan[i].to \in Path
  BY PlanAssumption, Zenon DEF MoveInv, Plan
<1>3. Plan[queue[n]].kind \in Kinds
  <2> DEFINE Shape == [kind : Kinds, from : Seq(STRING), to : Seq(STRING), requires : SUBSET Nat]
  <2>1. PICK plan, i : plan = Plan /\ i = queue[n]
    OBVIOUS
  <2>2. plan \in Seq(Shape) /\ i \in DOMAIN plan
    BY <1>1, <1>2, <2>1, Zenon
  <2>3. plan[i] \in Shape
    <3> HIDE DEF Shape
    <3> QED
      BY <2>2
  <2>4. plan[i].kind \in Kinds
    BY <2>3
  <2> QED
    BY <2>1, <2>4
<1> QED
  BY <1>1, <1>2, <1>3 DEF Item

LEMMA ParentNearest ==
    ASSUME NEW p \in Path
    PROVE  Parent(p) = <<>> \/ Parent(p) \in Ancestors(p)
<1>1. p \in Seq(STRING) /\ Len(p) \in Nat /\ Len(p) # 0
  BY DEF Path
<1>2. Len(p) = 1 => SubSeq(p, 1, Len(p) - 1) = <<>>
  BY <1>1
<1>3. Len(p) > 1 => Len(p) - 1 \in 1..Len(p) - 1
  BY <1>1
<1> QED
  BY <1>1, <1>2, <1>3 DEF Parent, Front, Ancestors

LEMMA ParentIsFolder ==
    ASSUME NEW t, Closed(t), NEW p \in Path, InFolders(t, p)
    PROVE  Parent(p) \notin Files(t)
  BY ParentNearest DEF Closed, InFolders, Files, Path

\* A step that ends in none of the points the invariant says more about.
LEMMA Settled ==
    ASSUME FixInv, UndoInv', UNCHANGED <<project, queue, owned, exposed>>, n' \in Nat \ {0},
           Closed(tree'), Present',
           apc' \notin {"checked", "parents", "linked"}, upc' \notin {"linked", "moved"}
    PROVE  FixInv'
<1>1. MoveInv'
  BY DEF FixInv, MoveInv, Plan
<1> QED
  BY <1>1 DEF FixInv

\* A tree that keeps every content keeps those that must be there.
LEMMA KeptPresent ==
    ASSUME FixInv, UNCHANGED <<owned, exposed>>, Kept(tree, tree')
    PROVE  Present'
  BY DEF FixInv, Present, Kept

LEMMA SameTree ==
    ASSUME FixInv, UNCHANGED <<tree, owned, exposed>>
    PROVE  Closed(tree') /\ Present'
  BY DEF FixInv, MoveInv, Present

\* What a half moved file holds is still there when one of its names goes.
LEMMA UnlinkedPresent ==
    ASSUME FixInv, UNCHANGED <<owned, exposed>>, NEW a \in Files(tree), Shared(a), tree' = Unlinked(tree, a)
    PROVE  Closed(tree') /\ Present'
<1>1. PICK r : r = Unlinked(tree, a)
  OBVIOUS
<1>2. Closed(r) /\ DOMAIN r = DOMAIN tree \ {a} /\ \A p \in DOMAIN r : r[p] = tree[p]
  BY <1>1, UnlinkedSound DEF FixInv, MoveInv, Files
<1>3. ASSUME NEW c \in owned \ exposed PROVE \E q \in Files(r) : r[q] = c
  <2>1. PICK p \in Files(tree) : tree[p] = c
    BY DEF FixInv, Present
  <2>2. PICK q \in Files(tree) : q # a /\ tree[q] = c
    BY <2>1 DEF Shared
  <2> QED
    BY <1>2, <2>2 DEF Files
<1> QED
  BY <1>1, <1>2, <1>3 DEF Present

LEMMA TakenBackPresent ==
    ASSUME FixInv, UNCHANGED <<owned, exposed>>, NEW a, Shared(a), tree' = TakenBack(tree, a)
    PROVE  Closed(tree') /\ Present'
<1>1. CASE a \in Files(tree)
  BY <1>1, UnlinkedPresent DEF TakenBack
<1>2. CASE a \notin Files(tree)
  BY <1>2, SameTree DEF TakenBack
<1> QED
  BY <1>1, <1>2

LEMMA RecordShape ==
    ASSUME MoveInv, NEW status, Record(status)
    PROVE  /\ n' \in Nat \ {0} /\ queue' = queue /\ apc' = "next"
  BY DEF Record, MoveInv

\* The steps of the apply that do not change the tree.
StayStep ==
    \/ EndApply \/ SkipItem \/ RefuseMove \/ JournalEdit \/ CheckText \/ WriteText \/ RefuseLate
    \/ RecordDone \/ CrashApply

LEMMA StayFix ==
    ASSUME FixInv, UndoInv', StayStep, upc \notin {"linked", "moved"}, upc' = upc
    PROVE  FixInv'
<1>1. UNCHANGED <<project, tree, owned, exposed, queue>> /\ n' \in Nat \ {0}
      /\ apc' \notin {"checked", "parents", "linked"}
  <2>1. CASE EndApply
    BY <2>1 DEF EndApply, disk, budget, FixInv, MoveInv
  <2>2. CASE SkipItem
    BY <2>2, RecordShape DEF SkipItem, disk, budget, FixInv
  <2>3. CASE RefuseMove
    BY <2>3, RecordShape DEF RefuseMove, disk, budget, FixInv
  <2>4. CASE JournalEdit \/ CheckText \/ WriteText
    BY <2>4 DEF JournalEdit, CheckText, WriteText, disk, budget, FixInv, MoveInv
  <2>5. CASE RefuseLate
    BY <2>5, RecordShape DEF RefuseLate, disk, budget, FixInv
  <2>6. CASE RecordDone \/ CrashApply
    BY <2>6 DEF RecordDone, CrashApply, disk, budget, FixInv, MoveInv
  <2> QED
    BY <2>1, <2>2, <2>3, <2>4, <2>5, <2>6 DEF StayStep
<1>2. Closed(tree') /\ Present'
  BY <1>1, SameTree
<1> QED
  BY <1>1, <1>2, Settled

LEMMA MakeFolderFix ==
    ASSUME FixInv, UndoInv', MakeFolder, upc \notin {"linked", "moved"}, upc' = upc
    PROVE  FixInv'
<1>1. /\ UNCHANGED <<project, queue, owned, exposed, n>> /\ apc' = "changed"
      /\ n <= Len(queue) /\ Item.kind = "create-folder"
      /\ CanMake(tree, Ancestors(Item.to)) /\ Item.to \notin DOMAIN tree
      /\ tree' = WithFolders(tree, Ancestors(Item.to) \cup {Item.to})
  BY DEF MakeFolder, CarryOut, budget
<1>2. PICK to \in Path : to = Item.to
  BY <1>1, ItemTyped DEF FixInv
<1>3. PICK r : r = WithFolders(tree, Ancestors(to))
  OBVIOUS
<1>4. /\ Closed(r) /\ InFolders(r, to) /\ Kept(tree, r)
      /\ \A p \in DOMAIN tree : p \in DOMAIN r /\ r[p] = tree[p]
  BY <1>1, <1>2, <1>3, WithFoldersSound DEF FixInv, MoveInv
<1>5. PICK s : s = WithFile(r, to, Folder)
  OBVIOUS
<1>6. Closed(s) /\ Kept(r, s)
  BY <1>4, <1>5, WithFileSound
<1>7. tree' = s
  BY <1>1, <1>2, <1>3, <1>5 DEF WithFolders, WithFile
<1>8. Closed(tree') /\ Kept(tree, tree')
  BY <1>4, <1>6, <1>7 DEF Kept
<1> QED
  BY <1>1, <1>8, KeptPresent, Settled DEF FixInv, MoveInv

LEMMA CheckMoveFix ==
    ASSUME FixInv, UndoInv', CheckMove, upc \notin {"linked", "moved"}, upc' = upc
    PROVE  FixInv'
<1>1. /\ UNCHANGED <<project, tree, queue, owned, exposed, n>> /\ apc' = "checked"
      /\ n <= Len(queue) /\ Item.kind \in MoveKinds
  BY DEF CheckMove, CarryOut, disk, budget
<1>2. Item' = Item
  BY <1>1 DEF Item, Plan
<1>3. Present'
  BY <1>1, SameTree
<1> QED
  BY <1>1, <1>2, <1>3 DEF FixInv, MoveInv, Plan

LEMMA MakeParentsFix ==
    ASSUME FixInv, UndoInv', MakeParents, upc \notin {"linked", "moved"}, upc' = upc
    PROVE  FixInv'
<1>1. /\ UNCHANGED <<project, queue, owned, exposed, n>> /\ apc = "checked" /\ apc' = "parents"
      /\ ~IsPrefix(Item.from, Item.to) /\ CanMake(tree, Ancestors(Item.to))
      /\ tree' = WithFolders(tree, Ancestors(Item.to))
  BY DEF MakeParents, budget
<1>2. PICK from, to : from = Item.from /\ to = Item.to
  OBVIOUS
<1>3. to \in Path /\ n <= Len(queue) /\ Item.kind \in MoveKinds
  BY <1>1, <1>2, ItemTyped DEF FixInv, MoveInv
<1>4. Item' = Item
  BY <1>1 DEF Item, Plan
<1>5. Closed(tree') /\ InFolders(tree', to) /\ Kept(tree, tree')
  BY <1>1, <1>2, <1>3, WithFoldersSound DEF FixInv, MoveInv
<1>6. Present'
  BY <1>1, <1>5, KeptPresent
<1>7. MoveInv'
  BY <1>1, <1>2, <1>3, <1>4, <1>5 DEF FixInv, MoveInv, Plan
<1> QED
  BY <1>6, <1>7 DEF FixInv

LEMMA LinkFileFix ==
    ASSUME FixInv, UndoInv', LinkFile, upc \notin {"linked", "moved"}, upc' = upc
    PROVE  FixInv'
<1>1. /\ UNCHANGED <<project, queue, owned, exposed, n>> /\ apc = "parents" /\ apc' = "linked"
      /\ Item.from \in Files(tree) /\ Item.to \notin DOMAIN tree
      /\ tree' = Linked(tree, Item.from, Item.to)
  BY DEF LinkFile, budget
<1>2. PICK from, to : from = Item.from /\ to = Item.to
  OBVIOUS
<1>3. to \in Path /\ n <= Len(queue) /\ Item.kind \in MoveKinds /\ InFolders(tree, to)
  BY <1>1, <1>2, ItemTyped DEF FixInv, MoveInv
<1>4. Item' = Item
  BY <1>1 DEF Item, Plan
<1>5. PICK c : c = tree[from]
  OBVIOUS
<1>6. PICK r : r = WithFile(tree, to, c)
  OBVIOUS
<1>7. /\ Closed(tree') /\ Kept(tree, tree')
      /\ DOMAIN tree' = DOMAIN tree \cup {to}
      /\ \A p \in DOMAIN tree : tree'[p] = tree[p]
      /\ tree'[to] = c
  <2>1. Closed(r) /\ Kept(tree, r)
    BY <1>3, <1>6, WithFileSound DEF FixInv, MoveInv
  <2>3. /\ DOMAIN r = DOMAIN tree \cup {to}
        /\ \A p \in DOMAIN tree : r[p] = tree[p]
        /\ r[to] = c
    BY <1>1, <1>2, <1>6 DEF WithFile
  <2>2. tree' = r
    BY <1>1, <1>2, <1>5, <1>6 DEF Linked
  <2> QED
    BY <2>1, <2>2, <2>3
<1>8. Present'
  BY <1>1, <1>7, KeptPresent
<1>9. Paired(from, to)'
  BY <1>1, <1>2, <1>5, <1>7 DEF Paired, Shared, Files
<1>10. MoveInv'
  BY <1>1, <1>2, <1>3, <1>4, <1>7, <1>9 DEF FixInv, MoveInv, Plan
<1> QED
  BY <1>8, <1>10 DEF FixInv

LEMMA UnlinkFileFix ==
    ASSUME FixInv, UndoInv', UnlinkFile, upc \notin {"linked", "moved"}, upc' = upc
    PROVE  FixInv'
<1>1. /\ UNCHANGED <<project, queue, owned, exposed, n>> /\ apc = "linked" /\ apc' = "changed"
      /\ Item.from \in Files(tree) /\ tree' = Unlinked(tree, Item.from)
  BY DEF UnlinkFile, budget
<1>2. Shared(Item.from)
  BY <1>1 DEF FixInv, MoveInv, Paired
<1>3. Closed(tree') /\ Present'
  BY <1>1, <1>2, UnlinkedPresent
<1> QED
  BY <1>1, <1>3, Settled DEF FixInv, MoveInv

LEMMA LoseSourceFix ==
    ASSUME FixInv, UndoInv', LoseSource, upc \notin {"linked", "moved"}, upc' = upc
    PROVE  FixInv'
<1>1. /\ UNCHANGED <<project, queue, owned, exposed>> /\ n' \in Nat \ {0} /\ apc' = "next"
      /\ apc = "linked" /\ tree' = TakenBack(tree, Item.to)
  BY RecordShape DEF LoseSource, FixInv, budget
<1>2. Shared(Item.to)
  BY <1>1 DEF FixInv, MoveInv, Paired
<1>3. Closed(tree') /\ Present'
  BY <1>1, <1>2, TakenBackPresent
<1> QED
  BY <1>1, <1>3, Settled

LEMMA RenameFolderFix ==
    ASSUME FixInv, UndoInv', RenameFolder, upc \notin {"linked", "moved"}, upc' = upc
    PROVE  FixInv'
<1>1. /\ UNCHANGED <<project, queue, owned, exposed, n>> /\ apc = "parents" /\ apc' = "changed"
      /\ Item.from \in DOMAIN tree /\ Item.to \notin DOMAIN tree
      /\ tree' = Renamed(tree, Item.from, Item.to)
  BY DEF RenameFolder, budget
<1>2. PICK from, to : from = Item.from /\ to = Item.to
  OBVIOUS
<1>3. to \in Path /\ InFolders(tree, to) /\ ~IsPrefix(from, to)
  BY <1>1, <1>2, ItemTyped DEF FixInv, MoveInv
<1>4. Closed(tree') /\ Kept(tree, tree')
  BY <1>1, <1>2, <1>3, RenamedSound DEF FixInv, MoveInv
<1> QED
  BY <1>1, <1>4, KeptPresent, Settled DEF FixInv, MoveInv

LEMMA FailItemFix ==
    ASSUME FixInv, UndoInv', FailItem, upc \notin {"linked", "moved"}, upc' = upc
    PROVE  FixInv'
<1>1. /\ UNCHANGED <<project, queue, owned, exposed>> /\ n' \in Nat \ {0} /\ apc' = "next"
  BY RecordShape DEF FailItem, FixInv
<1>2. UNCHANGED tree \/ (apc = "linked" /\ tree' = TakenBack(tree, Item.to))
  BY DEF FailItem, disk
<1>3. Closed(tree') /\ Present'
  <2>1. CASE UNCHANGED tree
    BY <1>1, <2>1, SameTree
  <2>2. CASE apc = "linked" /\ tree' = TakenBack(tree, Item.to)
    <3>1. Shared(Item.to)
      BY <2>2 DEF FixInv, MoveInv, Paired
    <3> QED
      BY <1>1, <2>2, <3>1, TakenBackPresent
  <2> QED
    BY <1>2, <2>1, <2>2
<1> QED
  BY <1>1, <1>3, Settled

LEMMA ApplyFix ==
    ASSUME FixInv, UndoInv', ApplyStep
    PROVE  FixInv'
<1>1. upc \notin {"linked", "moved"} /\ upc' = upc
  BY ApplyStepShape DEF FixInv, UndoInv, UndoRuns
<1> QED
  BY <1>1, StayFix, MakeFolderFix, CheckMoveFix, MakeParentsFix, LinkFileFix, UnlinkFileFix,
     LoseSourceFix, RenameFolderFix, FailItemFix DEF ApplyStep, StayStep
-----------------------------------------------------------------------------
(* The undo runs only when no apply does, so its steps need to show nothing of the apply's points. *)

\* While an undo runs, a step of it keeps what the invariant says of the apply.
LEMMA UndoSettled ==
    ASSUME FixInv, UndoStep, UndoInv', UNCHANGED <<project, owned, exposed>>,
           Closed(tree'), Present',
           upc' = "linked" => Paired(Step.from, Step.to)',
           upc' = "moved" => (Step.to \in Path /\ InFolders(tree, Step.to))'
    PROVE  FixInv'
<1>1. UNCHANGED <<n, queue, apc>> /\ apc \notin {"checked", "parents", "linked"}
  BY UndoStepShape DEF FixInv, UndoInv, ApplyRuns, UndoStep, LinkBack, UnlinkBack, FailBack, RenameBack,
     RemoveCreated, RemoveFolders, RestoreText, RefuseStep, CrashUndo, applying
<1>2. MoveInv'
  BY <1>1 DEF FixInv, MoveInv, Plan
<1> QED
  BY <1>2 DEF FixInv

LEMMA LinkBackFix ==
    ASSUME FixInv, UndoInv', LinkBack
    PROVE  FixInv'
<1>1. /\ UNCHANGED <<project, owned, exposed, steps, k>> /\ upc' = "linked"
      /\ CanMoveBack /\ Step.to \in Files(tree)
      /\ tree' = Linked(WithFolders(tree, Ancestors(Step.from)), Step.to, Step.from)
  BY DEF LinkBack, budget
<1>2. PICK from, to : from = Step.from /\ to = Step.to
  OBVIOUS
<1>3. /\ from \in Path /\ from \notin DOMAIN tree /\ CanMake(tree, Ancestors(from))
      /\ to \in Files(tree)
  BY <1>1, <1>2 DEF CanMoveBack
<1>4. Step' = Step
  BY <1>1 DEF Step
<1>5. PICK r : r = WithFolders(tree, Ancestors(from))
  OBVIOUS
<1>6. /\ Closed(r) /\ InFolders(r, from) /\ Kept(tree, r)
      /\ \A p \in DOMAIN tree : p \in DOMAIN r /\ r[p] = tree[p]
      /\ \A p \in DOMAIN r : p \in DOMAIN tree \/ p \in Ancestors(from)
  BY <1>3, <1>5, WithFoldersSound DEF FixInv, MoveInv
<1>7. from \notin DOMAIN r
  <2>1. from \notin Ancestors(from)
    BY <1>3, AncestorNames DEF Path
  <2> QED
    BY <1>3, <1>6, <2>1
<1>8. PICK c : c = r[to]
  OBVIOUS
<1>9. PICK s : s = WithFile(r, from, c)
  OBVIOUS
<1>10. Closed(s) /\ Kept(r, s)
  BY <1>3, <1>6, <1>9, WithFileSound
<1>11. /\ DOMAIN s = DOMAIN r \cup {from}
       /\ \A p \in DOMAIN r : s[p] = r[p]
       /\ s[from] = c
  BY <1>7, <1>9 DEF WithFile
<1>12. tree' = s
  BY <1>1, <1>2, <1>5, <1>8, <1>9 DEF Linked
<1>13. Closed(tree') /\ Kept(tree, tree')
  BY <1>6, <1>10, <1>12 DEF Kept
<1>14. from \in Files(s) /\ to \in Files(s) /\ from # to /\ s[from] = s[to]
  BY <1>3, <1>6, <1>7, <1>8, <1>11 DEF Files
<1>15. Paired(Step.from, Step.to)'
  BY <1>2, <1>4, <1>12, <1>14 DEF Paired, Shared
<1>16. Present'
  BY <1>1, <1>13, KeptPresent
<1> QED
  BY <1>1, <1>13, <1>15, <1>16, UndoSettled DEF UndoStep

LEMMA UnlinkBackFix ==
    ASSUME FixInv, UndoInv', UnlinkBack
    PROVE  FixInv'
<1>1. /\ UNCHANGED <<project, owned, exposed, steps, k>> /\ upc = "linked" /\ upc' = "moved"
      /\ Step.to \in Files(tree) /\ tree' = Unlinked(tree, Step.to)
  BY DEF UnlinkBack, budget
<1>2. PICK to : to = Step.to
  OBVIOUS
<1>3. Shared(to)
  BY <1>1, <1>2 DEF FixInv, MoveInv, Paired
<1>4. Closed(tree') /\ Present'
  BY <1>1, <1>2, <1>3, UnlinkedPresent
<1>5. to \in Path /\ InFolders(tree, to)
  BY <1>1, <1>2 DEF Files, FixInv, MoveInv, Closed
<1>6. InFolders(tree', to)
  BY <1>1, <1>2, <1>5 DEF Files, Unlinked, InFolders
<1>7. Step' = Step
  BY <1>1 DEF Step
<1>8. (Step.to \in Path /\ InFolders(tree, Step.to))'
  BY <1>2, <1>5, <1>6, <1>7
<1> QED
  BY <1>1, <1>4, <1>8, UndoSettled DEF UndoStep

LEMMA FailBackFix ==
    ASSUME FixInv, UndoInv', FailBack
    PROVE  FixInv'
<1>1. /\ UNCHANGED <<project, owned, exposed>> /\ upc = "linked" /\ upc' = "refused"
      /\ tree' = TakenBack(tree, Step.from) \/ tree' = tree
  BY DEF FailBack
<1>2. Shared(Step.from)
  BY <1>1 DEF FixInv, MoveInv, Paired
<1>3. Closed(tree') /\ Present'
  BY <1>1, <1>2, TakenBackPresent, SameTree
<1> QED
  BY <1>1, <1>3, UndoSettled DEF UndoStep

LEMMA RenameBackFix ==
    ASSUME FixInv, UndoInv', RenameBack
    PROVE  FixInv'
<1>1. /\ UNCHANGED <<project, owned, exposed, steps, k>> /\ upc' = "moved"
      /\ CanMoveBack /\ Step.to \notin Files(tree)
      /\ tree' = Renamed(WithFolders(tree, Ancestors(Step.from)), Step.to, Step.from)
  BY DEF RenameBack, budget
<1>2. PICK from, to : from = Step.from /\ to = Step.to
  OBVIOUS
<1>3. /\ from \in Path /\ from \notin DOMAIN tree /\ CanMake(tree, Ancestors(from))
      /\ to \in DOMAIN tree /\ ~IsPrefix(to, from)
  BY <1>1, <1>2 DEF CanMoveBack
<1>4. Step' = Step
  BY <1>1 DEF Step
<1>5. PICK r : r = WithFolders(tree, Ancestors(from))
  OBVIOUS
<1>6. /\ Closed(r) /\ InFolders(r, from) /\ Kept(tree, r)
      /\ \A p \in DOMAIN tree : p \in DOMAIN r /\ r[p] = tree[p]
      /\ \A p \in DOMAIN r : p \in DOMAIN tree \/ p \in Ancestors(from)
  BY <1>3, <1>5, WithFoldersSound DEF FixInv, MoveInv
<1>7. from \notin DOMAIN r
  <2>1. from \notin Ancestors(from)
    BY <1>3, AncestorNames DEF Path
  <2> QED
    BY <1>3, <1>6, <2>1
<1>8. PICK s : s = Renamed(r, to, from)
  OBVIOUS
<1>9. /\ Closed(s) /\ Kept(r, s)
      /\ \A p \in DOMAIN r : ~IsPrefix(to, p) => p \in DOMAIN s /\ s[p] = r[p]
  BY <1>3, <1>6, <1>7, <1>8, RenamedSound
<1>10. tree' = s
  BY <1>1, <1>2, <1>5, <1>8
<1>11. Closed(tree') /\ Kept(tree, tree')
  BY <1>6, <1>9, <1>10 DEF Kept
<1>12. to \in Path /\ InFolders(s, to)
  <2>1. to \in Path /\ to \in Seq(STRING) /\ InFolders(r, to)
    BY <1>3, <1>6 DEF Closed, Path
  <2>2. ASSUME NEW a \in Ancestors(to) PROVE a \in DOMAIN s /\ s[a] = Folder
    <3>1. a \in DOMAIN r /\ r[a] = Folder
      BY <2>1 DEF InFolders
    <3>2. a \in Seq(STRING) /\ Len(a) < Len(to)
      BY <2>1, AncestorNames DEF Path
    <3>3. ~IsPrefix(to, a)
      <4>1. Len(a) \in Nat /\ Len(to) \in Nat
        BY <2>1, <3>2
      <4> QED
        BY <2>1, <3>2, <4>1, PrefixNames
    <3> QED
      BY <1>9, <3>1, <3>3
  <2> QED
    BY <2>1, <2>2 DEF InFolders
<1>13. (Step.to \in Path /\ InFolders(tree, Step.to))'
  BY <1>2, <1>4, <1>10, <1>12
<1>14. Present'
  BY <1>1, <1>11, KeptPresent
<1> QED
  BY <1>1, <1>11, <1>13, <1>14, UndoSettled DEF UndoStep

LEMMA RemoveCreatedFix ==
    ASSUME FixInv, UndoInv', RemoveCreated
    PROVE  FixInv'
<1>1. /\ UNCHANGED <<project, owned, exposed>> /\ upc = "moved" /\ upc' = "run"
      /\ tree' = IF Step.top = {} THEN tree
                 ELSE WithoutChain(tree, Parent(Step.to), CHOOSE p \in Step.top : TRUE)
  BY DEF RemoveCreated, NextStep, budget
<1>2. Parent(Step.to) \notin Files(tree) /\ Closed(tree)
  BY <1>1, ParentIsFolder DEF FixInv, MoveInv
<1>3. Closed(tree') /\ Kept(tree, tree')
  <2>1. CASE Step.top = {}
    BY <1>1, <1>2, <2>1 DEF Kept
  <2>2. CASE Step.top # {}
    BY <1>1, <1>2, <2>2, WithoutChainSound
  <2> QED
    BY <2>1, <2>2
<1> QED
  BY <1>1, <1>3, KeptPresent, UndoSettled DEF UndoStep

LEMMA RemoveFoldersFix ==
    ASSUME FixInv, UndoInv', RemoveFolders
    PROVE  FixInv'
<1>1. /\ UNCHANGED <<project, owned, exposed>> /\ upc' = "run" /\ Step.to \notin Files(tree)
      /\ tree' = WithoutChain(tree, Step.to, Step.top)
  BY DEF RemoveFolders, NextStep, budget
<1>2. Closed(tree') /\ Kept(tree, tree')
  BY <1>1, WithoutChainSound DEF FixInv, MoveInv
<1> QED
  BY <1>1, <1>2, KeptPresent, UndoSettled DEF UndoStep

LEMMA UndoFix ==
    ASSUME FixInv, UndoInv', UndoStep
    PROVE  FixInv'
<1>1. CASE RestoreText \/ RefuseStep \/ CrashUndo
  <2>1. UNCHANGED <<project, owned, exposed, tree>> /\ upc' \notin {"linked", "moved"}
    BY <1>1 DEF RestoreText, RefuseStep, CrashUndo, NextStep, disk, budget
  <2>2. Closed(tree') /\ Present'
    BY <2>1, SameTree
  <2> QED
    BY <2>1, <2>2, UndoSettled
<1> QED
  BY <1>1, LinkBackFix, UnlinkBackFix, FailBackFix, RenameBackFix, RemoveCreatedFix, RemoveFoldersFix
  DEF UndoStep
-----------------------------------------------------------------------------
(* The beginnings, the ends and the other program. *)

LEMMA OrderTyped ==
    ASSUME MoveInv, NEW S \in SUBSET DOMAIN Plan, NEW order \in Ordered(S)
    PROVE  order \in Seq(DOMAIN Plan)
<1>1. Plan \in Seq([kind : Kinds, from : Seq(STRING), to : Seq(STRING), requires : SUBSET Nat])
  BY PlanAssumption, Zenon DEF MoveInv, Plan
<1>2. DOMAIN Plan = 1..Len(Plan) /\ Len(Plan) \in Nat
  BY <1>1
<1>3. IsFiniteSet(1..Len(Plan))
  BY <1>2, FS_Interval
<1>4. IsFiniteSet(S)
  BY <1>2, <1>3, FS_Subset
<1>5. Cardinality(S) \in Nat
  BY <1>4, FS_CardinalityType
<1>6. order \in [1..Cardinality(S) -> DOMAIN Plan]
  BY DEF Ordered
<1> QED
  BY <1>5, <1>6

LEMMA BeginApplyFix ==
    ASSUME FixInv, UndoInv', NEW selected \in SUBSET DOMAIN Plan, BeginApply(selected)
    PROVE  FixInv'
<1>1. /\ UNCHANGED <<project, tree, owned, exposed, n, upc, steps, k>> /\ apc = "idle" /\ apc' = "next"
      /\ \E order \in Ordered(Chosen(selected)) : queue' = order
  BY DEF BeginApply, disk, undoing, budget
<1>2. Chosen(selected) \in SUBSET DOMAIN Plan
  BY DEF Chosen
<1>3. queue' \in Seq(DOMAIN Plan)
  BY <1>1, <1>2, OrderTyped DEF FixInv
<1>4. upc' = "idle"
  BY <1>1 DEF FixInv, UndoInv
<1> QED
  BY <1>1, <1>3, <1>4 DEF FixInv, MoveInv, Present, Plan

LEMMA BeginUndoFix ==
    ASSUME FixInv, UndoInv', BeginUndo \/ FinishUndo
    PROVE  FixInv'
<1>1. /\ UNCHANGED <<project, tree, owned, exposed, n, queue, apc>> /\ upc' \notin {"linked", "moved"}
  BY DEF BeginUndo, FinishUndo, disk, budget, applying
<1>2. Item' = Item
  BY <1>1 DEF Item, Plan
<1>3. MoveInv'
  BY <1>1, <1>2 DEF FixInv, MoveInv, Paired, Shared, Plan
<1> QED
  BY <1>1, <1>3 DEF FixInv, Present

LEMMA CancelFix ==
    ASSUME FixInv, UndoInv', Cancel \/ UNCHANGED vars
    PROVE  FixInv'
<1>1. UNCHANGED <<project, tree, owned, exposed, n, queue, apc, upc, steps, k>>
  BY DEF Cancel, vars, disk, budget, applying, undoing
<1> QED
  BY <1>1 DEF FixInv, MoveInv, Present, Plan, Item, Step, Paired, Shared

\* What a change by another program does to the project: every folder stays one, everything lies in
\* folders, what was put under one of the two names of a half moved file is exposed, and every other
\* content is where it was or where the change put it.
Harmless ==
    /\ Closed(tree')
    /\ \A p \in DOMAIN tree : tree[p] = Folder => p \in DOMAIN tree' /\ tree'[p] = Folder
    /\ Present'
    /\ \A names \in HalfMoves : \A x, y \in names : x # y /\ Shared(x) => Shared(x)'

\* What a change that puts Foreign at one place must show: it hides nothing but what it took from `owned`,
\* and under one of two names it is exposed, or shown by both.
LEMMA ChangedPlace ==
    ASSUME FixInv, NEW p0, Foreign \in owned', p0 \in Files(tree'), tree'[p0] = Foreign,
           owned' \subseteq owned \cup {Foreign}, exposed \subseteq exposed',
           \A q \in Files(tree) : tree[q] \in owned' /\ tree[q] # Foreign => q \in Files(tree') /\ tree'[q] = tree[q],
           \A q \in Files(tree') : tree'[q] = Foreign \/ (q \in Files(tree) /\ tree'[q] = tree[q]),
           \A names \in HalfMoves :
              p0 \in names => Foreign \in exposed' \/ \A q \in names : q \in Files(tree') /\ tree'[q] = Foreign
    PROVE  /\ Present'
           /\ \A names \in HalfMoves : \A x, y \in names : x # y /\ Shared(x) => Shared(x)'
<1>1. ASSUME NEW c \in owned' \ exposed' PROVE \E q \in Files(tree') : tree'[q] = c
  <2>1. CASE c = Foreign
    BY <2>1
  <2>2. CASE c # Foreign
    <3>1. c \in owned \ exposed
      BY <2>2
    <3>2. PICK q \in Files(tree) : tree[q] = c
      BY <3>1 DEF FixInv, Present
    <3> QED
      BY <2>2, <3>2
  <2> QED
    BY <2>1, <2>2
<1>2. ASSUME NEW names \in HalfMoves, NEW x \in names, NEW y \in names, x # y, Shared(x),
             x \in Files(tree'), tree'[x] \in owned' \ exposed'
      PROVE  \E q \in Files(tree') : q # x /\ tree'[q] = tree'[x]
  <2>1. CASE tree'[x] = Foreign /\ x # p0
    BY <2>1
  <2>2. CASE tree'[x] = Foreign /\ x = p0
    BY <1>2, <2>2
  <2>3. CASE tree'[x] # Foreign
    <3>1. x \in Files(tree) /\ tree'[x] = tree[x] /\ tree[x] \in owned \ exposed
      BY <1>2, <2>3
    <3>2. PICK q \in Files(tree) : q # x /\ tree[q] = tree[x]
      BY <1>2, <3>1 DEF Shared
    <3> QED
      BY <1>2, <2>3, <3>1, <3>2
  <2> QED
    BY <2>1, <2>2, <2>3
<1>3. ASSUME NEW names \in HalfMoves, NEW x \in names, NEW y \in names, x # y, Shared(x) PROVE Shared(x)'
  BY <1>2, <1>3 DEF Shared
<1> QED
  BY <1>1, <1>3 DEF Present

LEMMA EditFileHarmless ==
    ASSUME FixInv, NEW p0 \in Files(tree), EditFile(p0)
    PROVE  Harmless
<1>1. /\ DOMAIN tree' = DOMAIN tree
      /\ \A q \in DOMAIN tree : tree'[q] = IF tree[q] = tree[p0] THEN Foreign ELSE tree[q]
      /\ owned' = (owned \ {tree[p0]}) \cup {Foreign}
      /\ p0 \in DOMAIN tree /\ tree[p0] # Folder
  BY DEF EditFile, Files
<1>2. Foreign # Folder
  BY DEF Foreign, Folder
<1>3. \A q \in DOMAIN tree : tree'[q] = Folder <=> tree[q] = Folder
  BY <1>1, <1>2
<1>4. Closed(tree')
  BY <1>1, <1>3 DEF Closed, InFolders, FixInv, MoveInv
<1>5. ASSUME NEW names \in HalfMoves, p0 \in names
      PROVE  Foreign \in exposed' \/ \A q \in names : q \in Files(tree') /\ tree'[q] = Foreign
  <2>1. CASE \A q \in names : q \in Files(tree) /\ tree[q] = tree[p0]
    BY <1>1, <1>2, <2>1 DEF Files
  <2>2. CASE ~\A q \in names : q \in Files(tree) /\ tree[q] = tree[p0]
    <3>1. names \in {m \in HalfMoves : p0 \in m}
      BY <1>5
    <3>2. exposed' = exposed \cup {Foreign : m \in {m \in HalfMoves : p0 \in m}}
      BY <1>5, <2>2 DEF EditFile, Expose
    <3> QED
      BY <3>1, <3>2
  <2> QED
    BY <2>1, <2>2
<1>6. exposed \subseteq exposed'
  BY DEF EditFile, Expose
<1>7. p0 \in Files(tree') /\ tree'[p0] = Foreign
  BY <1>1, <1>2 DEF Files
<1>8. \A q \in Files(tree) : tree[q] \in owned' /\ tree[q] # Foreign => q \in Files(tree') /\ tree'[q] = tree[q]
  BY <1>1 DEF Files
<1>9. \A q \in Files(tree') : tree'[q] = Foreign \/ (q \in Files(tree) /\ tree'[q] = tree[q])
  BY <1>1 DEF Files
<1>10. /\ Present'
       /\ \A names \in HalfMoves : \A x, y \in names : x # y /\ Shared(x) => Shared(x)'
  BY <1>1, <1>5, <1>6, <1>7, <1>8, <1>9, ChangedPlace
<1> QED
  BY <1>1, <1>3, <1>4, <1>10 DEF Harmless

LEMMA SaveFileHarmless ==
    ASSUME FixInv, NEW p0 \in Files(tree), SaveFile(p0)
    PROVE  Harmless
<1>1. /\ DOMAIN tree' = DOMAIN tree
      /\ \A q \in DOMAIN tree : tree'[q] = IF q = p0 THEN Foreign ELSE tree[q]
      /\ owned' = (owned \ {tree[p0]}) \cup {Foreign}
      /\ exposed' = exposed \cup {Foreign : m \in {m \in HalfMoves : p0 \in m}}
      /\ p0 \in DOMAIN tree /\ tree[p0] # Folder
  BY DEF SaveFile, Expose, Files
<1>2. Foreign # Folder
  BY DEF Foreign, Folder
<1>3. \A q \in DOMAIN tree : tree'[q] = Folder <=> tree[q] = Folder
  BY <1>1, <1>2
<1>4. Closed(tree')
  BY <1>1, <1>3 DEF Closed, InFolders, FixInv, MoveInv
<1>5. \A names \in HalfMoves : p0 \in names => Foreign \in exposed'
  BY <1>1
<1>6. p0 \in Files(tree') /\ tree'[p0] = Foreign
  BY <1>1, <1>2 DEF Files
<1>7. \A q \in Files(tree) : tree[q] \in owned' /\ tree[q] # Foreign => q \in Files(tree') /\ tree'[q] = tree[q]
  BY <1>1 DEF Files
<1>8. \A q \in Files(tree') : tree'[q] = Foreign \/ (q \in Files(tree) /\ tree'[q] = tree[q])
  BY <1>1 DEF Files
<1>9. /\ Present'
      /\ \A names \in HalfMoves : \A x, y \in names : x # y /\ Shared(x) => Shared(x)'
  BY <1>1, <1>5, <1>6, <1>7, <1>8, ChangedPlace
<1> QED
  BY <1>1, <1>3, <1>4, <1>9 DEF Harmless

LEMMA AddFileHarmless ==
    ASSUME FixInv, NEW p0 \in Intruded, AddFile(p0)
    PROVE  Harmless
<1>1. /\ p0 \notin DOMAIN tree /\ InFolders(tree, p0)
      /\ tree' = WithFile(tree, p0, Foreign)
      /\ owned' = owned \cup {Foreign}
      /\ exposed' = exposed \cup {Foreign : m \in {m \in HalfMoves : p0 \in m}}
  BY DEF AddFile, Expose
<1>2. p0 \in Path
  BY PlanAssumption DEF FixInv, MoveInv, Intruded
<1>3. PICK r : r = WithFile(tree, p0, Foreign)
  OBVIOUS
<1>4. Closed(r)
  BY <1>1, <1>2, <1>3, WithFileSound DEF FixInv, MoveInv
<1>5. /\ DOMAIN r = DOMAIN tree \cup {p0}
      /\ \A p \in DOMAIN tree : r[p] = tree[p]
      /\ r[p0] = Foreign
  BY <1>1, <1>3 DEF WithFile
<1>6. tree' = r
  BY <1>1, <1>3
<1>7. Foreign # Folder
  BY DEF Foreign, Folder
<1>8. \A names \in HalfMoves : p0 \in names => Foreign \in exposed'
  BY <1>1
<1>9. p0 \in Files(tree') /\ tree'[p0] = Foreign
  BY <1>5, <1>6, <1>7 DEF Files
<1>10. \A q \in Files(tree) : tree[q] \in owned' /\ tree[q] # Foreign => q \in Files(tree') /\ tree'[q] = tree[q]
  BY <1>5, <1>6 DEF Files
<1>11. \A q \in Files(tree') : tree'[q] = Foreign \/ (q \in Files(tree) /\ tree'[q] = tree[q])
  BY <1>5, <1>6 DEF Files
<1>12. /\ Present'
       /\ \A names \in HalfMoves : \A x, y \in names : x # y /\ Shared(x) => Shared(x)'
  BY <1>1, <1>8, <1>9, <1>10, <1>11, ChangedPlace
<1> QED
  BY <1>4, <1>5, <1>6, <1>12 DEF Harmless

LEMMA DeleteFileHarmless ==
    ASSUME FixInv, NEW p0 \in Files(tree), DeleteFile(p0)
    PROVE  Harmless
<1>1. owned' = owned \ {tree[p0]} /\ exposed' = exposed /\ p0 \in DOMAIN tree /\ tree[p0] # Folder
  BY DEF DeleteFile, Files
<1>2. PICK r : r = Unlinked(tree, p0)
  OBVIOUS
<1>3. Closed(r) /\ DOMAIN r = DOMAIN tree \ {p0} /\ \A p \in DOMAIN r : r[p] = tree[p]
  BY <1>1, <1>2, UnlinkedSound DEF FixInv, MoveInv
<1>4. tree' = r
  BY <1>2 DEF DeleteFile
<1>5. \A q \in Files(tree) : tree[q] \in owned' => q \in Files(tree') /\ tree'[q] = tree[q]
  BY <1>1, <1>3, <1>4 DEF Files
<1>6. Present'
  BY <1>1, <1>5 DEF FixInv, Present
<1>7. \A q \in Files(tree') : q \in Files(tree) /\ tree'[q] = tree[q]
  BY <1>3, <1>4 DEF Files
<1>8. ASSUME NEW x, Shared(x) PROVE Shared(x)'
  BY <1>1, <1>5, <1>7, <1>8 DEF Shared
<1> QED
  BY <1>1, <1>3, <1>4, <1>6, <1>8 DEF Harmless

LEMMA ForeignFix ==
    ASSUME FixInv, UndoInv', ForeignChange
    PROVE  FixInv'
<1>1. UNCHANGED <<project, n, queue, apc, upc, steps, k>>
  BY DEF ForeignChange, applying, undoing
<1>2. Harmless
  <2>1. CASE EditText
    BY <2>1 DEF EditText, Harmless, FixInv, MoveInv, Present, Shared
  <2>2. CASE \E p \in Files(tree) : EditFile(p) \/ SaveFile(p) \/ DeleteFile(p)
    BY <2>2, EditFileHarmless, SaveFileHarmless, DeleteFileHarmless
  <2>3. CASE \E p \in Intruded : AddFile(p)
    BY <2>3, AddFileHarmless
  <2> QED
    BY <2>1, <2>2, <2>3 DEF ForeignChange
<1>3. ASSUME NEW a, NEW b, {a, b} \in HalfMoves, Paired(a, b) PROVE Paired(a, b)'
  BY <1>2, <1>3 DEF Harmless, Paired
<1>4. \A p : InFolders(tree, p) => InFolders(tree', p)
  BY <1>2 DEF Harmless, InFolders
<1>5. Item' = Item /\ Step' = Step
  BY <1>1 DEF Item, Step, Plan
<1>6. upc' = "moved" => (Step.to \in Path /\ InFolders(tree, Step.to))'
  <2> SUFFICES ASSUME upc' = "moved" PROVE (Step.to \in Path /\ InFolders(tree, Step.to))'
    OBVIOUS
  <2> QED
    BY <1>1, <1>4, <1>5 DEF FixInv, MoveInv
<1>7. apc' = "linked" => Paired(Item.from, Item.to)'
  <2> SUFFICES ASSUME apc = "linked" PROVE Paired(Item.from, Item.to)'
    BY <1>1
  <2>1. PICK from, to : from = Item.from /\ to = Item.to
    OBVIOUS
  <2>2. Paired(from, to) /\ {from, to} \in HalfMoves
    BY <2>1 DEF FixInv, MoveInv, HalfMoves
  <2>3. Paired(from, to)'
    BY <1>3, <2>2
  <2> QED
    BY <1>5, <2>1, <2>3
<1>8. upc' = "linked" => Paired(Step.from, Step.to)'
  <2> SUFFICES ASSUME upc = "linked" PROVE Paired(Step.from, Step.to)'
    BY <1>1
  <2>1. PICK from, to : from = Step.from /\ to = Step.to
    OBVIOUS
  <2>2. Paired(from, to) /\ {from, to} \in HalfMoves
    BY <2>1 DEF FixInv, MoveInv, HalfMoves
  <2>3. Paired(from, to)'
    BY <1>3, <2>2
  <2> QED
    BY <1>5, <2>1, <2>3
<1> QED
  BY <1>1, <1>2, <1>4, <1>5, <1>6, <1>7, <1>8 DEF FixInv, MoveInv, Harmless, Plan

LEMMA FixInvInit == Init => FixInv
<1> SUFFICES ASSUME Init PROVE FixInv
  OBVIOUS
<1>1. project \in Projects /\ tree = StartTree /\ n = 1 /\ queue = <<>> /\ apc = "idle" /\ upc = "idle"
      /\ owned = {tree[p] : p \in Files(tree)} /\ exposed = {}
  BY DEF Init
<1>2. Closed(tree)
  BY <1>1, PlanAssumption DEF StartTree
<1>3. MoveInv
  BY <1>1, <1>2 DEF MoveInv
<1>4. Present
  BY <1>1 DEF Present
<1> QED
  BY <1>3, <1>4, UndoInvInit DEF FixInv

LEMMA FixInvStep ==
    ASSUME ~concurrent', FixInv, [Next]_vars
    PROVE  FixInv'
<1>1. UndoInv'
  BY UndoInvStep DEF FixInv
<1> QED
  BY <1>1, NextCases, ApplyFix, UndoFix, BeginApplyFix, BeginUndoFix, CancelFix, ForeignFix

\* Until an undo starts while the apply runs, every content the user has is in some file of the project
\* at every moment, what another program put under one of the two names of a half moved file excepted: for
\* every plan, every project, and every number of failures, crashes and changes by other programs.
THEOREM FixLosesNothing == Spec => [](concurrent \/ NothingLost)
<1>1. Init => concurrent \/ FixInv
  BY FixInvInit
<1>2. (concurrent \/ FixInv) /\ [Next]_vars => (concurrent \/ FixInv)'
  BY FixInvStep, ConcurrentStays
<1>3. FixInv => NothingLost
  BY DEF FixInv, Present, NothingLost
<1> QED
  BY <1>1, <1>2, <1>3, PTL DEF Spec
-----------------------------------------------------------------------------
(* Recursion. What is defined step by step over 0..N has, at every step, the value its definition says. *)

LEMMA LeastNat ==
    ASSUME NEW T \in SUBSET Nat, T # {}
    PROVE  \E x \in T : \A y \in T : x <= y
<1> DEFINE R == {ss \in Nat \X Nat : ss[1] < ss[2]}
<1>1. IsWellFoundedOn(R, Nat)
  BY NatLessThanWellFounded DEF OpToRel
<1>2. PICK x \in T : \A y \in T : ~ (<<y, x>> \in R)
  <2> HIDE DEF R
  <2> QED
    BY <1>1, WFMin, Zenon
<1>3. ASSUME NEW y \in T PROVE x <= y
  <2>1. x \in Nat /\ y \in Nat
    OBVIOUS
  <2>2. y < x => <<y, x>> \in R
    BY <2>1
  <2> QED
    BY <1>2, <2>1, <2>2
<1> QED
  BY <1>3

\* What holds of 0 and passes on to the next number holds of all.
LEMMA Induction ==
    ASSUME NEW S, 0 \in S, \A m \in Nat : m \in S => m + 1 \in S
    PROVE  Nat \subseteq S
<1> SUFFICES ASSUME Nat \ S # {} PROVE FALSE
  OBVIOUS
<1>1. PICK x \in Nat \ S : \A y \in Nat \ S : x <= y
  <2> DEFINE T == Nat \ S
  <2>1. T \in SUBSET Nat /\ T # {}
    OBVIOUS
  <2> HIDE DEF T
  <2>2. \E x \in T : \A y \in T : x <= y
    BY <2>1, LeastNat
  <2> QED
    BY <2>2 DEF T
<1>2. x # 0
  OBVIOUS
<1>3. x - 1 \in Nat /\ x - 1 \notin Nat \ S
  BY <1>1, <1>2
<1> QED
  BY <1>1, <1>3

\* The place of a path, folder move by folder move.
CarryOn(moves, p, m) ==
    Rebase(p, moves[Len(moves) + 1 - m].from, moves[Len(moves) + 1 - m].to)

IsCarry(at, N, moves, path) ==
    at = [m \in 0..N |-> IF m = 0 THEN path ELSE CarryOn(moves, at[m - 1], m)]

LEMMA CarryExists ==
    ASSUME NEW moves, NEW path, NEW N \in Nat
    PROVE  \E at : IsCarry(at, N, moves, path)
<1> DEFINE S == {m \in Nat : \E at : IsCarry(at, m, moves, path)}
<1>1. 0 \in S
  <2> DEFINE a == [m \in 0..0 |-> path]
  <2>1. IsCarry(a, 0, moves, path)
    BY DEF IsCarry
  <2> QED
    BY <2>1
<1>2. ASSUME NEW m \in Nat, m \in S PROVE m + 1 \in S
  <2>1. PICK a : IsCarry(a, m, moves, path)
    BY <1>2
  <2> DEFINE b == [x \in 0..(m + 1) |-> IF x <= m THEN a[x] ELSE CarryOn(moves, a[m], x)]
  <2>2. ASSUME NEW x \in 0..(m + 1)
        PROVE  b[x] = IF x = 0 THEN path ELSE CarryOn(moves, b[x - 1], x)
    <3>1. CASE x <= m
      <4>1. b[x] = a[x] /\ a[x] = IF x = 0 THEN path ELSE CarryOn(moves, a[x - 1], x)
        BY <2>1, <3>1 DEF IsCarry
      <4>2. x # 0 => b[x - 1] = a[x - 1]
        BY <3>1
      <4> QED
        BY <4>1, <4>2
    <3>2. CASE x = m + 1
      <4>1. b[x - 1] = a[m] /\ x # 0 /\ b[x] = CarryOn(moves, a[m], x)
        BY <3>2
      <4> QED
        BY <4>1
    <3> QED
      BY <3>1, <3>2
  <2>3. IsCarry(b, m + 1, moves, path)
    BY <2>2 DEF IsCarry
  <2> QED
    BY <2>3
<1>3. Nat \subseteq S
  <2> HIDE DEF S
  <2> QED
    BY <1>1, <1>2, Induction
<1> QED
  BY <1>3

LEMMA CarriedIs ==
    ASSUME NEW moves, NEW path, Len(moves) \in Nat
    PROVE  \E at : IsCarry(at, Len(moves), moves, path) /\ Carried(moves, path) = at[Len(moves)]
<1>1. \E a : IsCarry(a, Len(moves), moves, path)
  BY CarryExists
<1> DEFINE at == CHOOSE a : IsCarry(a, Len(moves), moves, path)
<1>2. IsCarry(at, Len(moves), moves, path)
  BY <1>1
<1>3. Carried(moves, path) = at[Len(moves)]
  BY DEF Carried, IsCarry, CarryOn
<1> QED
  BY <1>2, <1>3

\* The items reversed one after the other.
Unreversed(t) == [ok |-> TRUE, steps |-> <<>>, later |-> <<>>, text |-> t]

IsReversal(acc, N, items, t) ==
    acc = [m \in 0..N |-> IF m = 0 THEN Unreversed(t)
                          ELSE ReverseItem(items[Len(items) + 1 - m], acc[m - 1])]

LEMMA ReversalExists ==
    ASSUME NEW items, NEW t, NEW N \in Nat
    PROVE  \E acc : IsReversal(acc, N, items, t)
<1> DEFINE S == {m \in Nat : \E acc : IsReversal(acc, m, items, t)}
<1>1. 0 \in S
  <2> DEFINE a == [m \in 0..0 |-> Unreversed(t)]
  <2>1. IsReversal(a, 0, items, t)
    BY DEF IsReversal
  <2> QED
    BY <2>1
<1>2. ASSUME NEW m \in Nat, m \in S PROVE m + 1 \in S
  <2>1. PICK a : IsReversal(a, m, items, t)
    BY <1>2
  <2> DEFINE b == [x \in 0..(m + 1) |->
                     IF x <= m THEN a[x] ELSE ReverseItem(items[Len(items) + 1 - x], a[m])]
  <2>2. ASSUME NEW x \in 0..(m + 1)
        PROVE  b[x] = IF x = 0 THEN Unreversed(t) ELSE ReverseItem(items[Len(items) + 1 - x], b[x - 1])
    <3>1. CASE x <= m
      <4>1. b[x] = a[x]
            /\ a[x] = IF x = 0 THEN Unreversed(t) ELSE ReverseItem(items[Len(items) + 1 - x], a[x - 1])
        BY <2>1, <3>1 DEF IsReversal
      <4>2. x # 0 => b[x - 1] = a[x - 1]
        BY <3>1
      <4> QED
        BY <4>1, <4>2
    <3>2. CASE x = m + 1
      <4>1. b[x - 1] = a[m] /\ x # 0 /\ b[x] = ReverseItem(items[Len(items) + 1 - x], a[m])
        BY <3>2
      <4> QED
        BY <4>1
    <3> QED
      BY <3>1, <3>2
  <2>3. IsReversal(b, m + 1, items, t)
    BY <2>2 DEF IsReversal
  <2> QED
    BY <2>3
<1>3. Nat \subseteq S
  <2> HIDE DEF S
  <2> QED
    BY <1>1, <1>2, Induction
<1> QED
  BY <1>3

LEMMA ReversedIs ==
    ASSUME NEW items, Len(items) \in Nat
    PROVE  \E acc : IsReversal(acc, Len(items), items, text) /\ Reversed(items) = acc[Len(items)]
<1>1. \E a : IsReversal(a, Len(items), items, text)
  BY ReversalExists
<1> DEFINE acc == CHOOSE a : IsReversal(a, Len(items), items, text)
<1>2. IsReversal(acc, Len(items), items, text)
  BY <1>1
<1>3. Reversed(items) = acc[Len(items)]
  BY DEF Reversed, IsReversal, Unreversed
<1> QED
  BY <1>2, <1>3
-----------------------------------------------------------------------------
(* Where a change of the tree can put something. *)

LEMMA PrefixMeet ==
    ASSUME NEW a \in Seq(STRING), NEW b \in Seq(STRING), NEW c \in Seq(STRING),
           IsPrefix(a, c), IsPrefix(b, c)
    PROVE  IsPrefix(a, b) \/ IsPrefix(b, a)
<1>1. /\ Len(a) <= Len(c) /\ \A x \in 1..Len(a) : a[x] = c[x]
      /\ Len(b) <= Len(c) /\ \A x \in 1..Len(b) : b[x] = c[x]
  BY PrefixNames
<1>2. Len(a) \in Nat /\ Len(b) \in Nat
  OBVIOUS
<1>3. CASE Len(a) <= Len(b)
  BY <1>1, <1>2, <1>3, PrefixNames
<1>4. CASE Len(b) <= Len(a)
  BY <1>1, <1>2, <1>4, PrefixNames
<1> QED
  BY <1>2, <1>3, <1>4

LEMMA PrefixSelf ==
    ASSUME NEW a \in Seq(STRING)
    PROVE  IsPrefix(a, a)
  BY PrefixNames

LEMMA PrefixBoth ==
    ASSUME NEW a \in Seq(STRING), NEW b \in Seq(STRING), IsPrefix(a, b), IsPrefix(b, a)
    PROVE  a = b
<1>1. /\ Len(a) <= Len(b) /\ \A x \in 1..Len(a) : a[x] = b[x]
      /\ Len(b) <= Len(a)
  BY PrefixNames
<1> QED
  BY <1>1, SamePath

\* What has a path above or at a path of a closed tree.
LEMMA ClosedAbove ==
    ASSUME NEW t, Closed(t), NEW p \in DOMAIN t, NEW a \in Path, IsPrefix(a, p)
    PROVE  a \in DOMAIN t /\ (a # p => t[a] = Folder)
<1>1. a \in Seq(STRING) /\ p \in Seq(STRING) /\ InFolders(t, p)
  BY DEF Closed, Path
<1>2. a # p => a \in Ancestors(p)
  <2> SUFFICES ASSUME a # p PROVE a \in Ancestors(p)
    OBVIOUS
  <2>1. Len(a) <= Len(p) /\ \A x \in 1..Len(a) : a[x] = p[x]
    BY <1>1, PrefixNames
  <2>2. Len(a) # Len(p)
    BY <1>1, <2>1, SamePath
  <2>3. Len(a) \in Nat /\ Len(p) \in Nat
    BY <1>1
  <2> QED
    BY <1>1, <2>1, <2>2, <2>3, AncestorNames
<1> QED
  BY <1>1, <1>2 DEF InFolders

LEMMA FoldersOnly ==
    ASSUME NEW t, NEW A, NEW r, r = WithFolders(t, A)
    PROVE  /\ Files(r) = Files(t)
           /\ DOMAIN r = DOMAIN t \cup A
           /\ \A p \in DOMAIN t : r[p] = t[p]
  BY DEF WithFolders, Files

FolderGrown(t, A, r) ==
    Files(r) = Files(t) /\ DOMAIN r = DOMAIN t \cup A /\ \A p \in DOMAIN t : r[p] = t[p]

LEMMA GrownByFolders ==
    ASSUME NEW t, NEW A, NEW r, r = WithFolders(t, A)
    PROVE  FolderGrown(t, A, r)
  BY FoldersOnly DEF FolderGrown

\* A path outside the new place of a folder shows what was there, and nothing is left at the old one.
LEMMA RenamedOutside ==
    ASSUME NEW t, Closed(t), NEW src \in DOMAIN t, NEW dst \in Path, dst \notin DOMAIN t,
           NEW r, r = Renamed(t, src, dst), NEW p \in DOMAIN r, ~IsPrefix(dst, p)
    PROVE  p \in DOMAIN t /\ ~IsPrefix(src, p) /\ r[p] = t[p]
<1>1. src \in Seq(STRING) /\ dst \in Seq(STRING)
  BY DEF Closed, Path
<1>2. PICK q \in DOMAIN t : p = Rebase(q, src, dst)
  BY DEF Renamed
<1>3. q \in Seq(STRING)
  BY <1>2 DEF Closed, Path
<1>4. ~IsPrefix(src, q)
  BY <1>1, <1>2, <1>3, RebaseBack
<1>5. p = q
  BY <1>2, <1>4 DEF Rebase
<1>6. r[p] = t[p]
  BY DEF Renamed
<1> QED
  BY <1>4, <1>5, <1>6

LEMMA RenamedInside ==
    ASSUME NEW t, Closed(t), NEW src \in DOMAIN t, NEW dst \in Path, dst \notin DOMAIN t,
           NEW r, r = Renamed(t, src, dst), NEW p \in DOMAIN r, IsPrefix(dst, p)
    PROVE  Rebase(p, dst, src) \in DOMAIN t /\ r[p] = t[Rebase(p, dst, src)]
<1>1. src \in Seq(STRING) /\ dst \in Seq(STRING)
  BY DEF Closed, Path
<1>2. PICK q \in DOMAIN t : p = Rebase(q, src, dst)
  BY DEF Renamed
<1>3. q \in Seq(STRING)
  BY <1>2 DEF Closed, Path
<1>4. IsPrefix(src, q)
  <2> SUFFICES ASSUME ~IsPrefix(src, q) PROVE FALSE
    OBVIOUS
  <2>1. p = q
    BY <1>2 DEF Rebase
  <2> QED
    BY <2>1, ClosedAbove
<1>5. Rebase(p, dst, src) = q
  BY <1>1, <1>2, <1>3, <1>4, RebaseBack
<1>6. r[p] = t[Rebase(p, dst, src)]
  BY DEF Renamed
<1> QED
  BY <1>5, <1>6

LEMMA RenamedAway ==
    ASSUME NEW t, Closed(t), NEW src \in DOMAIN t, NEW dst \in Path, dst \notin DOMAIN t,
           NEW r, r = Renamed(t, src, dst), NEW p, IsPrefix(src, p), ~IsPrefix(dst, p)
    PROVE  p \notin DOMAIN r
  BY RenamedOutside

\* The manifest of a file is its content; every manifest shows what is at the path itself.
FileHash(c) == [rel \in {<<>>} |-> c]

LEMMA HashShows ==
    ASSUME NEW t, Closed(t), NEW p \in DOMAIN t
    PROVE  <<>> \in DOMAIN HashTree(t, p) /\ HashTree(t, p)[<<>>] = t[p]
<1>1. p \in Seq(STRING)
  BY DEF Closed, Path
<1>2. IsPrefix(p, p) /\ SubSeq(p, Len(p) + 1, Len(p)) = <<>> /\ p \o <<>> = p
  BY <1>1, PrefixSelf
<1> DEFINE Inside == {SubSeq(q, Len(p) + 1, Len(q)) : q \in {x \in DOMAIN t : IsPrefix(p, x)}}
<1>3. <<>> \in Inside
  BY <1>2
<1>4. HashTree(t, p) = [rel \in Inside |-> t[p \o rel]]
  BY DEF HashTree
<1> QED
  BY <1>2, <1>3, <1>4

LEMMA HashOfFile ==
    ASSUME NEW t, Closed(t), NEW p \in Files(t)
    PROVE  HashTree(t, p) = FileHash(t[p])
<1>1. p \in Path /\ p \in Seq(STRING) /\ p \in DOMAIN t /\ t[p] # Folder
  BY DEF Closed, Path, Files
<1>2. \A x \in DOMAIN t : IsPrefix(p, x) => x = p
  BY <1>1, ClosedAbove
<1>3. IsPrefix(p, p) /\ SubSeq(p, Len(p) + 1, Len(p)) = <<>> /\ p \o <<>> = p
  BY <1>1, PrefixSelf
<1> DEFINE Inside == {SubSeq(q, Len(p) + 1, Len(q)) : q \in {x \in DOMAIN t : IsPrefix(p, x)}}
<1>4. Inside = {<<>>}
  BY <1>1, <1>2, <1>3
<1>5. HashTree(t, p) = [rel \in Inside |-> t[p \o rel]]
  BY DEF HashTree
<1> QED
  BY <1>3, <1>4, <1>5 DEF FileHash
-----------------------------------------------------------------------------
(* What the promise says of a gated patch: of its place, of where a legacy folder takes it, and of what *)
(* every other item does.                                                                               *)

LEMMA PlanTyped ==
    ASSUME project \in Projects, NEW x \in DOMAIN Plan
    PROVE  /\ x \in Nat \ {0} /\ Plan[x].kind \in Kinds
           /\ Plan[x].from \in Seq(STRING) /\ Plan[x].to \in Seq(STRING)
           /\ Plan[x].requires \subseteq DOMAIN Plan
           /\ Plan[x].kind \in MoveKinds \cup {"create-folder"} => Plan[x].to \in Path
<1> DEFINE Shapes == [kind : Kinds, from : Seq(STRING), to : Seq(STRING), requires : SUBSET Nat]
<1>1. /\ Plan \in Seq(Shapes)
      /\ Plan[x].requires \subseteq DOMAIN Plan
      /\ Plan[x].kind \in MoveKinds \cup {"create-folder"} => Plan[x].to \in Path
  BY PlanAssumption, Zenon DEF Plan
<1>2. x \in Nat \ {0} /\ Plan[x] \in Shapes
  <2> HIDE DEF Shapes
  <2> QED
    BY <1>1
<1>3. /\ Plan[x].kind \in Kinds /\ Plan[x].from \in Seq(STRING) /\ Plan[x].to \in Seq(STRING)
  BY <1>2
<1> QED
  BY <1>1, <1>2, <1>3

LEMMA StartClosed ==
    ASSUME project \in Projects
    PROVE  Closed(StartTree)
  BY PlanAssumption DEF StartTree

Gated(i, g) ==
    /\ i \in DOMAIN Plan /\ g \in DOMAIN Plan
    /\ Plan[i].kind = "move-file" /\ Plan[g].kind = "gate" /\ g \in Plan[i].requires

LEMMA Promised ==
    ASSUME project \in Projects, PlannerPromise, NEW i, NEW g, Gated(i, g)
    PROVE  PlannedOrder(Plan, g) /\ PlannedPlaces(Plan, StartTree, g)
<1>1. g \in Gates(Plan)
  BY DEF Gated, Gates
<1> QED
  BY <1>1 DEF PlannerPromise, Plan, StartTree

LegacyOf(g) == Legacy(Plan, g)
Carry(i, f) == Rebase(Plan[i].to, Plan[f].from, Plan[f].to)
Spots(i, g) == {Plan[i].to} \cup {Carry(i, f) : f \in LegacyOf(g)}

LEMMA PromisedOrder ==
    ASSUME project \in Projects, PlannerPromise, NEW i, NEW g, Gated(i, g)
    PROVE  /\ \A x \in DOMAIN Plan : Plan[x].kind = "gate" => x = g
           /\ \A x \in DOMAIN Plan : Plan[x].kind \in MoveKinds => g < x
           /\ \A r, r2 \in DOMAIN Plan :
                Plan[r].kind = "rename-entry" /\ Plan[r2].kind = "rename-entry" => r = r2
           /\ \A f \in LegacyOf(g) : \A x \in DOMAIN Plan : Plan[x].kind = "move-file" => x < f
           /\ \A f, f2 \in LegacyOf(g) : f = f2
           /\ \A r \in DOMAIN Plan : Plan[r].kind = "rename-entry" =>
                \E f \in LegacyOf(g) : f \in Plan[r].requires /\ f < r
  BY Promised DEF PlannedOrder, Gates, Moves, FileMoves, Renames, LegacyOf, MoveKinds

LEMMA LegacyFacts ==
    ASSUME project \in Projects, PlannerPromise, NEW i, NEW g, Gated(i, g), NEW f \in LegacyOf(g)
    PROVE  /\ f \in DOMAIN Plan /\ Plan[f].kind = "move-folder" /\ Plan[f].from = Plan[g].to
           /\ Plan[f].to \in Path /\ Plan[f].to \in Seq(STRING)
           /\ Plan[f].from \in Path /\ Plan[f].from \in Seq(STRING)
           /\ Plan[f].to \notin DOMAIN StartTree
           /\ ~IsPrefix(Plan[f].to, Plan[f].from) /\ ~IsPrefix(Plan[f].from, Plan[f].to)
<1>1. f \in DOMAIN Plan /\ Plan[f].kind = "move-folder" /\ Plan[f].from = Plan[g].to
  BY DEF LegacyOf, Legacy
<1>2. /\ Plan[f].to \notin DOMAIN StartTree /\ Apart(Plan[f].to, Plan[g].to)
      /\ Plan[f].from \in DOMAIN StartTree
  BY <1>1, Promised DEF PlannedPlaces, LegacyOf, Moves, MoveKinds
<1>3. Plan[f].to \in Path /\ Plan[f].from \in Path
  BY <1>1, <1>2, PlanTyped, StartClosed DEF MoveKinds, Closed
<1> QED
  BY <1>1, <1>2, <1>3 DEF Apart, Path

LEMMA PatchFacts ==
    ASSUME project \in Projects, PlannerPromise, NEW i, NEW g, Gated(i, g)
    PROVE  /\ Plan[i].to \in Path /\ Plan[i].to \in Seq(STRING) /\ Plan[g].to \in Seq(STRING)
           /\ IsPrefix(Plan[g].to, Plan[i].to) /\ Plan[i].to # Plan[g].to
           /\ Plan[i].to \notin DOMAIN StartTree
<1>1. i \in Patches(Plan, g) /\ i \in DOMAIN Plan /\ g \in DOMAIN Plan /\ Plan[i].kind = "move-file"
  BY DEF Gated, Patches
<1>2. Plan[i].to \in Path /\ Plan[g].to \in Seq(STRING)
  BY <1>1, PlanTyped DEF MoveKinds
<1> QED
  BY <1>1, <1>2, Promised DEF PlannedPlaces, Path

\* Where the legacy folder takes the patch: below its new place, and back.
LEMMA CarryFacts ==
    ASSUME project \in Projects, PlannerPromise, NEW i, NEW g, Gated(i, g), NEW f \in LegacyOf(g)
    PROVE  /\ Carry(i, f) \in Seq(STRING)
           /\ IsPrefix(Plan[f].to, Carry(i, f)) /\ Carry(i, f) # Plan[f].to
           /\ Rebase(Carry(i, f), Plan[f].to, Plan[f].from) = Plan[i].to
           /\ Carry(i, f) # Plan[i].to
           /\ Carry(i, f) \notin DOMAIN StartTree
           /\ ~IsPrefix(Plan[f].from, Carry(i, f)) /\ ~IsPrefix(Plan[f].to, Plan[i].to)
<1>1. PICK h, a, b : h = Plan[i].to /\ a = Plan[f].from /\ b = Plan[f].to
  OBVIOUS
<1>2. /\ h \in Seq(STRING) /\ a \in Seq(STRING) /\ b \in Seq(STRING) /\ b \in Path
      /\ IsPrefix(a, h) /\ h # a /\ ~IsPrefix(a, b) /\ ~IsPrefix(b, a)
      /\ b \notin DOMAIN StartTree
  BY <1>1, LegacyFacts, PatchFacts
<1>3. PICK c : c = Rebase(h, a, b)
  OBVIOUS
<1>4. c = Carry(i, f)
  BY <1>1, <1>3 DEF Carry
<1>5. IsPrefix(b, c) /\ Rebase(c, b, a) = h
  BY <1>2, <1>3, RebaseBack
<1>6. c \in Seq(STRING) /\ Len(c) = Len(b) + Len(h) - Len(a)
  BY <1>2, <1>3, RebaseNames DEF Rebased
<1>7. c # b
  <2>1. Len(a) <= Len(h) /\ \A x \in 1..Len(a) : a[x] = h[x]
    BY <1>2, PrefixNames
  <2>2. Len(a) # Len(h)
    BY <1>2, <2>1, SamePath
  <2>3. Len(c) # Len(b)
    BY <1>2, <1>6, <2>1, <2>2
  <2> QED
    BY <2>3
<1>8. ~IsPrefix(a, c)
  BY <1>2, <1>5, <1>6, PrefixMeet
<1>9. ~IsPrefix(b, h)
  BY <1>2, PrefixMeet
<1>10. c \notin DOMAIN StartTree
  BY <1>2, <1>5, StartClosed, ClosedAbove
<1> QED
  BY <1>1, <1>2, <1>4, <1>5, <1>6, <1>7, <1>8, <1>9, <1>10

\* No other item has a destination at or above a place of the patch, nor at, above or below the folder.
Clear(x, i, g) ==
    /\ \A p \in Spots(i, g) : ~IsPrefix(x, p)
    /\ \A f \in LegacyOf(g) :
         /\ ~IsPrefix(x, Plan[f].to) /\ ~IsPrefix(Plan[f].to, x)
         /\ ~IsPrefix(x, Plan[f].from) /\ ~IsPrefix(Plan[f].from, x)

LEMMA ApartClear ==
    ASSUME project \in Projects, PlannerPromise, NEW i, NEW g, Gated(i, g), NEW x \in Seq(STRING),
           Apart(x, Plan[g].to), \A f \in LegacyOf(g) : Apart(x, Plan[f].to)
    PROVE  Clear(x, i, g)
<1>1. ~IsPrefix(x, Plan[i].to)
  BY PatchFacts, PrefixMeet DEF Apart
<1>2. ASSUME NEW f \in LegacyOf(g) PROVE ~IsPrefix(x, Carry(i, f))
  BY CarryFacts, LegacyFacts, PrefixMeet DEF Apart
<1>3. \A f \in LegacyOf(g) : Plan[f].from = Plan[g].to
  BY LegacyFacts
<1> QED
  BY <1>1, <1>2, <1>3 DEF Clear, Spots, Apart

LEMMA OthersClear ==
    ASSUME project \in Projects, PlannerPromise, NEW i, NEW g, Gated(i, g), NEW x \in DOMAIN Plan,
           ~Gated(x, g), x \notin LegacyOf(g)
    PROVE  /\ Plan[x].kind \in MoveKinds \cup {"create-folder"} => Clear(Plan[x].to, i, g)
           /\ Plan[x].kind = "move-folder" => Clear(Plan[x].from, i, g)
<1>1. x \in DOMAIN Plan \ (Patches(Plan, g) \cup Legacy(Plan, g))
  BY DEF Gated, Patches, LegacyOf
<1>2. /\ Plan[x].to \in Seq(STRING) /\ Plan[x].from \in Seq(STRING)
  BY PlanTyped
<1> DEFINE places == {Plan[g].to} \cup {Plan[f].to : f \in Legacy(Plan, g)}
<1>3. \A place \in places :
        /\ Plan[x].kind \in MoveKinds \cup {"create-folder"} => Apart(Plan[x].to, place)
        /\ Plan[x].kind = "move-folder" => Apart(Plan[x].from, place)
  BY <1>1, Promised DEF PlannedPlaces
<1>4. Plan[g].to \in places /\ \A f \in LegacyOf(g) : Plan[f].to \in places
  BY DEF LegacyOf
<1> HIDE DEF places
<1>5. CASE Plan[x].kind \in MoveKinds \cup {"create-folder"}
  <2>1. Apart(Plan[x].to, Plan[g].to) /\ \A f \in LegacyOf(g) : Apart(Plan[x].to, Plan[f].to)
    BY <1>3, <1>4, <1>5
  <2>2. Clear(Plan[x].to, i, g)
    BY <1>2, <2>1, ApartClear
  <2>3. Plan[x].kind = "move-folder" => Clear(Plan[x].from, i, g)
    <3> SUFFICES ASSUME Plan[x].kind = "move-folder" PROVE Clear(Plan[x].from, i, g)
      OBVIOUS
    <3>1. Apart(Plan[x].from, Plan[g].to) /\ \A f \in LegacyOf(g) : Apart(Plan[x].from, Plan[f].to)
      BY <1>3, <1>4
    <3> QED
      BY <1>2, <3>1, ApartClear
  <2> QED
    BY <2>2, <2>3
<1> QED
  BY <1>5 DEF MoveKinds

\* Another gated patch goes to this patch's place or misses all that matters.
LEMMA PatchesApart ==
    ASSUME project \in Projects, PlannerPromise, NEW i, NEW g, Gated(i, g), NEW x, Gated(x, g)
    PROVE  \A f \in LegacyOf(g) : /\ Plan[x].to # Carry(i, f)
                                  /\ ~IsPrefix(Plan[x].to, Plan[f].to) /\ ~IsPrefix(Plan[f].to, Plan[x].to)
<1> SUFFICES ASSUME NEW f \in LegacyOf(g)
             PROVE  /\ Plan[x].to # Carry(i, f)
                    /\ ~IsPrefix(Plan[x].to, Plan[f].to) /\ ~IsPrefix(Plan[f].to, Plan[x].to)
  OBVIOUS
<1>1. PICK y, a, b, c : y = Plan[x].to /\ a = Plan[f].from /\ b = Plan[f].to /\ c = Carry(i, f)
  OBVIOUS
<1>2. /\ y \in Seq(STRING) /\ a \in Seq(STRING) /\ b \in Seq(STRING)
      /\ IsPrefix(a, y) /\ ~IsPrefix(a, b) /\ ~IsPrefix(b, a)
  BY <1>1, LegacyFacts, PatchFacts
<1>3. ~IsPrefix(b, y)
  BY <1>2, PrefixMeet
<1>4. ~IsPrefix(y, b)
  BY <1>2, PrefixChain
<1>5. y # c
  BY <1>1, <1>3, CarryFacts
<1> QED
  BY <1>1, <1>3, <1>4, <1>5

\* What lies in the project from the start is in none of the places.
LEMMA StartElsewhere ==
    ASSUME project \in Projects, PlannerPromise, NEW i, NEW g, Gated(i, g), NEW p \in DOMAIN StartTree
    PROVE  p \notin Spots(i, g) /\ \A f \in LegacyOf(g) : ~IsPrefix(Plan[f].to, p)
<1>1. \A f \in LegacyOf(g) : ~IsPrefix(Plan[f].to, p)
  BY LegacyFacts, StartClosed, ClosedAbove
<1> QED
  BY <1>1, PatchFacts, CarryFacts DEF Spots

LEMMA SourcesStart ==
    ASSUME project \in Projects, PlannerPromise, NEW i, NEW g, Gated(i, g), NEW x \in DOMAIN Plan,
           Plan[x].kind \in MoveKinds
    PROVE  /\ Plan[x].from \in DOMAIN StartTree /\ Plan[x].from \in Path
           /\ Plan[x].kind = "move-file" => Plan[x].from \in Files(StartTree)
<1>1. Plan[x].from \in DOMAIN StartTree
  BY Promised DEF PlannedPlaces, Moves
<1>2. Plan[x].kind = "move-file" => Plan[x].from \in Files(StartTree)
  BY Promised DEF PlannedPlaces, Moves, FileMoves
<1> QED
  BY <1>1, <1>2, StartClosed DEF Closed
-----------------------------------------------------------------------------
(* The journal. Its entries are those of the chosen items, in the order of the plan; an entry the apply *)
(* has started changes only in its status from then on.                                                *)

Working == ApplyRuns /\ apc # "next"

Fields == {"id", "kind", "to", "status", "from", "hash", "top", "before", "after"}

EntryShape(e, item) ==
    /\ DOMAIN e = Fields /\ e.kind = item.kind /\ e.to = item.to
    /\ item.kind \in MoveKinds => e.from = item.from
    /\ item.kind = "move-file" /\ item.from \in DOMAIN StartTree
         => e.hash \subseteq {HashTree(StartTree, item.from)}

\* An entry the apply has started, or passed without skipping it.
Standing(m) ==
    /\ m \in 1..Len(queue) /\ mem.items[m].status # "skipped"
    /\ ApplyRuns => m < n \/ (m = n /\ Working)

MemShape ==
    /\ DOMAIN mem = {"state", "items"} /\ DOMAIN mem.items = 1..Len(queue)
    /\ \A m \in 1..Len(queue) : EntryShape(mem.items[m], Plan[queue[m]])

EntriesShape ==
    \A m \in 1..Len(queue) :
        /\ ApplyRuns /\ m >= n => mem.items[m].status = "pending"
        /\ mem.items[m].after # {} => mem.items[m].kind \in EditKinds /\ Standing(m)

QueueShape ==
    /\ \A a, b \in DOMAIN queue : a < b => queue[a] < queue[b]
    /\ \A a \in DOMAIN queue : \A r \in Plan[queue[a]].requires : \E b \in DOMAIN queue : queue[b] = r

PointShape ==
    /\ Working => n <= Len(queue) /\ ~PartnerMissing
    /\ apc \in {"journaled", "expected"} => Item.kind \in EditKinds
    /\ \A r \in finished : \E a \in DOMAIN queue : a < n /\ queue[a] = r

JournalShape ==
    /\ \A j \in journal : "items" \in DOMAIN j /\ j.items = mem.items
    /\ upc # "idle" => "items" \in DOMAIN umem /\ umem.items = mem.items
    /\ ApplyRuns => upc = "idle"
    /\ apc = "idle" => queue = <<>>
    /\ foreign \in Nat

ShapeInv == MemShape /\ EntriesShape /\ QueueShape /\ PointShape /\ JournalShape

Restated(e, e2) == DOMAIN e2 = Fields /\ \A x \in Fields \ {"status"} : e2[x] = e[x]

EntriesKept ==
    queue' = queue
      /\ \A m \in 1..Len(queue) : Standing(m) => Standing(m)' /\ Restated(mem.items[m], mem'.items[m])

LEMMA JournaledEffect ==
    ASSUME MemShape, n \in 1..Len(queue), NEW row, Journaled(row)
    PROVE  /\ DOMAIN mem' = {"state", "items"} /\ DOMAIN mem'.items = 1..Len(queue)
           /\ mem'.items[n] = row
           /\ \A m \in 1..Len(queue) : m # n => mem'.items[m] = mem.items[m]
           /\ journal' = {mem'}
<1>1. mem' = [mem EXCEPT !.items = [mem.items EXCEPT ![n] = row]]
  BY DEF Journaled
<1>2. mem'.items = [mem.items EXCEPT ![n] = row] /\ DOMAIN mem' = {"state", "items"}
  BY <1>1 DEF MemShape
<1> QED
  BY <1>2 DEF MemShape, Journaled

LEMMA RecordEffect ==
    ASSUME MemShape, n \in 1..Len(queue), NEW status, Journaled([Entry EXCEPT !.status = status])
    PROVE  /\ DOMAIN mem' = {"state", "items"} /\ DOMAIN mem'.items = 1..Len(queue)
           /\ Restated(mem.items[n], mem'.items[n]) /\ mem'.items[n].status = status
           /\ \A m \in 1..Len(queue) : m # n => mem'.items[m] = mem.items[m]
           /\ journal' = {mem'}
<1>1. DOMAIN Entry = Fields
  BY DEF MemShape, EntryShape, Entry
<1>2. PICK row : row = [Entry EXCEPT !.status = status]
  OBVIOUS
<1>3. DOMAIN row = Fields /\ row.status = status /\ \A x \in Fields \ {"status"} : row[x] = Entry[x]
  BY <1>1, <1>2 DEF Fields
<1>4. Restated(mem.items[n], row)
  BY <1>3 DEF Restated, Entry
<1> QED
  BY <1>2, <1>3, <1>4, JournaledEffect

LEMMA RestatedShape ==
    ASSUME NEW e, NEW e2, NEW item, EntryShape(e, item), Restated(e, e2)
    PROVE  EntryShape(e2, item) /\ e2.kind = e.kind /\ e2.after = e.after
<1>1. /\ e2.kind = e.kind /\ e2.to = e.to /\ e2.from = e.from /\ e2.hash = e.hash /\ e2.after = e.after
  BY DEF Restated, Fields
<1> QED
  BY <1>1 DEF EntryShape, Restated

\* A step that records the outcome of the item and goes on to the next.
LEMMA RecordShapes ==
    ASSUME FixInv, ShapeInv, ApplyRuns, n \in 1..Len(queue),
           NEW status, Journaled([Entry EXCEPT !.status = status]), status = "skipped" => apc = "next",
           n' = n + 1, apc' = "next", queue' = queue, project' = project,
           finished' \subseteq finished \cup {queue[n]}, upc' = upc, umem' = umem, foreign' = foreign
    PROVE  ShapeInv' /\ EntriesKept
<1>1. queue \in Seq(DOMAIN Plan) /\ n \in Nat /\ Len(queue) \in Nat /\ ApplyRuns' /\ ~Working'
  BY DEF FixInv, MoveInv, ApplyRuns, Working
<1>2. /\ DOMAIN mem' = {"state", "items"} /\ DOMAIN mem'.items = 1..Len(queue)
      /\ Restated(mem.items[n], mem'.items[n]) /\ mem'.items[n].status = status
      /\ \A m \in 1..Len(queue) : m # n => mem'.items[m] = mem.items[m]
      /\ journal' = {mem'}
  BY RecordEffect DEF ShapeInv
<1>3. ASSUME NEW m \in 1..Len(queue)
      PROVE  /\ EntryShape(mem.items[m], Plan[queue[m]])'
             /\ mem'.items[m].kind = mem.items[m].kind /\ mem'.items[m].after = mem.items[m].after
  <2>1. EntryShape(mem.items[m], Plan[queue[m]]) /\ m \in DOMAIN queue
    BY <1>1 DEF ShapeInv, MemShape
  <2>2. /\ EntryShape(mem'.items[m], Plan[queue[m]])
        /\ mem'.items[m].kind = mem.items[m].kind /\ mem'.items[m].after = mem.items[m].after
    <3>1. CASE m = n
      BY <1>2, <2>1, <3>1, RestatedShape
    <3>2. CASE m # n
      BY <1>2, <2>1, <3>2
    <3> QED
      BY <3>1, <3>2
  <2> QED
    BY <2>2 DEF EntryShape, Plan, StartTree
<1>4. MemShape'
  BY <1>2, <1>3 DEF MemShape
<1>5. ASSUME NEW m \in 1..Len(queue), Standing(m)
      PROVE  Standing(m)' /\ Restated(mem.items[m], mem'.items[m])
  <2>1. CASE m = n
    BY <1>1, <1>2, <1>5, <2>1 DEF Standing, Working
  <2>2. CASE m # n
    <3>1. mem'.items[m] = mem.items[m] /\ DOMAIN mem.items[m] = Fields
      BY <1>2, <2>2 DEF ShapeInv, MemShape, EntryShape
    <3> QED
      BY <1>1, <1>5, <2>2, <3>1 DEF Standing, Restated
  <2> QED
    BY <2>1, <2>2
<1>6. ASSUME NEW m \in 1..Len(queue)
      PROVE  /\ m >= n + 1 => mem'.items[m].status = "pending"
             /\ mem'.items[m].after # {} => mem'.items[m].kind \in EditKinds /\ Standing(m)'
  <2>1. m >= n + 1 => m # n /\ m >= n
    BY <1>1
  <2> QED
    BY <1>2, <1>3, <1>5, <2>1 DEF ShapeInv, EntriesShape
<1>7. EntriesShape'
  BY <1>6 DEF EntriesShape
<1>8. QueueShape'
  BY DEF ShapeInv, QueueShape, Plan
<1>9. PointShape'
  <2>1. ASSUME NEW r \in finished' PROVE \E a \in DOMAIN queue : a < n + 1 /\ queue[a] = r
    <3>1. CASE r \in finished
      <4>1. PICK a \in DOMAIN queue : a < n /\ queue[a] = r
        BY <3>1 DEF ShapeInv, PointShape
      <4>2. a < n + 1
        BY <1>1, <4>1
      <4> QED
        BY <4>1, <4>2
    <3>2. CASE r = queue[n]
      <4>1. n \in DOMAIN queue /\ n < n + 1
        BY <1>1
      <4> QED
        BY <3>2, <4>1
    <3> QED
      BY <3>1, <3>2
  <2> QED
    BY <1>1, <2>1 DEF PointShape
<1>10. JournalShape'
  BY <1>2 DEF ShapeInv, JournalShape, ApplyRuns
<1> QED
  BY <1>4, <1>5, <1>7, <1>8, <1>9, <1>10 DEF ShapeInv, EntriesKept

\* A step within an item that writes its entry: before the item changes anything.
LEMMA WriteShapes ==
    ASSUME FixInv, ShapeInv, apc = "next", n \in 1..Len(queue), ~PartnerMissing,
           NEW row, Journaled(row), EntryShape(row, Item), row.status = Entry.status,
           row.after # {} => row.kind \in EditKinds,
           apc' \in {"checked", "journaled"}, apc' = "journaled" => Item.kind \in EditKinds,
           n' = n, queue' = queue, project' = project, finished' = finished,
           upc' = upc, umem' = umem, foreign' = foreign
    PROVE  ShapeInv' /\ EntriesKept
<1>1. /\ queue \in Seq(DOMAIN Plan) /\ n \in Nat /\ Len(queue) \in Nat
      /\ ApplyRuns /\ ApplyRuns' /\ ~Working /\ Working'
  BY DEF FixInv, MoveInv, ApplyRuns, Working
<1>2. /\ DOMAIN mem' = {"state", "items"} /\ DOMAIN mem'.items = 1..Len(queue)
      /\ mem'.items[n] = row
      /\ \A m \in 1..Len(queue) : m # n => mem'.items[m] = mem.items[m]
      /\ journal' = {mem'}
  BY JournaledEffect DEF ShapeInv
<1>3. ASSUME NEW m \in 1..Len(queue) PROVE EntryShape(mem.items[m], Plan[queue[m]])'
  <2>1. EntryShape(mem.items[m], Plan[queue[m]]) /\ m \in DOMAIN queue
    BY <1>1 DEF ShapeInv, MemShape
  <2>2. EntryShape(mem'.items[m], Plan[queue[m]])
    BY <1>2, <2>1 DEF Item
  <2> QED
    BY <2>2 DEF EntryShape, Plan, StartTree
<1>4. MemShape'
  BY <1>2, <1>3 DEF MemShape
<1>5. ASSUME NEW m \in 1..Len(queue), Standing(m)
      PROVE  Standing(m)' /\ Restated(mem.items[m], mem'.items[m])
  <2>1. m < n /\ m # n
    BY <1>1, <1>5 DEF Standing
  <2>2. mem'.items[m] = mem.items[m] /\ DOMAIN mem.items[m] = Fields
    BY <1>2, <2>1 DEF ShapeInv, MemShape, EntryShape
  <2> QED
    BY <1>1, <1>5, <2>1, <2>2 DEF Standing, Restated
<1>6. ASSUME NEW m \in 1..Len(queue)
      PROVE  /\ m >= n => mem'.items[m].status = "pending"
             /\ mem'.items[m].after # {} => mem'.items[m].kind \in EditKinds /\ Standing(m)'
  <2>1. CASE m = n
    <3>1. Entry.status = "pending"
      BY <1>1, <2>1 DEF ShapeInv, EntriesShape, Entry
    <3> QED
      BY <1>1, <1>2, <2>1, <3>1 DEF Standing
  <2>2. CASE m # n
    BY <1>1, <1>2, <1>5, <2>2 DEF ShapeInv, EntriesShape
  <2> QED
    BY <2>1, <2>2
<1>7. EntriesShape'
  BY <1>6 DEF EntriesShape
<1>8. QueueShape'
  BY DEF ShapeInv, QueueShape, Plan
<1>9. PointShape'
  <2>1. Item' = Item /\ ~PartnerMissing'
    BY DEF Item, Plan, PartnerMissing
  <2> QED
    BY <2>1 DEF ShapeInv, PointShape
<1>10. JournalShape'
  BY <1>2 DEF ShapeInv, JournalShape, ApplyRuns
<1> QED
  BY <1>4, <1>5, <1>7, <1>8, <1>9, <1>10 DEF ShapeInv, EntriesKept

\* A step that leaves the journal alone, within an item or at the end of the apply.
LEMMA QuietShapes ==
    ASSUME FixInv, ShapeInv, mem' = mem, journal' = journal, n' = n, queue' = queue, project' = project,
           finished' = finished, foreign' \in Nat,
           Working' => n <= Len(queue) /\ ~PartnerMissing,
           ApplyRuns' => ApplyRuns /\ (Working => Working'), apc' = "idle" => apc = "idle",
           apc' \in {"journaled", "expected"} => Item.kind \in EditKinds,
           ApplyRuns' => upc' = "idle",
           upc' # "idle" => (upc # "idle" /\ umem' = umem) \/ umem' \in journal
    PROVE  ShapeInv' /\ EntriesKept
<1>1. Item' = Item /\ PartnerMissing' = PartnerMissing
  BY DEF Item, Plan, PartnerMissing
<1>2. ASSUME NEW m \in 1..Len(queue), Standing(m)
      PROVE  Standing(m)' /\ Restated(mem.items[m], mem'.items[m])
  <2>1. DOMAIN mem.items[m] = Fields
    BY DEF ShapeInv, MemShape, EntryShape
  <2> QED
    BY <1>2, <2>1 DEF Standing, Restated
<1>3. MemShape'
  BY DEF ShapeInv, MemShape, EntryShape, Plan, StartTree
<1>4. EntriesShape'
  BY <1>2 DEF ShapeInv, EntriesShape
<1>5. QueueShape'
  BY DEF ShapeInv, QueueShape, Plan
<1>6. PointShape'
  BY <1>1 DEF ShapeInv, PointShape
<1>7. JournalShape'
  BY DEF ShapeInv, JournalShape
<1> QED
  BY <1>2, <1>3, <1>4, <1>5, <1>6, <1>7 DEF ShapeInv, EntriesKept

\* The apply has ended or is cancelled: only the state of the journal changes.
LEMMA EndShapes ==
    ASSUME FixInv, ShapeInv, EndApply
    PROVE  ShapeInv' /\ EntriesKept
<1>1. /\ UNCHANGED <<project, n, queue, finished, upc, umem, foreign>> /\ apc = "next" /\ apc' = "ended"
      /\ mem' = [mem EXCEPT !.state = IF n <= Len(queue) THEN "cancelled" ELSE "complete"]
      /\ journal' = {mem'}
  BY DEF EndApply, disk, undoing, budget
<1>2. mem'.items = mem.items /\ DOMAIN mem' = DOMAIN mem /\ "items" \in DOMAIN mem
  BY <1>1 DEF ShapeInv, MemShape
<1>3. ASSUME NEW m \in 1..Len(queue), Standing(m)
      PROVE  Standing(m)' /\ Restated(mem.items[m], mem'.items[m])
  <2>1. DOMAIN mem.items[m] = Fields
    BY DEF ShapeInv, MemShape, EntryShape
  <2> QED
    BY <1>1, <1>2, <1>3, <2>1 DEF Standing, Restated, ApplyRuns
<1>4. MemShape'
  BY <1>1, <1>2 DEF ShapeInv, MemShape, EntryShape, Plan, StartTree
<1>5. EntriesShape'
  BY <1>1, <1>2, <1>3 DEF ShapeInv, EntriesShape, ApplyRuns
<1>6. QueueShape'
  BY <1>1 DEF ShapeInv, QueueShape, Plan
<1>7. PointShape'
  BY <1>1 DEF ShapeInv, PointShape, Working, ApplyRuns
<1>8. JournalShape'
  BY <1>1, <1>2 DEF ShapeInv, JournalShape, ApplyRuns
<1> QED
  BY <1>1, <1>3, <1>4, <1>5, <1>6, <1>7, <1>8 DEF ShapeInv, EntriesKept

\* The position of an apply that is at work, or about to carry an item out.
LEMMA AtItem ==
    ASSUME FixInv, ShapeInv, Working \/ (apc = "next" /\ n <= Len(queue))
    PROVE  /\ n \in 1..Len(queue) /\ queue[n] \in DOMAIN Plan /\ ApplyRuns
           /\ EntryShape(Entry, Item) /\ Entry = mem.items[n] /\ Item = Plan[queue[n]]
           /\ Entry.status = "pending"
<1>1. n \in Nat \ {0} /\ queue \in Seq(DOMAIN Plan) /\ n <= Len(queue) /\ ApplyRuns
  BY DEF FixInv, MoveInv, ShapeInv, PointShape, Working, ApplyRuns
<1>2. n \in 1..Len(queue) /\ queue[n] \in DOMAIN Plan
  BY <1>1
<1> QED
  BY <1>1, <1>2 DEF ShapeInv, MemShape, EntriesShape, Entry, Item

Recording == SkipItem \/ RefuseMove \/ RefuseLate \/ LoseSource \/ FailItem \/ RecordDone

LEMMA RecordingShapes ==
    ASSUME FixInv, ShapeInv, Recording
    PROVE  ShapeInv' /\ EntriesKept
<1>1. UNCHANGED <<project, upc, umem, foreign>>
  BY DEF Recording, SkipItem, RefuseMove, RefuseLate, LoseSource, FailItem, RecordDone, undoing, budget
<1>2. Working \/ (apc = "next" /\ n <= Len(queue))
  BY DEF Recording, SkipItem, RefuseMove, RefuseLate, LoseSource, FailItem, RecordDone, CarryOut, Working, ApplyRuns
<1>3. n \in 1..Len(queue) /\ ApplyRuns
  BY <1>2, AtItem
<1>4. CASE SkipItem
  <2>1. Journaled([Entry EXCEPT !.status = "skipped"]) /\ n' = n + 1 /\ apc = "next" /\ apc' = "next"
        /\ UNCHANGED <<queue, finished>>
    BY <1>4 DEF SkipItem, Record
  <2> QED
    BY <1>1, <1>3, <2>1, RecordShapes
<1>5. CASE RefuseMove \/ RefuseLate \/ LoseSource \/ FailItem
  <2>1. Journaled([Entry EXCEPT !.status = "failed"]) /\ n' = n + 1 /\ apc' = "next"
        /\ UNCHANGED <<queue, finished>>
    BY <1>5 DEF RefuseMove, RefuseLate, LoseSource, FailItem, Record
  <2> QED
    BY <1>1, <1>3, <2>1, RecordShapes
<1>6. CASE RecordDone
  <2>1. Journaled([Entry EXCEPT !.status = "done"]) /\ n' = n + 1 /\ apc' = "next"
        /\ queue' = queue /\ finished' = finished \cup {queue[n]}
    BY <1>6 DEF RecordDone
  <2> QED
    BY <1>1, <1>3, <2>1, RecordShapes
<1> QED
  BY <1>4, <1>5, <1>6 DEF Recording

LEMMA CheckMoveShapes ==
    ASSUME FixInv, ShapeInv, CheckMove
    PROVE  ShapeInv' /\ EntriesKept
<1>1. /\ UNCHANGED <<project, tree, text, queue, n, finished, upc, umem, foreign>>
      /\ apc = "next" /\ n <= Len(queue) /\ ~PartnerMissing /\ apc' = "checked"
      /\ \/ Item.kind = "move-file" /\ mem' = mem /\ journal' = journal
         \/ /\ Item.kind = "move-folder"
            /\ Journaled([Entry EXCEPT !.hash = {HashTree(tree, Item.from)}])
  BY DEF CheckMove, CarryOut, disk, undoing, budget
<1>2. n \in 1..Len(queue) /\ EntryShape(Entry, Item) /\ Entry = mem.items[n] /\ ApplyRuns
  BY <1>1, AtItem
<1>3. upc = "idle" /\ foreign \in Nat
  BY <1>2 DEF ShapeInv, JournalShape
<1>4. CASE Item.kind = "move-file"
  <2>1. mem' = mem /\ journal' = journal
    BY <1>1, <1>4
  <2> QED
    BY <1>1, <1>2, <1>3, <2>1, QuietShapes DEF Working, ApplyRuns
<1>5. CASE Item.kind = "move-folder"
  <2>1. PICK row : row = [Entry EXCEPT !.hash = {HashTree(tree, Item.from)}]
    OBVIOUS
  <2>2. /\ DOMAIN row = Fields /\ row.kind = Entry.kind /\ row.to = Entry.to /\ row.from = Entry.from
        /\ row.status = Entry.status /\ row.after = Entry.after
    BY <1>2, <2>1 DEF EntryShape, Fields
  <2>3. EntryShape(row, Item)
    BY <1>2, <1>5, <2>2 DEF EntryShape
  <2>4. row.after # {} => row.kind \in EditKinds
    BY <1>2, <2>2 DEF ShapeInv, EntriesShape
  <2>5. Journaled(row)
    BY <1>1, <1>5, <2>1
  <2> QED
    BY <1>1, <1>2, <2>2, <2>3, <2>4, <2>5, WriteShapes
<1> QED
  BY <1>1, <1>4, <1>5

LEMMA JournalEditShapes ==
    ASSUME FixInv, ShapeInv, JournalEdit
    PROVE  ShapeInv' /\ EntriesKept
<1>1. /\ UNCHANGED <<project, queue, n, finished, upc, umem, foreign>>
      /\ apc = "next" /\ n <= Len(queue) /\ ~PartnerMissing /\ apc' = "journaled"
      /\ Item.kind \in EditKinds
      /\ Journaled([Entry EXCEPT !.before = text, !.after = NewText])
  BY DEF JournalEdit, CarryOut, undoing, budget
<1>2. n \in 1..Len(queue) /\ EntryShape(Entry, Item)
  BY <1>1, AtItem
<1>3. PICK row : row = [Entry EXCEPT !.before = text, !.after = NewText]
  OBVIOUS
<1>4. /\ DOMAIN row = Fields /\ row.kind = Entry.kind /\ row.to = Entry.to
      /\ row.status = Entry.status
  BY <1>2, <1>3 DEF EntryShape, Fields
<1>5. EntryShape(row, Item) /\ row.kind \in EditKinds
  BY <1>1, <1>2, <1>4 DEF EntryShape, EditKinds, MoveKinds
<1> QED
  BY <1>1, <1>2, <1>3, <1>4, <1>5, WriteShapes

LEMMA DiskShapes ==
    ASSUME FixInv, ShapeInv, MakeFolder \/ MakeParents \/ LinkFile \/ UnlinkFile \/ RenameFolder
                               \/ CheckText \/ WriteText
    PROVE  ShapeInv' /\ EntriesKept
<1>1. /\ UNCHANGED <<project, journal, mem, queue, n, finished, upc, umem, foreign>>
      /\ apc' \in {"parents", "linked", "changed", "expected"}
      /\ Working \/ CarryOut
      /\ apc' = "expected" => apc = "journaled"
  BY DEF MakeFolder, MakeParents, LinkFile, UnlinkFile, RenameFolder, CheckText, WriteText, undoing, budget,
         Working, ApplyRuns
<1>2. n <= Len(queue) /\ ~PartnerMissing /\ ApplyRuns /\ upc = "idle" /\ foreign \in Nat
  BY <1>1 DEF CarryOut, ShapeInv, PointShape, JournalShape, Working, ApplyRuns
<1>3. apc' = "expected" => Item.kind \in EditKinds
  BY <1>1 DEF ShapeInv, PointShape
<1> QED
  BY <1>1, <1>2, <1>3, QuietShapes DEF Working, ApplyRuns

LEMMA ApplyShapes ==
    ASSUME FixInv, ShapeInv, ApplyStep
    PROVE  ShapeInv' /\ EntriesKept
<1>1. CASE CrashApply
  <2>1. /\ UNCHANGED <<project, journal, mem, queue, n, finished, upc, umem, foreign>>
        /\ ApplyRuns /\ apc' = "dead"
    BY <1>1 DEF CrashApply, undoing
  <2> QED
    BY <2>1, QuietShapes DEF Working, ApplyRuns, ShapeInv, JournalShape
<1> QED
  BY <1>1, EndShapes, RecordingShapes, CheckMoveShapes, JournalEditShapes, DiskShapes DEF ApplyStep, Recording

LEMMA OtherShapes ==
    ASSUME ~concurrent', FixInv, ShapeInv,
           UndoStep \/ BeginUndo \/ Cancel \/ ForeignChange \/ UNCHANGED vars
    PROVE  ShapeInv' /\ EntriesKept
<1>1. UNCHANGED <<project, journal, mem, queue, n, finished, apc>>
  BY DEF UndoStep, LinkBack, UnlinkBack, FailBack, RenameBack, RemoveCreated, RemoveFolders, RestoreText,
         RefuseStep, CrashUndo, BeginUndo, Cancel, ForeignChange, vars, applying
<1>2. foreign' \in Nat
  BY DEF UndoStep, LinkBack, UnlinkBack, FailBack, RenameBack, RemoveCreated, RemoveFolders, RestoreText,
         RefuseStep, CrashUndo, BeginUndo, Cancel, ForeignChange, vars, budget, ShapeInv, JournalShape
<1>3. Working => n <= Len(queue) /\ ~PartnerMissing
  BY DEF ShapeInv, PointShape
<1>4. apc \in {"journaled", "expected"} => Item.kind \in EditKinds
  BY DEF ShapeInv, PointShape
<1>5. ApplyRuns' = ApplyRuns /\ Working' = Working
  BY <1>1 DEF ApplyRuns, Working
<1>6. CASE UndoStep
  <2>1. UndoRuns /\ umem' = umem /\ ~ApplyRuns /\ upc # "idle"
    BY <1>6, UndoStepShape DEF FixInv, UndoInv, UndoRuns
  <2> QED
    BY <1>1, <1>2, <1>3, <1>4, <1>5, <2>1, QuietShapes
<1>7. CASE BeginUndo
  <2>1. ~ApplyRuns /\ umem' \in journal
    BY <1>7 DEF BeginUndo
  <2> QED
    BY <1>1, <1>2, <1>3, <1>4, <1>5, <2>1, QuietShapes
<1>8. CASE Cancel \/ ForeignChange \/ UNCHANGED vars
  <2>1. upc' = upc /\ umem' = umem
    BY <1>8 DEF Cancel, ForeignChange, vars, undoing
  <2>2. ApplyRuns => upc = "idle"
    BY DEF ShapeInv, JournalShape
  <2> QED
    BY <1>1, <1>2, <1>3, <1>4, <1>5, <2>1, <2>2, QuietShapes
<1> QED
  BY <1>6, <1>7, <1>8

LEMMA FinishShapes ==
    ASSUME FixInv, ShapeInv, FinishUndo
    PROVE  ShapeInv' /\ EntriesKept
<1>1. /\ UNCHANGED <<project, mem, queue, n, finished, apc, umem, foreign>>
      /\ upc = "run" /\ upc' = "undone" /\ journal' = {[umem EXCEPT !.state = "undone"]}
  BY DEF FinishUndo, applying, budget
<1>2. ~ApplyRuns /\ ~ApplyRuns' /\ apc # "idle"
  BY <1>1 DEF FixInv, UndoInv, UndoRuns, ApplyRuns
<1>3. "items" \in DOMAIN umem /\ umem.items = mem.items
  BY <1>1 DEF ShapeInv, JournalShape
<1>4. \A j \in journal' : "items" \in DOMAIN j /\ j.items = mem.items
  BY <1>1, <1>3
<1>5. Item' = Item /\ ~Working /\ ~Working'
  BY <1>1, <1>2 DEF Item, Plan, Working
<1>6. ASSUME NEW m \in 1..Len(queue), Standing(m)
      PROVE  Standing(m)' /\ Restated(mem.items[m], mem'.items[m])
  <2>1. DOMAIN mem.items[m] = Fields
    BY DEF ShapeInv, MemShape, EntryShape
  <2> QED
    BY <1>1, <1>2, <1>6, <2>1 DEF Standing, Restated
<1>7. MemShape' /\ QueueShape'
  BY <1>1 DEF ShapeInv, MemShape, EntryShape, QueueShape, Plan, StartTree
<1>8. EntriesShape'
  BY <1>1, <1>2, <1>6 DEF ShapeInv, EntriesShape
<1>9. PointShape'
  BY <1>1, <1>5 DEF ShapeInv, PointShape
<1>10. JournalShape'
  BY <1>1, <1>2, <1>3, <1>4 DEF ShapeInv, JournalShape
<1> QED
  BY <1>1, <1>6, <1>7, <1>8, <1>9, <1>10 DEF ShapeInv, EntriesKept

\* choose() takes items with all they need, and the queue holds them in plan order, each once.
LEMMA OrderedAll ==
    ASSUME MoveInv, NEW S \in SUBSET DOMAIN Plan, NEW order \in Ordered(S)
    PROVE  /\ \A a, b \in DOMAIN order : a < b => order[a] < order[b]
           /\ \A x \in S : \E a \in DOMAIN order : order[a] = x
           /\ \A a \in DOMAIN order : order[a] \in S
<1>1. Plan \in Seq([kind : Kinds, from : Seq(STRING), to : Seq(STRING), requires : SUBSET Nat])
  BY PlanAssumption, Zenon DEF MoveInv, Plan
<1>2. DOMAIN Plan = 1..Len(Plan) /\ Len(Plan) \in Nat
  BY <1>1
<1>3. IsFiniteSet(1..Len(Plan))
  BY <1>2, FS_Interval
<1>4. IsFiniteSet(S)
  BY <1>2, <1>3, FS_Subset
<1>5. Cardinality(S) \in Nat
  BY <1>4, FS_CardinalityType
<1>6. PICK T : T = 1..Cardinality(S)
  OBVIOUS
<1>7. IsFiniteSet(T) /\ Cardinality(T) = Cardinality(S)
  BY <1>5, <1>6, FS_Interval
<1>8. /\ order \in [T -> S]
      /\ \A a, b \in T : a < b => order[a] < order[b]
  BY <1>6 DEF Ordered
<1>9. \A a, b \in T : order[a] = order[b] => a = b
  <2> SUFFICES ASSUME NEW a \in T, NEW b \in T, order[a] = order[b] PROVE a = b
    OBVIOUS
  <2>1. order[a] \in Nat /\ order[b] \in Nat /\ a \in Nat /\ b \in Nat
    BY <1>2, <1>5, <1>6, <1>8
  <2> QED
    BY <1>8, <2>1
<1>10. order \in Injection(T, S)
  BY <1>8, <1>9 DEF Injection, IsInjective
<1>11. order \in Surjection(T, S)
  BY <1>4, <1>7, <1>10, FS_Injection
<1> QED
  BY <1>8, <1>11 DEF Surjection

LEMMA BeginApplyShapes ==
    ASSUME FixInv, ShapeInv, NEW selected \in SUBSET DOMAIN Plan, BeginApply(selected)
    PROVE  /\ ShapeInv' /\ UNCHANGED <<project, tree, text, upc, steps, k, finished, foreign>>
           /\ tree = StartTree /\ text = StartText /\ upc = "idle" /\ apc' = "next" /\ finished = {}
           /\ \A m \in 1..Len(queue') : mem'.items[m].after = {}
<1>1. /\ UNCHANGED <<project, tree, text, n, upc, umem, steps, k, finished, foreign>>
      /\ apc = "idle" /\ apc' = "next" /\ tree = StartTree /\ text = StartText
      /\ journal' = {mem'}
  BY DEF BeginApply, disk, undoing
<1>2. PICK unread : mem' = [state |-> "started", items |-> [i \in DOMAIN queue' |-> NewItem(queue'[i], unread)]]
  BY DEF BeginApply
<1>3. PICK order \in Ordered(Chosen(selected)) : queue' = order
  BY DEF BeginApply
<1>4. Chosen(selected) \in SUBSET DOMAIN Plan
  BY DEF Chosen
<1>5. order \in Seq(DOMAIN Plan)
  BY <1>4, OrderTyped DEF FixInv
<1>6. /\ \A a, b \in DOMAIN order : a < b => order[a] < order[b]
      /\ \A x \in Chosen(selected) : \E a \in DOMAIN order : order[a] = x
      /\ \A a \in DOMAIN order : order[a] \in Chosen(selected)
  BY <1>4, OrderedAll DEF FixInv
<1>7. \A x \in Chosen(selected) : Plan[x].requires \subseteq Chosen(selected)
  BY DEF Chosen
<1>8. Plan' = Plan /\ StartTree' = StartTree
  BY <1>1 DEF Plan, StartTree
<1>9. QueueShape'
  BY <1>3, <1>6, <1>7, <1>8 DEF QueueShape
<1>10. DOMAIN order = 1..Len(order) /\ \A m \in 1..Len(order) : order[m] \in DOMAIN Plan
  BY <1>5
<1>11. /\ DOMAIN mem' = {"state", "items"} /\ DOMAIN mem'.items = 1..Len(order)
       /\ \A m \in 1..Len(order) : mem'.items[m] = NewItem(order[m], unread)
  BY <1>3, <1>10, <1>2
<1>12. ASSUME NEW x
       PROVE  LET e == NewItem(x, unread)
              IN  /\ DOMAIN e = Fields /\ e.kind = Plan[x].kind /\ e.to = Plan[x].to
                  /\ e.status = "pending" /\ e.after = {}
                  /\ Plan[x].kind # "create-folder" => e.from = Plan[x].from
                  /\ Plan[x].kind \in MoveKinds /\ Plan[x].from \in DOMAIN tree
                       => e.hash \subseteq {HashTree(tree, Plan[x].from)}
  BY DEF NewItem, Fields
<1>13. ASSUME NEW m \in 1..Len(order)
       PROVE  /\ EntryShape(mem'.items[m], Plan[order[m]])
              /\ mem'.items[m].status = "pending" /\ mem'.items[m].after = {}
  <2>1. PICK x : x = order[m]
    OBVIOUS
  <2>2. PICK e : e = NewItem(x, unread)
    OBVIOUS
  <2>3. mem'.items[m] = e
    BY <1>11, <2>1, <2>2
  <2>4. EntryShape(e, Plan[x])
    BY <1>1, <1>12, <2>2 DEF EntryShape, MoveKinds
  <2> QED
    BY <1>12, <2>1, <2>2, <2>3, <2>4
<1>14. MemShape'
  BY <1>3, <1>8, <1>11, <1>13 DEF MemShape, EntryShape
<1>15. EntriesShape'
  BY <1>3, <1>13 DEF EntriesShape
<1>16. upc = "idle" /\ queue = <<>> /\ foreign \in Nat
  BY <1>1 DEF FixInv, UndoInv, ShapeInv, JournalShape
<1>17. finished = {}
  BY <1>16 DEF ShapeInv, PointShape
<1>18. PointShape'
  BY <1>1, <1>17 DEF PointShape, Working
<1>19. JournalShape'
  BY <1>1, <1>11, <1>16 DEF JournalShape
<1> QED
  BY <1>1, <1>3, <1>9, <1>13, <1>14, <1>15, <1>16, <1>17, <1>18, <1>19 DEF ShapeInv

LEMMA InitShapes ==
    ASSUME Init
    PROVE  ShapeInv
<1>1. queue = <<>> /\ mem.items = <<>> /\ DOMAIN mem = {"state", "items"} /\ finished = {} /\ apc = "idle"
      /\ journal = {} /\ upc = "idle" /\ foreign = 0
  BY DEF Init
<1> QED
  BY <1>1 DEF ShapeInv, MemShape, EntriesShape, QueueShape, PointShape, JournalShape, Working, ApplyRuns

LEMMA ShapeStep ==
    ASSUME ~concurrent', FixInv, ShapeInv, [Next]_vars
    PROVE  ShapeInv'
  BY NextCases, ApplyShapes, OtherShapes, FinishShapes, BeginApplyShapes

-----------------------------------------------------------------------------
(* Where the patches are. A patch is at its gated place, or where the folder move of the legacy name *)
(* carried it, only as the journal tells; the legacy folder has left its old place when it is at the new. *)

Moved(f) == Plan[f].to \in DOMAIN tree /\ tree[Plan[f].to] = Folder

\* Item f was carried out by the apply that runs.
Past(f) == ApplyRuns /\ (f \in finished \/ (apc = "changed" /\ queue[n] = f))

Shows(m, i, content) ==
    /\ Standing(m) /\ mem.items[m].kind = "move-file" /\ mem.items[m].to = Plan[i].to
    /\ mem.items[m].hash = {FileHash(content)}

CheckedInv ==
    (apc \in {"checked", "parents"} /\ Item.kind = "move-file")
        => Item.from \in Files(tree) /\ Entry.hash = {FileHash(tree[Item.from])}

PatchesJournaled(i, g) ==
    \A p \in Spots(i, g) : p \in Files(tree) => \E m \in 1..Len(queue) : Shows(m, i, tree[p])

LegacyLeft(g) ==
    \A f \in LegacyOf(g) :
        /\ Moved(f) => /\ Plan[f].from \notin DOMAIN tree
                       /\ \E m \in 1..Len(queue) : Standing(m) /\ queue[m] = f
        /\ Past(f) => Plan[f].from \notin DOMAIN tree

There(i, g) == \E p \in Spots(i, g) : p \in Files(tree)

PlaceInv(i, g) == CheckedInv /\ PatchesJournaled(i, g) /\ LegacyLeft(g)

\* What a step leaves as it is.
Untouched(i, g) ==
    /\ \A p \in Spots(i, g) : p \in Files(tree') => p \in Files(tree) /\ tree'[p] = tree[p]
    /\ \A f \in LegacyOf(g) :
         /\ Moved(f)' => Moved(f)
         /\ Moved(f)' \/ Past(f)' => (Plan[f].from \in DOMAIN tree' => Plan[f].from \in DOMAIN tree)

LEMMA SameProject ==
    ASSUME project' = project, NEW i, NEW g
    PROVE  /\ Plan' = Plan /\ StartTree' = StartTree /\ StartText' = StartText
           /\ Spots(i, g)' = Spots(i, g) /\ LegacyOf(g)' = LegacyOf(g)
  BY DEF Plan, StartTree, StartText, Spots, LegacyOf, Carry

LEMMA PlaceKept ==
    ASSUME EntriesKept, project' = project, NEW i, NEW g, PlaceInv(i, g), CheckedInv', Untouched(i, g),
           \A f \in LegacyOf(g) : Past(f)' => Past(f) \/ Plan[f].from \notin DOMAIN tree'
    PROVE  PlaceInv(i, g)'
<1>1. Plan' = Plan /\ Spots(i, g)' = Spots(i, g) /\ LegacyOf(g)' = LegacyOf(g) /\ queue' = queue
  BY SameProject DEF EntriesKept
<1>2. ASSUME NEW m \in 1..Len(queue), NEW content, Shows(m, i, content)
      PROVE  Shows(m, i, content)'
  <2>1. Standing(m) /\ Standing(m)' /\ Restated(mem.items[m], mem'.items[m])
    BY <1>2 DEF EntriesKept, Shows
  <2> QED
    BY <1>1, <1>2, <2>1 DEF Shows, Restated, Fields
<1>3. PatchesJournaled(i, g)'
  <2> SUFFICES ASSUME NEW p \in Spots(i, g), p \in Files(tree')
               PROVE  \E m \in 1..Len(queue) : Shows(m, i, tree[p])'
    BY <1>1 DEF PatchesJournaled
  <2>1. p \in Files(tree) /\ tree'[p] = tree[p]
    BY DEF Untouched
  <2>2. PICK m \in 1..Len(queue) : Shows(m, i, tree[p])
    BY <2>1 DEF PlaceInv, PatchesJournaled
  <2>3. PICK content : content = tree[p]
    OBVIOUS
  <2>4. Shows(m, i, content)'
    BY <1>2, <2>2, <2>3
  <2>5. Shows(m, i, tree[p])'
    BY <2>1, <2>3, <2>4 DEF Shows
  <2> QED
    BY <2>5
<1>4. LegacyLeft(g)'
  <2> SUFFICES ASSUME NEW f \in LegacyOf(g)
               PROVE  /\ Moved(f)' => /\ Plan[f].from \notin DOMAIN tree'
                                      /\ \E m \in 1..Len(queue) : Standing(m)' /\ queue[m] = f
                      /\ Past(f)' => Plan[f].from \notin DOMAIN tree'
    BY <1>1 DEF LegacyLeft
  <2>1. CASE Moved(f)'
    <3>1. PICK m \in 1..Len(queue) : Standing(m) /\ queue[m] = f
      BY <2>1 DEF Untouched, PlaceInv, LegacyLeft
    <3>2. Plan[f].from \notin DOMAIN tree'
      BY <2>1 DEF Untouched, PlaceInv, LegacyLeft
    <3>3. Standing(m)'
      BY <3>1 DEF EntriesKept
    <3> QED
      BY <3>1, <3>2, <3>3
  <2>2. Past(f)' => Plan[f].from \notin DOMAIN tree'
    BY DEF Untouched, PlaceInv, LegacyLeft
  <2> QED
    BY <2>1, <2>2
<1> QED
  BY <1>3, <1>4 DEF PlaceInv

\* Only removals.
LEMMA ShrunkUntouched ==
    ASSUME NEW i, NEW g, project' = project, \A p \in DOMAIN tree' : p \in DOMAIN tree /\ tree'[p] = tree[p]
    PROVE  Untouched(i, g)
<1>1. Plan' = Plan
  BY DEF Plan
<1> QED
  BY <1>1 DEF Untouched, Files, Moved

\* What is new is x, below x, or a folder on the way to x.
GrownAt(x) ==
    \A p \in DOMAIN tree' :
        \/ p \in DOMAIN tree /\ tree'[p] = tree[p]
        \/ tree'[p] = Folder /\ IsPrefix(p, x)
        \/ IsPrefix(x, p)

LEMMA ClearUntouched ==
    ASSUME NEW i, NEW g, project' = project, NEW x, GrownAt(x), Clear(x, i, g)
    PROVE  Untouched(i, g)
<1>1. Plan' = Plan
  BY DEF Plan
<1>2. \A p \in Spots(i, g) : p \in Files(tree') => p \in Files(tree) /\ tree'[p] = tree[p]
  BY DEF Files, GrownAt, Clear
<1>3. ASSUME NEW f \in LegacyOf(g)
      PROVE  /\ Moved(f)' => Moved(f)
             /\ Plan[f].from \in DOMAIN tree' => Plan[f].from \in DOMAIN tree
  BY <1>1, <1>3 DEF Moved, GrownAt, Clear
<1> QED
  BY <1>2, <1>3 DEF Untouched

LEMMA QueueOnce ==
    ASSUME FixInv, ShapeInv, NEW a \in 1..Len(queue), NEW b \in 1..Len(queue)
    PROVE  /\ queue[a] \in DOMAIN Plan /\ queue[a] \in Nat
           /\ queue[a] = queue[b] => a = b
           /\ queue[a] < queue[b] => a < b
<1>1. project \in Projects /\ queue \in Seq(DOMAIN Plan)
  BY DEF FixInv, MoveInv
<1>2. DOMAIN queue = 1..Len(queue) /\ Len(queue) \in Nat /\ queue[a] \in DOMAIN Plan /\ queue[b] \in DOMAIN Plan
  BY <1>1
<1>3. queue[a] \in Nat /\ queue[b] \in Nat
  BY <1>1, <1>2, PlanTyped
<1>4. \A c, d \in 1..Len(queue) : c < d => queue[c] < queue[d]
  BY <1>2 DEF ShapeInv, QueueShape
<1>5. a \in Nat /\ b \in Nat
  BY <1>2
<1>6. a < b \/ b < a \/ a = b
  BY <1>5
<1> QED
  BY <1>2, <1>3, <1>4, <1>5, <1>6

\* While a patch is carried out the legacy folder has not moved yet.
LEMMA BeforeLegacy ==
    ASSUME FixInv, ShapeInv, PlannerPromise, NEW i, NEW g, Gated(i, g), PlaceInv(i, g),
           Working, Item.kind = "move-file", NEW f \in LegacyOf(g)
    PROVE  ~Moved(f) /\ f \notin finished /\ queue[n] # f
<1>1. n \in 1..Len(queue) /\ queue[n] \in DOMAIN Plan /\ Item = Plan[queue[n]] /\ ApplyRuns
  BY AtItem
<1>2. project \in Projects
  BY DEF FixInv, MoveInv
<1>3. queue[n] < f /\ f \in DOMAIN Plan /\ f \in Nat
  BY <1>1, <1>2, PromisedOrder, LegacyFacts, PlanTyped
<1>4. queue[n] \in Nat
  BY <1>1, <1>2, PlanTyped
<1>5. ASSUME NEW m \in 1..Len(queue), queue[m] = f, m <= n PROVE FALSE
  <2>1. n < m
    BY <1>1, <1>3, <1>5, QueueOnce
  <2> QED
    BY <1>1, <1>5, <2>1
<1>6. ~Moved(f)
  <2> SUFFICES ASSUME Moved(f) PROVE FALSE
    OBVIOUS
  <2>1. PICK m \in 1..Len(queue) : Standing(m) /\ queue[m] = f
    BY DEF PlaceInv, LegacyLeft
  <2>2. m <= n
    BY <1>1, <2>1 DEF Standing
  <2> QED
    BY <1>5, <2>1, <2>2
<1>7. f \notin finished
  <2> SUFFICES ASSUME f \in finished PROVE FALSE
    OBVIOUS
  <2>1. PICK a \in DOMAIN queue : a < n /\ queue[a] = f
    BY DEF ShapeInv, PointShape
  <2>2. a \in 1..Len(queue) /\ a <= n
    BY <1>1, <2>1 DEF FixInv, MoveInv
  <2> QED
    BY <1>5, <2>1, <2>2
<1> QED
  BY <1>3, <1>4, <1>6, <1>7

\* The item being carried out is not finished.
LEMMA NotFinished ==
    ASSUME FixInv, ShapeInv, n \in 1..Len(queue)
    PROVE  queue[n] \notin finished
<1> SUFFICES ASSUME queue[n] \in finished PROVE FALSE
  OBVIOUS
<1>1. PICK a \in DOMAIN queue : a < n /\ queue[a] = queue[n]
  BY DEF ShapeInv, PointShape
<1>2. a \in 1..Len(queue)
  BY <1>1 DEF FixInv, MoveInv
<1>3. a = n
  BY <1>1, <1>2, QueueOnce
<1> QED
  BY <1>1, <1>2, <1>3

LEMMA ItemCases ==
    ASSUME FixInv, ShapeInv, PlannerPromise, NEW i, NEW g, Gated(i, g),
           Working \/ (apc = "next" /\ n <= Len(queue)), Item.kind \in MoveKinds \cup {"create-folder"}
    PROVE  /\ Item.to \in Path
           /\ \/ Gated(queue[n], g) /\ Item.kind = "move-file"
              \/ queue[n] \in LegacyOf(g) /\ Item.kind = "move-folder"
              \/ Clear(Item.to, i, g)
<1>1. n \in 1..Len(queue) /\ queue[n] \in DOMAIN Plan /\ Item = Plan[queue[n]]
  BY AtItem
<1>2. project \in Projects
  BY DEF FixInv, MoveInv
<1>3. Item.to \in Path
  BY <1>1, <1>2, PlanTyped
<1>4. CASE Gated(queue[n], g)
  BY <1>1, <1>3, <1>4 DEF Gated
<1>5. CASE queue[n] \in LegacyOf(g)
  BY <1>1, <1>3, <1>5 DEF LegacyOf, Legacy
<1>6. CASE ~Gated(queue[n], g) /\ queue[n] \notin LegacyOf(g)
  BY <1>1, <1>2, <1>3, <1>6, OthersClear
<1> QED
  BY <1>4, <1>5, <1>6

\* The file a move carries is the one of the reviewed project.
LEMMA EntryOfFile ==
    ASSUME project \in Projects, PlannerPromise, NEW i, NEW g, Gated(i, g), NEW x \in DOMAIN Plan,
           Plan[x].kind = "move-file", NEW e, EntryShape(e, Plan[x]),
           NEW t, Closed(t), NEW p \in DOMAIN t, e.hash = {HashTree(t, p)}
    PROVE  p \in Files(t) /\ e.hash = {FileHash(t[p])}
<1>1. Plan[x].from \in Files(StartTree) /\ Closed(StartTree)
  BY SourcesStart, StartClosed DEF MoveKinds
<1>2. e.hash \subseteq {HashTree(StartTree, Plan[x].from)}
  BY <1>1 DEF EntryShape, Files
<1>3. HashTree(t, p) = HashTree(StartTree, Plan[x].from)
  BY <1>2
<1>4. HashTree(t, p)[<<>>] = t[p] /\ HashTree(StartTree, Plan[x].from)[<<>>] = StartTree[Plan[x].from]
  BY <1>1, HashShows DEF Files
<1>5. t[p] # Folder
  BY <1>1, <1>3, <1>4 DEF Files
<1>6. p \in Files(t)
  BY <1>5 DEF Files
<1> QED
  BY <1>6, HashOfFile

LEMMA CheckMovePlace ==
    ASSUME FixInv, ShapeInv, PlannerPromise, NEW i, NEW g, Gated(i, g), PlaceInv(i, g), CheckMove
    PROVE  PlaceInv(i, g)'
<1>1. /\ UNCHANGED <<project, tree, queue, n, finished>> /\ apc = "next" /\ apc' = "checked"
      /\ n <= Len(queue) /\ Item.from \in DOMAIN tree
      /\ Item.kind = "move-file" => Entry.hash = {HashTree(tree, Item.from)} /\ mem' = mem
  BY DEF CheckMove, CarryOut, disk
<1>2. project \in Projects /\ Closed(tree)
  BY DEF FixInv, MoveInv
<1>3. queue[n] \in DOMAIN Plan /\ Item = Plan[queue[n]] /\ EntryShape(Entry, Item)
  BY <1>1, AtItem
<1>4. Plan' = Plan /\ Item' = Item
  BY <1>1 DEF Item, Plan
<1>5. CheckedInv'
  <2> SUFFICES ASSUME Item.kind = "move-file"
               PROVE  Item.from \in Files(tree) /\ Entry.hash = {FileHash(tree[Item.from])} /\ Entry' = Entry
    BY <1>1, <1>4 DEF CheckedInv
  <2>1. Entry.hash = {HashTree(tree, Item.from)} /\ Entry' = Entry
    BY <1>1 DEF Entry
  <2> QED
    BY <1>1, <1>2, <1>3, <2>1, EntryOfFile
<1>6. Untouched(i, g)
  BY <1>1, ShrunkUntouched
<1>7. EntriesKept
  BY CheckMoveShapes
<1>8. \A f \in LegacyOf(g) : Past(f)' => Past(f)
  BY <1>1 DEF Past, ApplyRuns
<1> QED
  BY <1>1, <1>5, <1>6, <1>7, <1>8, PlaceKept

\* The other steps of the apply that leave the tree or only remove from it.
LEMMA RemovingPlace ==
    ASSUME FixInv, ShapeInv, PlannerPromise, NEW i, NEW g, Gated(i, g), PlaceInv(i, g), EntriesKept,
           project' = project, \A p \in DOMAIN tree' : p \in DOMAIN tree /\ tree'[p] = tree[p],
           apc' \notin {"checked", "parents"},
           \A f \in LegacyOf(g) : Past(f)' => Past(f) \/ Plan[f].from \notin DOMAIN tree'
    PROVE  PlaceInv(i, g)'
<1>1. CheckedInv'
  BY DEF CheckedInv
<1>2. Untouched(i, g)
  BY ShrunkUntouched
<1> QED
  BY <1>1, <1>2, PlaceKept

LEMMA MakeFolderPlace ==
    ASSUME FixInv, ShapeInv, PlannerPromise, NEW i, NEW g, Gated(i, g), PlaceInv(i, g), MakeFolder
    PROVE  PlaceInv(i, g)' /\ Untouched(i, g)
<1>1. /\ UNCHANGED <<project, queue, n, finished>> /\ apc = "next" /\ apc' = "changed"
      /\ n <= Len(queue) /\ Item.kind = "create-folder"
      /\ tree' = WithFolders(tree, Ancestors(Item.to) \cup {Item.to})
  BY DEF MakeFolder, CarryOut
<1>2. n \in 1..Len(queue) /\ Item = Plan[queue[n]] /\ ApplyRuns
  BY <1>1, AtItem
<1>3. Item.to \in Path /\ Clear(Item.to, i, g)
  BY <1>1, ItemCases
<1>4. PICK x : x = Item.to
  OBVIOUS
<1>5. x \in Seq(STRING) /\ tree' = WithFolders(tree, Ancestors(x) \cup {x})
  BY <1>1, <1>3, <1>4 DEF Path
<1>6. GrownAt(x)
  <2>2. \A p \in DOMAIN tree : tree'[p] = tree[p]
    BY <1>5, FoldersOnly
  <2> SUFFICES ASSUME NEW p \in DOMAIN tree', p \notin DOMAIN tree
               PROVE  tree'[p] = Folder /\ IsPrefix(p, x)
    BY <2>2 DEF GrownAt
  <2>1. p \in Ancestors(x) \cup {x} /\ tree'[p] = Folder
    BY <1>5 DEF WithFolders
  <2> QED
    BY <1>5, <2>1, AncestorNames, PrefixSelf
<1>7. Untouched(i, g)
  BY <1>1, <1>3, <1>4, <1>6, ClearUntouched
<1>8. \A f \in LegacyOf(g) : Past(f)' => Past(f)
  BY <1>1, <1>2 DEF Past, LegacyOf, Legacy
<1>9. EntriesKept
  BY DiskShapes
<1>10. CheckedInv'
  BY <1>1 DEF CheckedInv
<1> QED
  BY <1>1, <1>7, <1>8, <1>9, <1>10, PlaceKept

LEMMA MakeParentsPlace ==
    ASSUME FixInv, ShapeInv, PlannerPromise, NEW i, NEW g, Gated(i, g), PlaceInv(i, g), MakeParents
    PROVE  PlaceInv(i, g)' /\ Untouched(i, g)
<1>1. /\ UNCHANGED <<project, queue, n, mem, finished>> /\ apc = "checked" /\ apc' = "parents"
      /\ Item.to \notin DOMAIN tree /\ tree' = WithFolders(tree, Ancestors(Item.to))
  BY DEF MakeParents
<1>2. Working /\ ApplyRuns
  BY <1>1 DEF Working, ApplyRuns
<1>3. n \in 1..Len(queue) /\ Item = Plan[queue[n]]
  BY <1>2, AtItem
<1>4. Item.kind \in MoveKinds
  BY <1>1 DEF FixInv, MoveInv
<1>5. PICK x : x = Item.to
  OBVIOUS
<1>6. x \in Path /\ x \in Seq(STRING)
  BY <1>2, <1>4, <1>5, ItemCases DEF Path
<1>7. /\ tree' = WithFolders(tree, Ancestors(x)) /\ Files(tree') = Files(tree)
      /\ DOMAIN tree' = DOMAIN tree \cup Ancestors(x)
      /\ \A p \in DOMAIN tree : tree'[p] = tree[p]
  <2>1. PICK r : r = tree'
    OBVIOUS
  <2>2. r = WithFolders(tree, Ancestors(x))
    BY <1>1, <1>5, <2>1
  <2>3. FolderGrown(tree, Ancestors(x), r)
    BY <2>2, GrownByFolders
  <2> QED
    BY <2>1, <2>2, <2>3 DEF FolderGrown
<1>8. CheckedInv'
  <2>1. Item' = Item /\ Entry' = Entry
    BY <1>1 DEF Item, Entry, Plan
  <2>2. \A p \in Files(tree) : p \in Files(tree') /\ tree'[p] = tree[p]
    BY <1>7 DEF Files
  <2> QED
    BY <1>1, <2>1, <2>2 DEF CheckedInv, PlaceInv
<1>9. project \in Projects /\ Plan' = Plan
  BY <1>1 DEF FixInv, MoveInv, Plan
<1>10. \A p \in Spots(i, g) : p \in Files(tree') => p \in Files(tree) /\ tree'[p] = tree[p]
  BY <1>7 DEF Files
<1>11. \A f \in LegacyOf(g) : Past(f)' => Past(f) /\ f \in finished
  BY <1>1, <1>2 DEF Past, ApplyRuns
<1>12. ASSUME Clear(Item.to, i, g) PROVE Untouched(i, g)
  <2>1. GrownAt(x)
    <3> SUFFICES ASSUME NEW p \in DOMAIN tree', p \notin DOMAIN tree
                 PROVE  tree'[p] = Folder /\ IsPrefix(p, x)
      BY <1>7 DEF GrownAt
    <3>1. p \in Ancestors(x) /\ tree'[p] = Folder
      BY <1>7 DEF WithFolders
    <3> QED
      BY <1>6, <3>1, AncestorNames
  <2> QED
    BY <1>1, <1>5, <1>12, <2>1, ClearUntouched
<1>13. ASSUME Gated(queue[n], g), Item.kind = "move-file" PROVE Untouched(i, g)
  <2> SUFFICES ASSUME NEW f \in LegacyOf(g) PROVE ~Moved(f)' /\ ~Past(f)'
    BY <1>10 DEF Untouched
  <2>1. ~Moved(f) /\ f \notin finished
    BY <1>2, <1>13, BeforeLegacy
  <2>2. Plan[f].to \notin Ancestors(x)
    BY <1>3, <1>5, <1>6, <1>9, <1>13, PatchesApart, AncestorNames
  <2> QED
    BY <1>7, <1>9, <1>11, <2>1, <2>2 DEF Moved
<1>14. ASSUME queue[n] \in LegacyOf(g) PROVE Untouched(i, g)
  <2> SUFFICES ASSUME NEW f \in LegacyOf(g) PROVE ~Moved(f)' /\ ~Past(f)'
    BY <1>10 DEF Untouched
  <2>1. f = queue[n]
    BY <1>9, <1>14, PromisedOrder
  <2>2. Plan[f].to = x /\ x \notin DOMAIN tree
    BY <1>1, <1>3, <1>5, <2>1
  <2>3. x \notin Ancestors(x)
    BY <1>6, AncestorNames
  <2>4. ~Moved(f)'
    BY <1>7, <1>9, <2>2, <2>3 DEF Moved
  <2>5. f \notin finished
    BY <1>3, <2>1, NotFinished
  <2> QED
    BY <1>11, <2>4, <2>5
<1>15. Untouched(i, g)
  BY <1>2, <1>4, <1>12, <1>13, <1>14, ItemCases
<1>16. EntriesKept
  BY DiskShapes
<1> QED
  BY <1>1, <1>8, <1>11, <1>15, <1>16, PlaceKept

LEMMA LinkFilePlace ==
    ASSUME FixInv, ShapeInv, PlannerPromise, NEW i, NEW g, Gated(i, g), PlaceInv(i, g), LinkFile
    PROVE  PlaceInv(i, g)' /\ (Untouched(i, g) \/ (Gated(queue[n], g) /\ Item.kind = "move-file"))
<1>1. /\ UNCHANGED <<project, queue, n, mem, finished>> /\ apc = "parents" /\ apc' = "linked"
      /\ Item.from \in Files(tree) /\ Item.to \notin DOMAIN tree /\ tree' = Linked(tree, Item.from, Item.to)
  BY DEF LinkFile
<1>2. Working /\ ApplyRuns
  BY <1>1 DEF Working, ApplyRuns
<1>3. n \in 1..Len(queue) /\ Item = Plan[queue[n]] /\ EntryShape(Entry, Item) /\ Entry = mem.items[n]
      /\ Entry.status = "pending"
  BY <1>2, AtItem
<1>4. Item.kind \in MoveKinds
  BY <1>1 DEF FixInv, MoveInv
<1>5. PICK x : x = Item.to
  OBVIOUS
<1>6. x \in Path /\ x \in Seq(STRING)
  BY <1>2, <1>4, <1>5, ItemCases DEF Path
<1>7. /\ DOMAIN tree' = DOMAIN tree \cup {x} /\ tree'[x] = tree[Item.from] /\ x \notin DOMAIN tree
      /\ \A p \in DOMAIN tree : tree'[p] = tree[p]
  BY <1>1, <1>5 DEF Linked, WithFile
<1>8. tree'[x] # Folder
  BY <1>1, <1>7 DEF Files
<1>9. project \in Projects /\ Plan' = Plan /\ EntriesKept
  BY <1>1, DiskShapes DEF FixInv, MoveInv, Plan
<1>10. CheckedInv'
  BY <1>1 DEF CheckedInv
<1>11. \A f \in LegacyOf(g) : Past(f)' => Past(f) /\ f \in finished
  BY <1>1, <1>2 DEF Past, ApplyRuns
<1>12. ASSUME Clear(Item.to, i, g) PROVE PlaceInv(i, g)' /\ Untouched(i, g)
  <2>1. GrownAt(x)
    BY <1>6, <1>7, PrefixSelf DEF GrownAt
  <2>2. Untouched(i, g)
    BY <1>1, <1>5, <1>12, <2>1, ClearUntouched
  <2> QED
    BY <1>1, <1>9, <1>10, <1>11, <2>2, PlaceKept
<1>13. ASSUME Gated(queue[n], g), Item.kind = "move-file" PROVE PlaceInv(i, g)'
  <2>1. ASSUME NEW f \in LegacyOf(g) PROVE ~Moved(f)' /\ ~Past(f)'
    <3>1. ~Moved(f) /\ f \notin finished
      BY <1>2, <1>13, BeforeLegacy
    <3>2. Plan[f].to # x
      BY <1>3, <1>5, <1>6, <1>9, <1>13, PatchesApart, PrefixSelf
    <3> QED
      BY <1>7, <1>9, <1>11, <3>1, <3>2 DEF Moved
  <2>2. ASSUME NEW p \in Spots(i, g), p \in Files(tree')
        PROVE  \E m \in 1..Len(queue) : Shows(m, i, tree[p])'
    <3>1. CASE p = x
      <4>1. x = Plan[i].to
        BY <1>3, <1>5, <1>9, <1>13, <3>1, PatchesApart DEF Spots
      <4>2. Entry.hash = {FileHash(tree[Item.from])}
        BY <1>1, <1>13 DEF PlaceInv, CheckedInv
      <4>3. PICK m \in 1..Len(queue) : m = n
        BY <1>3
      <4>4. Standing(m)'
        BY <1>1, <1>3, <4>3 DEF Standing, Working, ApplyRuns
      <4>5. mem.items[m].kind = "move-file" /\ mem.items[m].to = x /\ mem.items[m].hash = {FileHash(tree[Item.from])}
        BY <1>3, <1>5, <1>13, <4>2, <4>3 DEF EntryShape
      <4>6. Shows(m, i, tree[p])'
        BY <1>1, <1>7, <1>9, <3>1, <4>1, <4>4, <4>5 DEF Shows
      <4> QED
        BY <4>6
    <3>2. CASE p # x
      <4>1. p \in Files(tree) /\ tree'[p] = tree[p]
        BY <1>7, <2>2, <3>2 DEF Files
      <4>2. PICK m \in 1..Len(queue) : Shows(m, i, tree[p])
        BY <2>2, <4>1 DEF PlaceInv, PatchesJournaled
      <4>3. Standing(m)'
        BY <1>9, <4>2 DEF EntriesKept, Shows
      <4>4. Shows(m, i, tree[p])'
        BY <1>1, <1>9, <4>1, <4>2, <4>3 DEF Shows
      <4> QED
        BY <4>4
    <3> QED
      BY <3>1, <3>2
  <2>3. PatchesJournaled(i, g)'
    BY <1>1, <2>2, SameProject DEF PatchesJournaled
  <2>4. LegacyLeft(g)'
    BY <1>1, <2>1, SameProject DEF LegacyLeft
  <2> QED
    BY <1>10, <2>3, <2>4 DEF PlaceInv
<1>14. ASSUME queue[n] \in LegacyOf(g) PROVE PlaceInv(i, g)' /\ Untouched(i, g)
  <2>1. ASSUME NEW f \in LegacyOf(g) PROVE ~Moved(f)' /\ ~Past(f)'
    <3>1. f = queue[n]
      BY <1>9, <1>14, <2>1, PromisedOrder
    <3>2. Plan[f].to = x
      BY <1>3, <1>5, <3>1
    <3>3. f \notin finished
      BY <1>3, <3>1, NotFinished
    <3> QED
      BY <1>7, <1>8, <1>9, <1>11, <2>1, <3>2, <3>3 DEF Moved
  <2>2. x \notin Spots(i, g)
    <3>1. PICK f : f = queue[n] /\ f \in LegacyOf(g)
      BY <1>14
    <3>2. x = Plan[f].to
      BY <1>3, <1>5, <3>1
    <3>3. x # Plan[i].to
      BY <1>6, <1>9, <3>1, <3>2, CarryFacts, PrefixSelf
    <3>4. \A f2 \in LegacyOf(g) : f2 = f
      BY <1>9, <3>1, PromisedOrder
    <3>5. x # Carry(i, f)
      BY <1>9, <3>1, <3>2, CarryFacts
    <3> QED
      BY <3>3, <3>4, <3>5 DEF Spots
  <2>3. Untouched(i, g)
    BY <1>7, <2>1, <2>2 DEF Untouched, Files
  <2> QED
    BY <1>1, <1>9, <1>10, <1>11, <2>3, PlaceKept
<1> QED
  BY <1>2, <1>4, <1>12, <1>13, <1>14, ItemCases

LEMMA UnlinkFilePlace ==
    ASSUME FixInv, ShapeInv, PlannerPromise, NEW i, NEW g, Gated(i, g), PlaceInv(i, g), UnlinkFile
    PROVE  PlaceInv(i, g)'
<1>1. /\ UNCHANGED <<project, queue, n, finished>> /\ apc = "linked" /\ apc' = "changed"
      /\ tree' = Unlinked(tree, Item.from)
  BY DEF UnlinkFile
<1>2. /\ \A p \in DOMAIN tree' : p \in DOMAIN tree /\ tree'[p] = tree[p]
      /\ Item.from \notin DOMAIN tree'
  BY <1>1 DEF Unlinked
<1>3. Item = Plan[queue[n]]
  BY DEF Item
<1>4. \A f \in LegacyOf(g) : Past(f)' => Past(f) \/ Plan[f].from \notin DOMAIN tree'
  BY <1>1, <1>2, <1>3 DEF Past, ApplyRuns
<1>5. EntriesKept
  BY DiskShapes
<1> QED
  BY <1>1, <1>2, <1>4, <1>5, RemovingPlace

LEMMA RenameFolderPlace ==
    ASSUME FixInv, ShapeInv, PlannerPromise, NEW i, NEW g, Gated(i, g), PlaceInv(i, g), RenameFolder
    PROVE  PlaceInv(i, g)' /\ (Untouched(i, g) \/ (queue[n] \in LegacyOf(g) /\ (There(i, g)' => There(i, g))))
<1>1. /\ UNCHANGED <<project, queue, n, mem, finished>> /\ apc = "parents" /\ apc' = "changed"
      /\ Item.from \in DOMAIN tree /\ Item.from \notin Files(tree)
      /\ Item.to \notin DOMAIN tree /\ tree' = Renamed(tree, Item.from, Item.to)
  BY DEF RenameFolder
<1>2. Working /\ ApplyRuns
  BY <1>1 DEF Working, ApplyRuns
<1>3. n \in 1..Len(queue) /\ Item = Plan[queue[n]] /\ Entry = mem.items[n] /\ Entry.status = "pending"
  BY <1>2, AtItem
<1>4. Item.kind = "move-folder"
  BY <1>1 DEF FixInv, MoveInv, MoveKinds, PlaceInv, CheckedInv
<1>5. Item.to \in Path /\ (queue[n] \in LegacyOf(g) \/ Clear(Item.to, i, g))
  BY <1>2, <1>4, ItemCases DEF MoveKinds
<1>6. PICK x, src, t, r : x = Item.to /\ src = Item.from /\ t = tree /\ r = tree'
  OBVIOUS
<1>7. Closed(t) /\ src \in DOMAIN t /\ x \in Path /\ x \notin DOMAIN t /\ r = Renamed(t, src, x)
  BY <1>1, <1>5, <1>6 DEF FixInv, MoveInv
<1>8. project \in Projects /\ Plan' = Plan /\ EntriesKept
  BY <1>1, DiskShapes DEF FixInv, MoveInv, Plan
<1>9. CheckedInv'
  BY <1>1 DEF CheckedInv
<1>10. ASSUME Clear(Item.to, i, g), queue[n] \notin LegacyOf(g) PROVE PlaceInv(i, g)' /\ Untouched(i, g)
  <2>1. GrownAt(x)
    <3> SUFFICES ASSUME NEW p \in DOMAIN r, ~IsPrefix(x, p)
                 PROVE  p \in DOMAIN t /\ r[p] = t[p]
      BY <1>6 DEF GrownAt
    <3> QED
      BY <1>7, RenamedOutside
  <2>2. Untouched(i, g)
    BY <1>1, <1>6, <1>10, <2>1, ClearUntouched
  <2>3. \A f \in LegacyOf(g) : Past(f)' => Past(f)
    BY <1>1, <1>2, <1>10 DEF Past, ApplyRuns
  <2> QED
    BY <1>1, <1>8, <1>9, <2>2, <2>3, PlaceKept
<1>11. ASSUME queue[n] \in LegacyOf(g) PROVE PlaceInv(i, g)' /\ (There(i, g)' => There(i, g))
  <2>1. PICK f : f = queue[n] /\ f \in LegacyOf(g)
    BY <1>11
  <2>2. \A f2 \in LegacyOf(g) : f2 = f
    BY <1>8, <2>1, PromisedOrder
  <2>3. x = Plan[f].to /\ src = Plan[f].from
    BY <1>3, <1>6, <2>1
  <2>4. /\ src \in Seq(STRING) /\ ~IsPrefix(x, src)
        /\ IsPrefix(src, Plan[i].to) /\ ~IsPrefix(x, Plan[i].to)
        /\ IsPrefix(x, Carry(i, f)) /\ Rebase(Carry(i, f), x, src) = Plan[i].to
    BY <1>8, <2>1, <2>3, CarryFacts, LegacyFacts, PatchFacts
  <2>5. Plan[i].to \notin DOMAIN r
    BY <1>7, <2>4, RenamedAway
  <2>6. src \notin DOMAIN r
    BY <1>7, <2>4, PrefixSelf, RenamedAway
  <2>7. Carry(i, f) \in Files(r) => Plan[i].to \in Files(t) /\ r[Carry(i, f)] = t[Plan[i].to]
    BY <1>7, <2>4, RenamedInside DEF Files
  <2>8. ASSUME NEW p \in Spots(i, g), p \in Files(r)
        PROVE  \E m \in 1..Len(queue) : Shows(m, i, tree[p])'
    <3>1. p = Carry(i, f)
      BY <2>2, <2>5, <2>8 DEF Spots, Files
    <3>2. Plan[i].to \in Files(tree) /\ tree'[p] = tree[Plan[i].to]
      BY <1>6, <2>7, <2>8, <3>1
    <3>3. PICK m \in 1..Len(queue) : Shows(m, i, tree[Plan[i].to])
      BY <3>2 DEF PlaceInv, PatchesJournaled, Spots
    <3>4. Standing(m)'
      BY <1>8, <3>3 DEF EntriesKept, Shows
    <3>5. Shows(m, i, tree[p])'
      BY <1>1, <1>8, <3>2, <3>3, <3>4 DEF Shows
    <3> QED
      BY <3>5
  <2>9. PatchesJournaled(i, g)'
    BY <1>1, <1>6, <2>8, SameProject DEF PatchesJournaled
  <2>10. PICK w \in 1..Len(queue) : w = n
    BY <1>3
  <2>11. Standing(w)'
    BY <1>1, <1>3, <2>10 DEF Standing, Working, ApplyRuns
  <2>12. LegacyLeft(g)'
    <3> SUFFICES ASSUME NEW f2 \in LegacyOf(g)
                 PROVE  Plan[f2].from \notin DOMAIN tree' /\ \E m \in 1..Len(queue) : Standing(m)' /\ queue[m] = f2
      BY <1>1, SameProject DEF LegacyLeft
    <3> QED
      BY <1>6, <2>1, <2>2, <2>3, <2>6, <2>10, <2>11
  <2>13. There(i, g)' => There(i, g)
    <3> SUFFICES ASSUME NEW p \in Spots(i, g), p \in Files(r) PROVE Plan[i].to \in Files(tree)
      BY <1>1, <1>6, SameProject DEF There, Spots
    <3>1. p = Carry(i, f)
      BY <2>2, <2>5 DEF Spots, Files
    <3> QED
      BY <1>6, <2>7, <3>1
  <2> QED
    BY <1>9, <2>9, <2>12, <2>13 DEF PlaceInv
<1> QED
  BY <1>5, <1>10, <1>11

LEMMA ApplyPlace ==
    ASSUME FixInv, ShapeInv, PlannerPromise, NEW i, NEW g, Gated(i, g), PlaceInv(i, g), ApplyStep
    PROVE  PlaceInv(i, g)'
<1>1. EntriesKept
  BY ApplyShapes
<1>2. CASE EndApply \/ CrashApply
  <2>1. project' = project /\ tree' = tree /\ apc' \in {"ended", "dead"}
    BY <1>2 DEF EndApply, CrashApply, disk
  <2> QED
    BY <1>1, <2>1, RemovingPlace DEF Past, ApplyRuns
<1>3. CASE SkipItem \/ RefuseMove \/ RefuseLate
  <2>1. project' = project /\ tree' = tree /\ apc' = "next" /\ finished' = finished /\ ApplyRuns
    BY <1>3 DEF SkipItem, RefuseMove, RefuseLate, Record, CarryOut, ApplyRuns, disk
  <2> QED
    BY <1>1, <2>1, RemovingPlace DEF Past
<1>4. CASE FailItem \/ LoseSource
  <2>1. /\ project' = project /\ apc' = "next" /\ finished' = finished /\ ApplyRuns
        /\ tree' = tree \/ tree' = Unlinked(tree, Item.to)
    BY <1>4 DEF FailItem, LoseSource, TakenBack, Record, CarryOut, ApplyRuns, disk
  <2>2. \A p \in DOMAIN tree' : p \in DOMAIN tree /\ tree'[p] = tree[p]
    BY <2>1 DEF Unlinked
  <2> QED
    BY <1>1, <2>1, <2>2, RemovingPlace DEF Past
<1>5. CASE JournalEdit \/ CheckText
  <2>1. project' = project /\ tree' = tree /\ apc' \in {"journaled", "expected"} /\ finished' = finished /\ ApplyRuns
    BY <1>5 DEF JournalEdit, CheckText, CarryOut, ApplyRuns, disk
  <2> QED
    BY <1>1, <2>1, RemovingPlace DEF Past
<1>6. CASE WriteText
  <2>1. /\ project' = project /\ tree' = tree /\ apc = "expected" /\ apc' = "changed" /\ finished' = finished
        /\ queue' = queue /\ n' = n
    BY <1>6 DEF WriteText
  <2>2. Item.kind \in EditKinds /\ Item = Plan[queue[n]]
    BY <2>1 DEF ShapeInv, PointShape, Item
  <2>3. \A f \in LegacyOf(g) : Past(f)' => Past(f)
    BY <2>1, <2>2 DEF Past, ApplyRuns, LegacyOf, Legacy, EditKinds
  <2> QED
    BY <1>1, <2>1, <2>3, RemovingPlace
<1>7. CASE RecordDone
  <2>1. /\ project' = project /\ tree' = tree /\ apc = "changed" /\ apc' = "next"
        /\ finished' = finished \cup {queue[n]}
    BY <1>7 DEF RecordDone, disk
  <2>2. \A f \in LegacyOf(g) : Past(f)' => Past(f)
    BY <2>1 DEF Past, ApplyRuns
  <2> QED
    BY <1>1, <2>1, <2>2, RemovingPlace
<1> QED
  BY <1>2, <1>3, <1>4, <1>5, <1>6, <1>7, CheckMovePlace, MakeFolderPlace, MakeParentsPlace, LinkFilePlace,
     UnlinkFilePlace, RenameFolderPlace DEF ApplyStep

-----------------------------------------------------------------------------
(* The undo keeps the patches where the journal tells: the legacy folder is moved back before anything *)
(* is put where it was.                                                                                *)

BackTo(b, q) == steps[b].op = "move-back" /\ steps[b].to = q

StepShape(s) ==
    \/ s.op \in {"remove-folders", "restore"}
    \/ /\ s.op = "move-back"
       /\ \E m \in 1..Len(queue) : /\ mem.items[m].kind \in MoveKinds /\ s.from = mem.items[m].from
                                   /\ s.to = mem.items[m].to /\ s.hash = mem.items[m].hash

StepsShape ==
    UndoRuns =>
        /\ k \in Nat \ {0} /\ Len(steps) \in Nat
        /\ \A a \in 1..Len(steps) : StepShape(steps[a])
        /\ upc \in {"linked", "moved"} => k <= Len(steps) /\ Step.op = "move-back"

LegacyFirst(f) ==
    Moved(f) => \A a \in k..Len(steps) :
                    steps[a].op = "move-back" /\ IsPrefix(Plan[f].from, steps[a].from)
                        => \E b \in k..a : BackTo(b, Plan[f].to)

UndoPlace(i, g) ==
    UndoRuns => /\ upc = "moved" => Step.to \notin DOMAIN tree
                /\ upc = "moved" /\ Step.to = Plan[i].to => ~There(i, g)
                /\ \A f \in LegacyOf(g) : LegacyFirst(f)

\* A file is moved back from one item of the plan.
LEMMA StepItem ==
    ASSUME FixInv, ShapeInv, PlannerPromise, NEW i, NEW g, Gated(i, g), StepsShape, UndoRuns,
           NEW a \in 1..Len(steps), steps[a].op = "move-back"
    PROVE  \E x \in DOMAIN Plan : \E e :
             /\ Plan[x].kind \in MoveKinds /\ steps[a].from = Plan[x].from /\ steps[a].to = Plan[x].to
             /\ Plan[x].from \in DOMAIN StartTree /\ Plan[x].from \in Path /\ Plan[x].to \in Path
             /\ EntryShape(e, Plan[x]) /\ steps[a].hash = e.hash
<1>1. PICK m \in 1..Len(queue) : /\ mem.items[m].kind \in MoveKinds /\ steps[a].from = mem.items[m].from
                                 /\ steps[a].to = mem.items[m].to /\ steps[a].hash = mem.items[m].hash
  BY DEF StepsShape, StepShape
<1>2. PICK x, e : x = queue[m] /\ e = mem.items[m]
  OBVIOUS
<1>3. EntryShape(e, Plan[x])
  BY <1>2 DEF ShapeInv, MemShape
<1>4. x \in DOMAIN Plan /\ project \in Projects
  BY <1>2, QueueOnce DEF FixInv, MoveInv
<1>5. Plan[x].kind \in MoveKinds /\ e.from = Plan[x].from /\ e.to = Plan[x].to
  BY <1>1, <1>2, <1>3 DEF EntryShape
<1>6. Plan[x].from \in DOMAIN StartTree /\ Plan[x].from \in Path /\ Plan[x].to \in Path
  BY <1>4, <1>5, SourcesStart, PlanTyped
<1> QED
  BY <1>1, <1>2, <1>3, <1>4, <1>5, <1>6

LEMMA UndoQuiet ==
    ASSUME ~concurrent', FixInv, ShapeInv, UndoStep
    PROVE  /\ UNCHANGED <<project, mem, queue, n, finished, apc, steps>> /\ EntriesKept
           /\ CheckedInv' /\ UndoRuns /\ ~ApplyRuns /\ \A f : ~Past(f)'
<1>1. UNCHANGED <<project, mem, queue, n, finished, apc, steps>>
  BY DEF UndoStep, LinkBack, UnlinkBack, FailBack, RenameBack, RemoveCreated, RemoveFolders, RestoreText,
         RefuseStep, CrashUndo, NextStep, applying
<1>2. UndoRuns /\ ~ApplyRuns
  BY UndoStepShape DEF FixInv, UndoInv
<1>3. EntriesKept
  BY OtherShapes
<1>4. ~ApplyRuns'
  BY <1>1, <1>2 DEF ApplyRuns
<1> QED
  BY <1>1, <1>2, <1>3, <1>4 DEF CheckedInv, Past, ApplyRuns

\* A patch is at one place only.
LEMMA OneSpot ==
    ASSUME FixInv, PlannerPromise, NEW i, NEW g, Gated(i, g), PlaceInv(i, g), NEW f \in LegacyOf(g)
    PROVE  /\ Carry(i, f) \in DOMAIN tree => Moved(f) /\ Plan[i].to \notin DOMAIN tree
           /\ Plan[i].to \in DOMAIN tree => Plan[f].from \in DOMAIN tree /\ ~Moved(f)
<1>1. project \in Projects /\ Closed(tree)
  BY DEF FixInv, MoveInv
<1>2. Carry(i, f) \in DOMAIN tree => Moved(f)
  <2>1. Plan[f].to \in Path /\ IsPrefix(Plan[f].to, Carry(i, f)) /\ Carry(i, f) # Plan[f].to
    BY <1>1, LegacyFacts, CarryFacts
  <2> QED
    BY <1>1, <2>1, ClosedAbove DEF Moved
<1>3. Plan[i].to \in DOMAIN tree => Plan[f].from \in DOMAIN tree
  <2>1. Plan[f].from \in Path /\ IsPrefix(Plan[f].from, Plan[i].to)
    BY <1>1, LegacyFacts, PatchFacts
  <2> QED
    BY <1>1, <2>1, ClosedAbove
<1>4. Moved(f) => Plan[f].from \notin DOMAIN tree
  BY DEF PlaceInv, LegacyLeft
<1> QED
  BY <1>2, <1>3, <1>4

LEMMA MovesBackFirst ==
    ASSUME StepsShape, NEW i, NEW g, UndoPlace(i, g), UndoRuns, k <= Len(steps), Step.op = "move-back",
           NEW f \in LegacyOf(g), Moved(f), IsPrefix(Plan[f].from, Step.from)
    PROVE  Step.to = Plan[f].to
<1>1. k \in k..Len(steps) /\ k \in Nat
  BY DEF StepsShape
<1>2. \E b \in k..k : BackTo(b, Plan[f].to)
  BY <1>1 DEF UndoPlace, LegacyFirst, Step
<1> QED
  BY <1>1, <1>2 DEF BackTo, Step

LEMMA FirstKept ==
    ASSUME UNCHANGED <<project, steps, k>>, NEW f, LegacyFirst(f), Moved(f)' => Moved(f)
    PROVE  LegacyFirst(f)'
  BY DEF LegacyFirst, BackTo, Plan

LEMMA FirstNext ==
    ASSUME UNCHANGED <<project, steps>>, StepsShape, UndoRuns, k' = k + 1, NEW f, LegacyFirst(f),
           Moved(f)' => Moved(f), Moved(f)' => ~BackTo(k, Plan[f].to)
    PROVE  LegacyFirst(f)'
<1>1. k \in Nat /\ Plan' = Plan
  BY DEF StepsShape, Plan
<1> SUFFICES ASSUME Moved(f)', NEW a \in k + 1..Len(steps),
                    steps[a].op = "move-back", IsPrefix(Plan[f].from, steps[a].from)
             PROVE  \E b \in k + 1..a : BackTo(b, Plan[f].to)
  BY <1>1 DEF LegacyFirst, BackTo
<1>2. PICK b \in k..a : BackTo(b, Plan[f].to)
  BY <1>1 DEF LegacyFirst, StepsShape
<1>3. b # k
  BY <1>2
<1> QED
  BY <1>1, <1>2, <1>3

LEMMA LinkBackPlace ==
    ASSUME ~concurrent', FixInv, ShapeInv, PlannerPromise, StepsShape, NEW i, NEW g, Gated(i, g),
           PlaceInv(i, g), UndoPlace(i, g), LinkBack
    PROVE  PlaceInv(i, g)' /\ UndoPlace(i, g)' /\ Untouched(i, g)
<1>1. /\ UNCHANGED <<project, steps, k>> /\ upc = "run" /\ upc' = "linked" /\ UndoRuns
      /\ k <= Len(steps) /\ Step.op = "move-back" /\ Step.to \in Files(tree)
      /\ tree' = Linked(WithFolders(tree, Ancestors(Step.from)), Step.to, Step.from)
  BY DEF LinkBack, CanMoveBack, UndoRuns
<1>2. k \in 1..Len(steps) /\ Step = steps[k]
  BY <1>1 DEF StepsShape, Step
<1>3. project \in Projects /\ Plan' = Plan
  BY <1>1 DEF FixInv, MoveInv, Plan
<1>4. Step.from \in DOMAIN StartTree /\ Step.from \in Path
  BY <1>1, <1>2, StepItem
<1>5. PICK x, t, r : x = Step.from /\ t = WithFolders(tree, Ancestors(Step.from)) /\ r = tree'
  OBVIOUS
<1>6. x \in Seq(STRING)
  BY <1>4, <1>5 DEF Path
<1>7. \A p \in DOMAIN r : p \in DOMAIN t \cup {x} /\ (p \in DOMAIN t => r[p] = t[p])
  BY <1>1, <1>5 DEF Linked, WithFile
<1>8. FolderGrown(tree, Ancestors(x), t)
  BY <1>5, GrownByFolders
<1>9. ASSUME NEW p \in DOMAIN tree', p \notin DOMAIN tree
      PROVE  IsPrefix(p, x)
  <2>1. p \in Ancestors(x) \cup {x}
    BY <1>5, <1>7, <1>8, <1>9 DEF FolderGrown
  <2> QED
    BY <1>6, <2>1, AncestorNames, PrefixSelf
<1>10. ASSUME NEW p \in Spots(i, g), p \in Files(tree')
       PROVE  p \in Files(tree) /\ tree'[p] = tree[p]
  <2>1. p # x
    BY <1>3, <1>4, <1>5, <1>10, StartElsewhere
  <2>2. p \in DOMAIN t /\ r[p] = t[p] /\ t[p] # Folder
    BY <1>5, <1>7, <1>10, <2>1 DEF Files
  <2>3. p \in Files(t)
    BY <2>2 DEF Files
  <2>4. p \in Files(tree)
    BY <1>8, <2>3 DEF FolderGrown
  <2>5. t[p] = tree[p]
    BY <1>8, <2>4 DEF FolderGrown, Files
  <2> QED
    BY <1>5, <2>2, <2>4, <2>5
<1>11. ASSUME NEW f \in LegacyOf(g), Moved(f)'
       PROVE  Moved(f) /\ (Plan[f].from \in DOMAIN tree' => Plan[f].from \in DOMAIN tree)
  <2>1. Plan[f].to \in DOMAIN tree
    BY <1>3, <1>4, <1>5, <1>9, <1>11, StartElsewhere DEF Moved
  <2>2. r[Plan[f].to] = tree[Plan[f].to]
    BY <1>3, <1>5, <1>7, <1>8, <1>11, <2>1 DEF FolderGrown, Moved
  <2>3. Moved(f)
    BY <1>3, <1>5, <1>11, <2>1, <2>2 DEF Moved
  <2>4. Step.to # Plan[f].to
    BY <1>1, <2>3 DEF Moved, Files
  <2>5. ~IsPrefix(Plan[f].from, x)
    BY <1>1, <1>5, <1>11, <2>3, <2>4, MovesBackFirst
  <2> QED
    BY <1>9, <2>3, <2>5
<1>12. UndoStep /\ EntriesKept /\ CheckedInv' /\ \A f : ~Past(f)'
  BY UndoQuiet DEF UndoStep
<1>13. Untouched(i, g)
  BY <1>10, <1>11, <1>12 DEF Untouched
<1>14. PlaceInv(i, g)'
  BY <1>1, <1>12, <1>13, PlaceKept
<1>15. \A f \in LegacyOf(g) : LegacyFirst(f)'
  BY <1>1, <1>11, FirstKept DEF UndoPlace
<1> QED
  BY <1>1, <1>13, <1>14, <1>15, SameProject DEF UndoPlace

LEMMA RenameBackPlace ==
    ASSUME ~concurrent', FixInv, ShapeInv, PlannerPromise, StepsShape, NEW i, NEW g, Gated(i, g),
           PlaceInv(i, g), UndoPlace(i, g), RenameBack
    PROVE  /\ PlaceInv(i, g)' /\ UndoPlace(i, g)' /\ Step.to \notin DOMAIN tree'
           /\ There(i, g)' => There(i, g) /\ (Untouched(i, g) \/ \E f \in LegacyOf(g) : Step.to = Plan[f].to)
<1>1. /\ UNCHANGED <<project, steps, k, mem, queue, apc, n>> /\ upc = "run" /\ upc' = "moved" /\ UndoRuns
      /\ k <= Len(steps) /\ Step.op = "move-back" /\ Step.to \in DOMAIN tree /\ Step.to \notin Files(tree)
      /\ Step.hash = {HashTree(tree, Step.to)} /\ Step.from \notin DOMAIN tree
      /\ CanMake(tree, Ancestors(Step.from))
      /\ tree' = Renamed(WithFolders(tree, Ancestors(Step.from)), Step.to, Step.from)
  BY DEF RenameBack, CanMoveBack, UndoRuns, applying
<1>2. k \in 1..Len(steps) /\ Step = steps[k]
  BY <1>1 DEF StepsShape, Step
<1>3. project \in Projects /\ Plan' = Plan /\ Closed(tree)
  BY <1>1 DEF FixInv, MoveInv, Plan
<1>4. PICK j \in DOMAIN Plan : \E e :
        /\ Plan[j].kind \in MoveKinds /\ Step.from = Plan[j].from /\ Step.to = Plan[j].to
        /\ Plan[j].from \in DOMAIN StartTree /\ Plan[j].from \in Path /\ Plan[j].to \in Path
        /\ EntryShape(e, Plan[j]) /\ Step.hash = e.hash
  BY <1>1, <1>2, StepItem
<1>5. Plan[j].kind = "move-folder"
  <2> SUFFICES ASSUME Plan[j].kind = "move-file" PROVE FALSE
    BY <1>4 DEF MoveKinds
  <2>1. PICK e : EntryShape(e, Plan[j]) /\ Step.hash = e.hash
    BY <1>4
  <2> QED
    BY <1>1, <1>3, <2>1, EntryOfFile
<1>6. PICK x, s, t, r : x = Step.from /\ s = Step.to /\ t = WithFolders(tree, Ancestors(Step.from)) /\ r = tree'
  OBVIOUS
<1>7. x \in Path /\ s \in Path /\ x \in Seq(STRING) /\ s \in Seq(STRING) /\ x = Plan[j].from /\ s = Plan[j].to
  BY <1>4, <1>6 DEF Path
<1>8. FolderGrown(tree, Ancestors(x), t) /\ Closed(t)
  BY <1>1, <1>3, <1>6, <1>7, GrownByFolders, WithFoldersSound
<1>9. s \in DOMAIN t /\ x \notin DOMAIN t /\ r = Renamed(t, s, x)
  <2>1. x \notin Ancestors(x)
    BY <1>7, AncestorNames
  <2> QED
    BY <1>1, <1>6, <1>8, <2>1 DEF FolderGrown
<1>10. ~IsPrefix(x, s)
  BY <1>1, <1>3, <1>6, <1>7, ClosedAbove
<1>11. s \notin DOMAIN r
  BY <1>7, <1>8, <1>9, <1>10, PrefixSelf, RenamedAway
<1>12. /\ EntriesKept /\ CheckedInv' /\ \A f : ~Past(f)'
  BY UndoQuiet DEF UndoStep
<1>13. ASSUME NEW p \in DOMAIN r, ~IsPrefix(x, p)
       PROVE  p \in DOMAIN t /\ ~IsPrefix(s, p) /\ r[p] = t[p]
  BY <1>7, <1>8, <1>9, <1>13, RenamedOutside
<1>14. ASSUME j \notin LegacyOf(g)
       PROVE  PlaceInv(i, g)' /\ UndoPlace(i, g)' /\ Untouched(i, g) /\ (There(i, g)' => There(i, g))
  <2>1. ~Gated(j, g)
    BY <1>5 DEF Gated
  <2>2. Clear(x, i, g) /\ Clear(s, i, g)
    BY <1>3, <1>5, <1>7, <1>14, <2>1, OthersClear DEF MoveKinds
  <2>3. GrownAt(x)
    <3> SUFFICES ASSUME NEW p \in DOMAIN r, ~IsPrefix(x, p)
                 PROVE  (p \in DOMAIN tree /\ r[p] = tree[p]) \/ (r[p] = Folder /\ IsPrefix(p, x))
      BY <1>6 DEF GrownAt
    <3>1. p \in DOMAIN t /\ r[p] = t[p]
      BY <1>13
    <3>2. CASE p \in DOMAIN tree
      BY <1>8, <3>1, <3>2 DEF FolderGrown
    <3>3. CASE p \notin DOMAIN tree
      <4>1. p \in Ancestors(x) /\ t[p] = Folder
        BY <1>6, <1>8, <3>1, <3>3 DEF FolderGrown, WithFolders
      <4> QED
        BY <1>7, <3>1, <4>1, AncestorNames
    <3> QED
      BY <3>2, <3>3
  <2>4. Untouched(i, g)
    BY <1>1, <2>2, <2>3, ClearUntouched
  <2>5. PlaceInv(i, g)'
    BY <1>1, <1>12, <2>4, PlaceKept
  <2>6. \A f \in LegacyOf(g) : LegacyFirst(f)'
    BY <1>1, <2>4, FirstKept DEF UndoPlace, Untouched
  <2>7. s # Plan[i].to
    BY <1>7, <2>2, PrefixSelf DEF Clear, Spots
  <2>8. UndoPlace(i, g)'
    BY <1>1, <1>3, <1>6, <1>11, <2>6, <2>7, SameProject DEF UndoPlace, Step
  <2>9. There(i, g)' => There(i, g)
    BY <1>1, <2>4, SameProject DEF There, Untouched
  <2> QED
    BY <2>4, <2>5, <2>8, <2>9
<1>15. ASSUME j \in LegacyOf(g)
       PROVE  PlaceInv(i, g)' /\ UndoPlace(i, g)' /\ Step.to = Plan[j].to /\ (There(i, g)' => There(i, g))
  <2>1. \A f \in LegacyOf(g) : f = j
    BY <1>3, <1>15, PromisedOrder
  <2>2. /\ IsPrefix(x, Plan[i].to) /\ Plan[i].to \in Seq(STRING) /\ Plan[i].to # s
        /\ Rebase(Plan[i].to, x, s) = Carry(i, j)
        /\ IsPrefix(s, Carry(i, j)) /\ ~IsPrefix(x, Carry(i, j))
    BY <1>3, <1>7, <1>15, CarryFacts, LegacyFacts, PatchFacts, PrefixSelf DEF Carry
  <2>3. Carry(i, j) \notin DOMAIN r
    BY <1>7, <1>8, <1>9, <2>2, RenamedAway
  <2>4. Plan[i].to \in Files(r) => Carry(i, j) \in Files(t) /\ r[Plan[i].to] = t[Carry(i, j)]
    BY <1>7, <1>8, <1>9, <2>2, RenamedInside DEF Files
  <2>5. ASSUME NEW p \in Spots(i, g), p \in Files(r)
        PROVE  Carry(i, j) \in Files(tree) /\ tree'[p] = tree[Carry(i, j)] /\ Carry(i, j) \in Spots(i, g)
    <3>1. p = Plan[i].to
      BY <2>1, <2>3, <2>5 DEF Spots, Files
    <3>2. Carry(i, j) \in Files(t) /\ r[p] = t[Carry(i, j)]
      BY <2>4, <2>5, <3>1
    <3>3. Carry(i, j) \in Files(tree)
      BY <1>8, <3>2 DEF FolderGrown
    <3>4. t[Carry(i, j)] = tree[Carry(i, j)]
      BY <1>8, <3>3 DEF FolderGrown, Files
    <3> QED
      BY <1>6, <1>15, <3>2, <3>3, <3>4 DEF Spots
  <2>6. ASSUME NEW p \in Spots(i, g), p \in Files(r)
        PROVE  \E m \in 1..Len(queue) : Shows(m, i, tree[p])'
    <3>1. Carry(i, j) \in Files(tree) /\ tree'[p] = tree[Carry(i, j)] /\ Carry(i, j) \in Spots(i, g)
      BY <2>5, <2>6
    <3>2. PICK m \in 1..Len(queue) : Shows(m, i, tree[Carry(i, j)])
      BY <3>1 DEF PlaceInv, PatchesJournaled
    <3>3. Standing(m)'
      BY <1>12, <3>2 DEF EntriesKept, Shows
    <3>4. Shows(m, i, tree[p])'
      BY <1>1, <1>3, <3>1, <3>2, <3>3 DEF Shows
    <3> QED
      BY <3>4
  <2>7. PatchesJournaled(i, g)'
    BY <1>1, <1>6, <2>6, SameProject DEF PatchesJournaled
  <2>8. \A f \in LegacyOf(g) : ~Moved(f)'
    BY <1>3, <1>6, <1>7, <1>11, <2>1 DEF Moved
  <2>9. PlaceInv(i, g)'
    BY <1>1, <1>12, <2>7, <2>8, SameProject DEF PlaceInv, LegacyLeft
  <2>10. UndoPlace(i, g)'
    BY <1>1, <1>3, <1>6, <1>11, <2>2, <2>8, SameProject DEF UndoPlace, LegacyFirst, Step
  <2>11. There(i, g)' => There(i, g)
    BY <1>1, <1>6, <2>5, SameProject DEF There
  <2> QED
    BY <1>6, <1>7, <2>9, <2>10, <2>11
<1> QED
  BY <1>6, <1>11, <1>14, <1>15

LEMMA StepsKept ==
    ASSUME ~concurrent', FixInv, ShapeInv, StepsShape, UndoStep
    PROVE  StepsShape'
<1>1. UNCHANGED <<mem, queue, steps>> /\ UndoRuns
  BY UndoQuiet
<1>2. k \in Nat \ {0} /\ Len(steps) \in Nat /\ \A a \in 1..Len(steps) : StepShape(steps[a])
  BY <1>1 DEF StepsShape
<1>3. \A a \in 1..Len(steps) : StepShape(steps[a])'
  BY <1>1, <1>2 DEF StepShape
<1>4. k' \in Nat \ {0} /\ (UndoRuns' => (upc' \in {"linked", "moved"} => k' = k /\ k <= Len(steps) /\ Step.op = "move-back"))
  BY <1>1, <1>2 DEF UndoStep, LinkBack, UnlinkBack, FailBack, RenameBack, RemoveCreated, RemoveFolders, RestoreText,
         RefuseStep, CrashUndo, NextStep, CanMoveBack, UndoRuns, StepsShape
<1> QED
  BY <1>1, <1>2, <1>3, <1>4 DEF StepsShape, Step

\* The steps of the undo that only remove, or leave the tree.
LEMMA UndoRemovesPlace ==
    ASSUME ~concurrent', FixInv, ShapeInv, NEW i, NEW g, PlaceInv(i, g), UndoStep,
           \A p \in DOMAIN tree' : p \in DOMAIN tree /\ tree'[p] = tree[p]
    PROVE  /\ PlaceInv(i, g)' /\ Untouched(i, g) /\ (There(i, g)' => There(i, g))
<1>1. project' = project /\ EntriesKept /\ CheckedInv' /\ \A f : ~Past(f)'
  BY UndoQuiet
<1>2. Untouched(i, g)
  BY <1>1, ShrunkUntouched
<1>3. PlaceInv(i, g)'
  BY <1>1, <1>2, PlaceKept
<1> QED
  BY <1>1, <1>2, <1>3, SameProject DEF There, Untouched

LEMMA RemovesOnly ==
    ASSUME UnlinkBack \/ FailBack \/ RemoveCreated \/ RemoveFolders \/ RestoreText \/ RefuseStep \/ CrashUndo
    PROVE  \A p \in DOMAIN tree' : p \in DOMAIN tree /\ tree'[p] = tree[p]
<1>1. CASE UnlinkBack \/ FailBack
  BY <1>1 DEF UnlinkBack, FailBack, TakenBack, Unlinked
<1>2. CASE RestoreText \/ RefuseStep \/ CrashUndo
  BY <1>2 DEF RestoreText, RefuseStep, CrashUndo, disk
<1>3. CASE RemoveCreated \/ RemoveFolders
  <2>1. tree' = tree \/ \E start, top : tree' = WithoutChain(tree, start, top)
    BY <1>3 DEF RemoveCreated, RemoveFolders
  <2>2. ASSUME NEW start, NEW top, tree' = WithoutChain(tree, start, top)
        PROVE  \A p \in DOMAIN tree' : p \in DOMAIN tree /\ tree'[p] = tree[p]
    BY <2>2 DEF WithoutChain
  <2> QED
    BY <2>1, <2>2
<1> QED
  BY <1>1, <1>2, <1>3

LEMMA UnlinkBackPlace ==
    ASSUME ~concurrent', FixInv, ShapeInv, PlannerPromise, StepsShape, NEW i, NEW g, Gated(i, g),
           PlaceInv(i, g), UndoPlace(i, g), UnlinkBack
    PROVE  UndoPlace(i, g)'
<1>1. /\ UNCHANGED <<project, steps, k>> /\ upc = "linked" /\ upc' = "moved" /\ UndoRuns
      /\ Step.to \in Files(tree) /\ tree' = Unlinked(tree, Step.to)
  BY DEF UnlinkBack, UndoRuns
<1>2. Untouched(i, g)
  BY RemovesOnly, UndoRemovesPlace DEF UndoStep
<1>3. Step.to \in Files(tree) /\ Step.to \notin DOMAIN tree' /\ Step' = Step
  BY <1>1 DEF Unlinked, Step
<1>4. ASSUME Step.to = Plan[i].to PROVE ~There(i, g)'
  <2> SUFFICES ASSUME NEW p \in Spots(i, g), p \in Files(tree') PROVE FALSE
    BY <1>1, SameProject DEF There
  <2>1. p \in DOMAIN tree
    BY <1>2 DEF Untouched, Files
  <2>2. p # Plan[i].to
    BY <1>3, <1>4 DEF Files
  <2>3. PICK f \in LegacyOf(g) : p = Carry(i, f)
    BY <2>2 DEF Spots
  <2>4. Plan[i].to \in DOMAIN tree
    BY <1>3, <1>4 DEF Files
  <2> QED
    BY <2>1, <2>3, <2>4, OneSpot
<1>5. \A f \in LegacyOf(g) : LegacyFirst(f)'
  BY <1>1, <1>2, FirstKept DEF UndoPlace, Untouched
<1>6. Plan' = Plan
  BY <1>1 DEF Plan
<1> QED
  BY <1>1, <1>3, <1>4, <1>5, <1>6, SameProject DEF UndoPlace

LEMMA NextStepPlace ==
    ASSUME ~concurrent', FixInv, ShapeInv, StepsShape, NEW i, NEW g,
           PlaceInv(i, g), UndoPlace(i, g), RemoveCreated \/ RemoveFolders \/ RestoreText
    PROVE  UndoPlace(i, g)'
<1>1. /\ UNCHANGED <<project, steps>> /\ k' = k + 1 /\ upc' = "run" /\ UndoRuns
      /\ upc = "moved" \/ Step.op # "move-back"
  BY DEF RemoveCreated, RemoveFolders, RestoreText, NextStep, UndoRuns
<1>2. Untouched(i, g)
  BY RemovesOnly, UndoRemovesPlace DEF UndoStep
<1>3. ASSUME NEW f \in LegacyOf(g), Moved(f)' PROVE ~BackTo(k, Plan[f].to)
  <2>1. Moved(f)
    BY <1>2, <1>3 DEF Untouched
  <2> QED
    BY <1>1, <2>1 DEF BackTo, Step, UndoPlace, Moved
<1>4. \A f \in LegacyOf(g) : LegacyFirst(f)'
  BY <1>1, <1>2, <1>3, FirstNext DEF UndoPlace, Untouched
<1> QED
  BY <1>1, <1>4, SameProject DEF UndoPlace

LEMMA UndoPlaces ==
    ASSUME ~concurrent', FixInv, ShapeInv, PlannerPromise, StepsShape, NEW i, NEW g, Gated(i, g),
           PlaceInv(i, g), UndoPlace(i, g), UndoStep
    PROVE  PlaceInv(i, g)' /\ UndoPlace(i, g)'
<1>1. CASE FailBack \/ RefuseStep \/ CrashUndo
  <2>1. ~UndoRuns'
    BY <1>1 DEF FailBack, RefuseStep, CrashUndo, UndoRuns
  <2> QED
    BY <1>1, <2>1, RemovesOnly, UndoRemovesPlace DEF UndoPlace
<1> QED
  BY <1>1, RemovesOnly, UndoRemovesPlace, LinkBackPlace, RenameBackPlace, UnlinkBackPlace, NextStepPlace DEF UndoStep

-----------------------------------------------------------------------------
(* LoadFolders.xml: while a patch is at one of its places, the file lists the gated folder, or the entry *)
(* has been renamed after the folder moved.                                                              *)

GateText(g) == {(UNION StartText) \cup {Plan[g].to} \cup (IF StartText = {} THEN {<<>>} ELSE {})}

RenameAt(m) == m \in 1..Len(queue) /\ mem.items[m].kind = "rename-entry" /\ mem.items[m].after # {}

Renamings(t) == \E m \in 1..Len(queue) : RenameAt(m) /\ mem.items[m].after = t

LegacyGone(g) == \E f \in LegacyOf(g) : Plan[f].from \notin DOMAIN tree

PatchListed(i, g) == There(i, g) => text = GateText(g) \/ (Renamings(text) /\ LegacyGone(g))

RenamedGate(i, g) ==
    There(i, g) => \A m \in 1..Len(queue) : RenameAt(m) => mem.items[m].before = GateText(g)

GateDone(g) == ApplyRuns /\ g \in finished => text = GateText(g) \/ \E m \in 1..Len(queue) : RenameAt(m)

EditInv(g) ==
    /\ apc \in {"journaled", "expected"} => Entry.after # {} /\ (queue[n] = g => Entry.after = GateText(g))
    /\ apc = "changed" /\ queue[n] = g => text = GateText(g)

TextInv(i, g) == PatchListed(i, g) /\ RenamedGate(i, g) /\ GateDone(g) /\ EditInv(g)

EditsKept ==
    /\ queue' = queue
    /\ \A m \in 1..Len(queue) : /\ mem'.items[m].kind = mem.items[m].kind
                                /\ mem'.items[m].before = mem.items[m].before
                                /\ mem'.items[m].after = mem.items[m].after

LEMMA RenamesKept ==
    ASSUME EditsKept
    PROVE  /\ \A m \in 1..Len(queue) : RenameAt(m)' <=> RenameAt(m)
           /\ \A t : Renamings(t)' <=> Renamings(t)
           /\ queue' = queue
<1>1. \A m \in 1..Len(queue) : RenameAt(m)' <=> RenameAt(m)
  BY DEF EditsKept, RenameAt
<1> QED
  BY <1>1 DEF EditsKept, Renamings

LEMMA RecordEdits ==
    ASSUME FixInv, ShapeInv, n \in 1..Len(queue), NEW status, Journaled([Entry EXCEPT !.status = status]), queue' = queue
    PROVE  EditsKept
<1>1. /\ Restated(mem.items[n], mem'.items[n]) /\ \A m \in 1..Len(queue) : m # n => mem'.items[m] = mem.items[m]
  BY RecordEffect DEF ShapeInv
<1> QED
  BY <1>1 DEF EditsKept, Restated, Fields

LEMMA ApplyEdits ==
    ASSUME FixInv, ShapeInv, ApplyStep, ~JournalEdit
    PROVE  EditsKept
<1>1. CASE Recording
  <2>1. Working \/ (apc = "next" /\ n <= Len(queue))
    BY <1>1 DEF Recording, SkipItem, RefuseMove, RefuseLate, LoseSource, FailItem, RecordDone, CarryOut, Working,
                ApplyRuns
  <2>2. n \in 1..Len(queue)
    BY <2>1, AtItem
  <2>3. queue' = queue /\ \E status : Journaled([Entry EXCEPT !.status = status])
    BY <1>1 DEF Recording, SkipItem, RefuseMove, RefuseLate, LoseSource, FailItem, RecordDone, Record
  <2> QED
    BY <2>2, <2>3, RecordEdits
<1>2. CASE CheckMove
  <2>1. /\ queue' = queue /\ apc = "next" /\ n <= Len(queue)
        /\ mem' = mem \/ Journaled([Entry EXCEPT !.hash = {HashTree(tree, Item.from)}])
    BY <1>2 DEF CheckMove, CarryOut
  <2>2. n \in 1..Len(queue) /\ Entry = mem.items[n] /\ EntryShape(Entry, Item)
    BY <2>1, AtItem
  <2>3. CASE mem' = mem
    BY <2>1, <2>3 DEF EditsKept
  <2>4. CASE Journaled([Entry EXCEPT !.hash = {HashTree(tree, Item.from)}])
    <3>1. PICK row : row = [Entry EXCEPT !.hash = {HashTree(tree, Item.from)}]
      OBVIOUS
    <3>2. row.kind = Entry.kind /\ row.before = Entry.before /\ row.after = Entry.after
      BY <2>2, <3>1 DEF EntryShape, Fields
    <3>3. mem'.items[n] = row /\ \A m \in 1..Len(queue) : m # n => mem'.items[m] = mem.items[m]
      BY <2>2, <2>4, <3>1, JournaledEffect DEF ShapeInv
    <3> QED
      BY <2>1, <2>2, <3>2, <3>3 DEF EditsKept
  <2> QED
    BY <2>1, <2>3, <2>4
<1>3. CASE EndApply
  <2>1. queue' = queue /\ mem' = [mem EXCEPT !.state = IF n <= Len(queue) THEN "cancelled" ELSE "complete"]
    BY <1>3 DEF EndApply
  <2>2. mem'.items = mem.items
    BY <2>1 DEF ShapeInv, MemShape
  <2> QED
    BY <2>1, <2>2 DEF EditsKept
<1>4. CASE MakeFolder \/ MakeParents \/ LinkFile \/ UnlinkFile \/ RenameFolder \/ CheckText \/ WriteText \/ CrashApply
  BY <1>4 DEF MakeFolder, MakeParents, LinkFile, UnlinkFile, RenameFolder, CheckText, WriteText, CrashApply, EditsKept
<1> QED
  BY <1>1, <1>2, <1>3, <1>4 DEF ApplyStep, Recording

\* A step that leaves the file and the places of the patch leaves what the file must list.
LEMMA TextKept ==
    ASSUME FixInv, PlannerPromise, NEW i, NEW g, Gated(i, g), PlaceInv(i, g), PatchListed(i, g), RenamedGate(i, g),
           project' = project, text' = text, Closed(tree'), EditsKept, Untouched(i, g)
    PROVE  PatchListed(i, g)' /\ RenamedGate(i, g)' /\ (There(i, g)' => There(i, g))
<1>1. /\ Spots(i, g)' = Spots(i, g) /\ LegacyOf(g)' = LegacyOf(g) /\ GateText(g)' = GateText(g) /\ Plan' = Plan
      /\ project \in Projects
  BY SameProject DEF GateText, FixInv, MoveInv
<1>2. There(i, g)' => There(i, g)
  BY <1>1 DEF There, Untouched
<1>3. ASSUME There(i, g)', Renamings(text), LegacyGone(g) PROVE LegacyGone(g)'
  <2>1. PICK f \in LegacyOf(g) : Plan[f].from \notin DOMAIN tree
    BY <1>3 DEF LegacyGone
  <2>2. PICK p \in Spots(i, g) : p \in Files(tree')
    BY <1>1, <1>3 DEF There
  <2>3. p \in DOMAIN tree /\ p \in DOMAIN tree'
    BY <2>2 DEF Untouched, Files
  <2>4. p # Plan[i].to
    BY <2>1, <2>3, OneSpot
  <2>5. p = Carry(i, f)
    BY <1>1, <2>4, PromisedOrder DEF Spots
  <2>6. Plan[f].to \in Path /\ IsPrefix(Plan[f].to, p) /\ p # Plan[f].to
    BY <1>1, <2>5, LegacyFacts, CarryFacts
  <2>7. Moved(f)'
    BY <1>1, <2>3, <2>6, ClosedAbove DEF Moved
  <2>8. Plan[f].from \notin DOMAIN tree'
    BY <2>1, <2>7 DEF Untouched
  <2> QED
    BY <1>1, <2>8 DEF LegacyGone
<1>4. PatchListed(i, g)'
  BY <1>1, <1>2, <1>3, RenamesKept DEF PatchListed
<1>5. RenamedGate(i, g)'
  BY <1>1, <1>2, RenamesKept DEF RenamedGate, EditsKept
<1> QED
  BY <1>2, <1>4, <1>5

\* What an item needs and the plan has before it was carried out before it.
LEMMA NeededDone ==
    ASSUME FixInv, ShapeInv, Working, NEW r \in Item.requires, r < queue[n]
    PROVE  r \in finished
<1>1. n \in 1..Len(queue) /\ Item = Plan[queue[n]]
  BY AtItem
<1>2. DOMAIN queue = 1..Len(queue) /\ n \in Nat
  BY <1>1 DEF FixInv, MoveInv
<1>3. PICK b \in 1..Len(queue) : queue[b] = r
  BY <1>1, <1>2 DEF ShapeInv, QueueShape
<1>4. b < n
  BY <1>1, <1>3, QueueOnce
<1>5. b \in 1..n - 1
  BY <1>2, <1>4
<1> QED
  BY <1>3, <1>5 DEF ShapeInv, PointShape, PartnerMissing

\* A patch is carried out under its gate, before the entry is renamed.
LEMMA GateFirst ==
    ASSUME FixInv, ShapeInv, PlannerPromise, NEW i, NEW g, Gated(i, g), GateDone(g),
           Working, Gated(queue[n], g)
    PROVE  text = GateText(g) /\ \A m \in 1..Len(queue) : ~RenameAt(m)
<1>1. n \in 1..Len(queue) /\ Item = Plan[queue[n]] /\ ApplyRuns /\ project \in Projects
  BY AtItem DEF FixInv, MoveInv
<1>2. g \in Item.requires /\ g < queue[n]
  BY <1>1, PromisedOrder DEF Gated, MoveKinds
<1>3. g \in finished
  BY <1>2, NeededDone
<1>4. ASSUME NEW m \in 1..Len(queue), RenameAt(m) PROVE FALSE
  <2>1. Standing(m) /\ EntryShape(mem.items[m], Plan[queue[m]])
    BY <1>4 DEF ShapeInv, MemShape, EntriesShape, RenameAt
  <2>2. m <= n
    BY <1>1, <2>1 DEF Standing
  <2>3. Plan[queue[m]].kind = "rename-entry" /\ queue[m] \in DOMAIN Plan
    BY <1>4, <2>1, QueueOnce DEF EntryShape, RenameAt
  <2>4. PICK f \in LegacyOf(g) : f < queue[m]
    BY <1>1, <2>3, PromisedOrder
  <2>5. queue[n] < f
    BY <1>1, <2>4, PromisedOrder DEF Gated
  <2>6. queue[n] \in Nat /\ f \in Nat /\ queue[m] \in Nat
    BY <1>1, <2>4, QueueOnce, LegacyFacts, PlanTyped
  <2>7. n < m
    BY <1>1, <2>4, <2>5, <2>6, QueueOnce
  <2> QED
    BY <1>1, <2>2, <2>7
<1> QED
  BY <1>1, <1>3, <1>4 DEF GateDone

\* There is one renaming at most.
LEMMA OneRenaming ==
    ASSUME FixInv, ShapeInv, PlannerPromise, NEW i, NEW g, Gated(i, g),
           NEW m \in 1..Len(queue), NEW m2 \in 1..Len(queue),
           Plan[queue[m]].kind = "rename-entry", Plan[queue[m2]].kind = "rename-entry"
    PROVE  m = m2
<1>1. queue[m] \in DOMAIN Plan /\ queue[m2] \in DOMAIN Plan /\ project \in Projects
  BY QueueOnce DEF FixInv, MoveInv
<1>2. queue[m] = queue[m2]
  BY <1>1, PromisedOrder
<1> QED
  BY <1>2, QueueOnce

LEMMA WriteTextText ==
    ASSUME FixInv, ShapeInv, PlannerPromise, NEW i, NEW g, Gated(i, g), PlaceInv(i, g), TextInv(i, g), WriteText
    PROVE  TextInv(i, g)'
<1>1. /\ UNCHANGED <<project, tree, queue, n, mem, finished>> /\ apc = "expected" /\ apc' = "changed"
      /\ text' = Entry.after /\ Working /\ ApplyRuns
  BY DEF WriteText, Working, ApplyRuns
<1>2. /\ n \in 1..Len(queue) /\ queue[n] \in DOMAIN Plan /\ Item = Plan[queue[n]] /\ Entry = mem.items[n]
      /\ Entry.kind = Item.kind
  BY <1>1, AtItem DEF EntryShape
<1>3. Item.kind \in EditKinds
  BY <1>1 DEF ShapeInv, PointShape
<1>4. /\ Spots(i, g)' = Spots(i, g) /\ LegacyOf(g)' = LegacyOf(g) /\ GateText(g)' = GateText(g) /\ Plan' = Plan
      /\ project \in Projects
  BY <1>1, SameProject DEF GateText, FixInv, MoveInv
<1>5. EditsKept
  BY <1>1 DEF EditsKept
<1>6. (There(i, g)' <=> There(i, g)) /\ (LegacyGone(g)' <=> LegacyGone(g))
  BY <1>1, <1>4 DEF There, LegacyGone
<1>7. RenamedGate(i, g)'
  BY <1>4, <1>5, <1>6, RenamesKept DEF RenamedGate, EditsKept, TextInv
<1>8. Entry.after # {}
  BY <1>1 DEF TextInv, EditInv
<1>9. CASE Item.kind = "gate"
  <2>1. queue[n] = g
    BY <1>2, <1>4, <1>9, PromisedOrder
  <2>2. text' = GateText(g)
    BY <1>1, <2>1 DEF TextInv, EditInv
  <2>3. PatchListed(i, g)' /\ GateDone(g)' /\ EditInv(g)'
    BY <1>1, <1>4, <2>2 DEF PatchListed, GateDone, EditInv
  <2> QED
    BY <1>7, <2>3 DEF TextInv
<1>10. CASE Item.kind = "rename-entry"
  <2>1. PICK m \in 1..Len(queue) : m = n
    BY <1>2
  <2>2. RenameAt(m) /\ mem.items[m].after = text'
    BY <1>1, <1>2, <1>8, <1>10, <2>1 DEF RenameAt
  <2>3. RenameAt(m)' /\ Renamings(text)'
    BY <1>1, <1>5, <2>2, RenamesKept DEF Renamings
  <2>4. PICK f \in LegacyOf(g) : f \in Item.requires /\ f < queue[n]
    BY <1>2, <1>4, <1>10, PromisedOrder
  <2>5. f \in finished
    BY <1>1, <2>4, NeededDone
  <2>6. Past(f)
    BY <1>1, <2>5 DEF Past
  <2>7. LegacyGone(g)
    BY <2>6 DEF LegacyGone, PlaceInv, LegacyLeft
  <2>8. PatchListed(i, g)'
    BY <1>4, <1>6, <2>3, <2>7 DEF PatchListed
  <2>9. GateDone(g)'
    BY <1>1, <2>3 DEF GateDone
  <2>10. queue[n] # g
    BY <1>2, <1>10 DEF Gated
  <2>11. EditInv(g)'
    BY <1>1, <2>10 DEF EditInv
  <2> QED
    BY <1>7, <2>8, <2>9, <2>11 DEF TextInv
<1> QED
  BY <1>3, <1>9, <1>10 DEF EditKinds

LEMMA JournalEditText ==
    ASSUME FixInv, ShapeInv, PlannerPromise, NEW i, NEW g, Gated(i, g), PlaceInv(i, g), TextInv(i, g), JournalEdit
    PROVE  TextInv(i, g)'
<1>1. /\ UNCHANGED <<project, tree, text, queue, n, finished>> /\ apc = "next" /\ apc' = "journaled"
      /\ n <= Len(queue) /\ Item.kind \in EditKinds /\ NewText # {}
      /\ Journaled([Entry EXCEPT !.before = text, !.after = NewText])
  BY DEF JournalEdit, CarryOut, disk
<1>2. /\ n \in 1..Len(queue) /\ queue[n] \in DOMAIN Plan /\ Item = Plan[queue[n]] /\ Entry = mem.items[n]
      /\ EntryShape(Entry, Item) /\ ApplyRuns
  BY <1>1, AtItem
<1>3. PICK row : row = [Entry EXCEPT !.before = text, !.after = NewText]
  OBVIOUS
<1>4. row.kind = Item.kind /\ row.before = text /\ row.after = NewText
  BY <1>2, <1>3 DEF EntryShape, Fields
<1>5. mem'.items[n] = row /\ \A m \in 1..Len(queue) : m # n => mem'.items[m] = mem.items[m]
  BY <1>1, <1>2, <1>3, JournaledEffect DEF ShapeInv
<1>6. /\ Spots(i, g)' = Spots(i, g) /\ LegacyOf(g)' = LegacyOf(g) /\ GateText(g)' = GateText(g) /\ Plan' = Plan
      /\ project \in Projects
  BY <1>1, SameProject DEF GateText, FixInv, MoveInv
<1>7. (There(i, g)' <=> There(i, g)) /\ (LegacyGone(g)' <=> LegacyGone(g))
  BY <1>1, <1>6 DEF There, LegacyGone
<1>8. ASSUME NEW m \in 1..Len(queue), RenameAt(m)
      PROVE  m # n /\ RenameAt(m)' /\ mem'.items[m] = mem.items[m]
  <2>1. Standing(m)
    BY <1>8 DEF ShapeInv, EntriesShape, RenameAt
  <2>2. m # n
    BY <1>1, <1>2, <2>1 DEF Standing, Working, FixInv, MoveInv
  <2> QED
    BY <1>1, <1>5, <1>8, <2>2 DEF RenameAt
<1>9. Renamings(text) => Renamings(text)'
  BY <1>1, <1>8 DEF Renamings
<1>10. PatchListed(i, g)'
  BY <1>1, <1>6, <1>7, <1>9 DEF PatchListed, TextInv
<1>11. GateDone(g)'
  <2> SUFFICES ASSUME g \in finished PROVE text = GateText(g) \/ \E m \in 1..Len(queue) : RenameAt(m)'
    BY <1>1, <1>6 DEF GateDone
  <2> QED
    BY <1>2, <1>8 DEF TextInv, GateDone
<1>12. RenamedGate(i, g)'
  <2> SUFFICES ASSUME There(i, g), NEW m \in 1..Len(queue), RenameAt(m)'
               PROVE  mem'.items[m].before = GateText(g)
    BY <1>1, <1>6, <1>7 DEF RenamedGate
  <2>1. CASE m # n
    BY <1>1, <1>5, <2>1 DEF RenameAt, RenamedGate, TextInv
  <2>2. CASE m = n
    <3>1. Item.kind = "rename-entry"
      BY <1>1, <1>4, <1>5, <2>2 DEF RenameAt
    <3>2. ASSUME NEW m2 \in 1..Len(queue), RenameAt(m2) PROVE FALSE
      <4>1. Plan[queue[m2]].kind = "rename-entry"
        BY <3>2 DEF RenameAt, ShapeInv, MemShape, EntryShape
      <4>2. m2 = n
        BY <1>2, <3>1, <4>1, OneRenaming
      <4> QED
        BY <1>8, <3>2, <4>2
    <3>3. text = GateText(g)
      BY <3>2 DEF PatchListed, Renamings, TextInv
    <3> QED
      BY <1>4, <1>5, <2>2, <3>3
  <2> QED
    BY <2>1, <2>2
<1>13. EditInv(g)'
  <2>1. Entry' = row
    BY <1>1, <1>5 DEF Entry
  <2>2. queue[n] = g => NewText = GateText(g)
    BY <1>1, <1>2 DEF NewText, GateText, Gated
  <2> QED
    BY <1>1, <1>4, <1>6, <2>1, <2>2 DEF EditInv
<1> QED
  BY <1>10, <1>11, <1>12, <1>13 DEF TextInv

LEMMA GateDoneKept ==
    ASSUME EditsKept, project' = project, text' = text, NEW g, GateDone(g),
           ApplyRuns' /\ g \in finished' => (ApplyRuns /\ g \in finished) \/ text = GateText(g)
    PROVE  GateDone(g)'
<1>1. GateText(g)' = GateText(g)
  BY SameProject DEF GateText
<1> QED
  BY <1>1, RenamesKept DEF GateDone

\* The steps of the apply but the two that touch LoadFolders.xml or its journal.
LEMMA OtherTexts ==
    ASSUME FixInv, Closed(tree'), ShapeInv, PlannerPromise, NEW i, NEW g, Gated(i, g), PlaceInv(i, g), TextInv(i, g),
           ApplyStep, ~JournalEdit, ~WriteText
    PROVE  TextInv(i, g)'
<1>1. EditsKept /\ project' = project /\ text' = text
  BY ApplyEdits DEF ApplyStep, EndApply, SkipItem, MakeFolder, CheckMove, RefuseMove, MakeParents, LinkFile, UnlinkFile,
       LoseSource, RenameFolder, CheckText, RefuseLate, FailItem, RecordDone, CrashApply, disk
<1>2. GateDone(g)'
  <2>1. ApplyRuns
    BY ApplyStepShape DEF FixInv
  <2>2. CASE RecordDone
    <3>1. finished' = finished \cup {queue[n]} /\ apc = "changed"
      BY <2>2 DEF RecordDone
    <3>2. g \in finished' => g \in finished \/ text = GateText(g)
      BY <3>1 DEF TextInv, EditInv
    <3> QED
      BY <1>1, <2>1, <3>2, GateDoneKept DEF TextInv
  <2>3. CASE ~RecordDone
    <3>1. finished' = finished
      BY <2>3 DEF ApplyStep, EndApply, SkipItem, MakeFolder, CheckMove, RefuseMove, MakeParents, LinkFile, UnlinkFile,
           LoseSource, RenameFolder, CheckText, RefuseLate, FailItem, CrashApply, Record
    <3> QED
      BY <1>1, <2>1, <3>1, GateDoneKept DEF TextInv
  <2> QED
    BY <2>2, <2>3
<1>3. EditInv(g)'
  <2>1. CASE MakeFolder \/ UnlinkFile \/ RenameFolder
    <3>1. /\ UNCHANGED <<project, queue, n>> /\ apc' = "changed"
          /\ Item.kind \in MoveKinds \cup {"create-folder"}
      BY <2>1 DEF MakeFolder, UnlinkFile, RenameFolder, FixInv, MoveInv
    <3>2. queue[n] # g
      BY <3>1 DEF Item, Gated, MoveKinds
    <3> QED
      BY <3>1, <3>2 DEF EditInv
  <2>2. CASE CheckText
    <3>1. UNCHANGED <<project, queue, n, mem>> /\ apc = "journaled" /\ apc' = "expected"
      BY <2>2 DEF CheckText
    <3>2. GateText(g)' = GateText(g) /\ Entry' = Entry
      BY <3>1, SameProject DEF GateText, Entry
    <3> QED
      BY <3>1, <3>2 DEF EditInv, TextInv
  <2>3. CASE ~(MakeFolder \/ UnlinkFile \/ RenameFolder \/ CheckText)
    <3>1. apc' \in {"next", "ended", "dead", "checked", "parents", "linked"}
      BY <2>3 DEF ApplyStep, EndApply, SkipItem, CheckMove, RefuseMove, MakeParents, LinkFile,
           LoseSource, RefuseLate, FailItem, RecordDone, CrashApply, Record
    <3> QED
      BY <3>1 DEF EditInv
  <2> QED
    BY <2>1, <2>2, <2>3
<1>4. ASSUME Untouched(i, g) PROVE TextInv(i, g)'
  BY <1>1, <1>2, <1>3, <1>4, TextKept DEF TextInv
<1>5. /\ Spots(i, g)' = Spots(i, g) /\ LegacyOf(g)' = LegacyOf(g) /\ GateText(g)' = GateText(g)
      /\ project \in Projects
  BY <1>1, SameProject DEF GateText, FixInv, MoveInv
<1>6. CASE LinkFile
  <2>1. Untouched(i, g) \/ (Gated(queue[n], g) /\ Item.kind = "move-file")
    BY <1>6, LinkFilePlace
  <2>2. ASSUME Gated(queue[n], g) PROVE TextInv(i, g)'
    <3>1. Working
      BY <1>6 DEF LinkFile, Working, ApplyRuns
    <3>2. text = GateText(g) /\ \A m \in 1..Len(queue) : ~RenameAt(m)
      BY <2>2, <3>1, GateFirst DEF TextInv
    <3>3. PatchListed(i, g)' /\ RenamedGate(i, g)'
      BY <1>1, <1>5, <3>2, RenamesKept DEF PatchListed, RenamedGate
    <3> QED
      BY <1>2, <1>3, <3>3 DEF TextInv
  <2> QED
    BY <1>4, <2>1, <2>2
<1>7. CASE RenameFolder
  <2>1. Untouched(i, g) \/ (queue[n] \in LegacyOf(g) /\ (There(i, g)' => There(i, g)))
    BY <1>7, RenameFolderPlace
  <2>2. ASSUME queue[n] \in LegacyOf(g), There(i, g)' => There(i, g) PROVE TextInv(i, g)'
    <3>1. ~LegacyGone(g)
      <4> SUFFICES ASSUME NEW f \in LegacyOf(g), Plan[f].from \notin DOMAIN tree PROVE FALSE
        BY DEF LegacyGone
      <4>1. f = queue[n]
        BY <1>5, <2>2, PromisedOrder
      <4> QED
        BY <1>7, <4>1 DEF RenameFolder, Item
    <3>2. PatchListed(i, g)'
      BY <1>1, <1>5, <2>2, <3>1 DEF PatchListed, TextInv
    <3>3. RenamedGate(i, g)'
      BY <1>1, <1>5, <2>2, RenamesKept DEF RenamedGate, TextInv, EditsKept
    <3> QED
      BY <1>2, <1>3, <3>2, <3>3 DEF TextInv
  <2> QED
    BY <1>4, <2>1, <2>2
<1>8. CASE MakeFolder \/ MakeParents
  BY <1>4, <1>8, MakeFolderPlace, MakeParentsPlace
<1>9. CASE ~(LinkFile \/ RenameFolder \/ MakeFolder \/ MakeParents)
  <2>1. tree' = tree \/ \E p : tree' = Unlinked(tree, p)
    BY <1>9 DEF ApplyStep, EndApply, SkipItem, CheckMove, RefuseMove, UnlinkFile, LoseSource, CheckText,
         RefuseLate, FailItem, RecordDone, CrashApply, TakenBack, disk
  <2>2. \A p \in DOMAIN tree' : p \in DOMAIN tree /\ tree'[p] = tree[p]
    BY <2>1 DEF Unlinked
  <2>3. Untouched(i, g)
    BY <1>1, <2>2, ShrunkUntouched
  <2> QED
    BY <1>4, <2>3
<1> QED
  BY <1>6, <1>7, <1>8, <1>9

LEMMA ApplyTexts ==
    ASSUME FixInv, Closed(tree'), ShapeInv, PlannerPromise, NEW i, NEW g, Gated(i, g), PlaceInv(i, g), TextInv(i, g),
           ApplyStep
    PROVE  TextInv(i, g)'
  BY OtherTexts, WriteTextText, JournalEditText

\* In the steps that remain, the patch goes back before the file is restored to a text that does not list
\* its folder, and the file is restored to one that does before the legacy folder goes back.
RestoredLast(i, g) ==
    \A a \in k..Len(steps) :
        steps[a].op = "restore" => steps[a].text = GateText(g) \/ \E b \in k..a - 1 : BackTo(b, Plan[i].to)

RestoredFirst(g) ==
    \A f \in LegacyOf(g) : \A a \in k..Len(steps) :
        BackTo(a, Plan[f].to) =>
            \/ text = GateText(g)
            \/ \E b \in k..a - 1 : steps[b].op = "restore" /\ steps[b].text = GateText(g)

UndoText(i, g) == UndoRuns /\ There(i, g) => RestoredLast(i, g) /\ RestoredFirst(g)

LEMMA UndoTextStays ==
    ASSUME UNCHANGED <<project, steps, k, text>>, UndoRuns, NEW i, NEW g, UndoText(i, g),
           There(i, g)' => There(i, g)
    PROVE  UndoText(i, g)'
<1>1. GateText(g)' = GateText(g) /\ LegacyOf(g)' = LegacyOf(g) /\ Plan' = Plan
  BY SameProject DEF GateText
<1> QED
  BY <1>1 DEF UndoText, RestoredLast, RestoredFirst, BackTo

\* A step is done: neither of the two orders was waiting for it.
LEMMA UndoTextNext ==
    ASSUME project' = project, steps' = steps, StepsShape, UndoRuns, k' = k + 1, NEW i, NEW g, UndoText(i, g),
           There(i, g)' => There(i, g), There(i, g)' => ~BackTo(k, Plan[i].to),
           There(i, g)' => text' = GateText(g) \/ (text' = text /\ Step.op # "restore")
    PROVE  UndoText(i, g)'
<1>1. GateText(g)' = GateText(g) /\ LegacyOf(g)' = LegacyOf(g) /\ Plan' = Plan
  BY SameProject DEF GateText
<1>2. k \in Nat \ {0} /\ Len(steps) \in Nat
  BY DEF StepsShape
<1> SUFFICES ASSUME There(i, g)' PROVE RestoredLast(i, g)' /\ RestoredFirst(g)'
  BY DEF UndoText
<1>3. ASSUME NEW a \in k + 1..Len(steps), steps[a].op = "restore"
      PROVE  steps[a].text = GateText(g) \/ \E b \in k + 1..a - 1 : BackTo(b, Plan[i].to)
  <2>1. a \in k..Len(steps)
    BY <1>2
  <2>2. steps[a].text = GateText(g) \/ \E b \in k..a - 1 : BackTo(b, Plan[i].to)
    BY <1>3, <2>1 DEF UndoText, RestoredLast
  <2>3. ASSUME NEW b \in k..a - 1, BackTo(b, Plan[i].to) PROVE b \in k + 1..a - 1
    BY <1>2, <2>3
  <2> QED
    BY <2>2, <2>3
<1>4. ASSUME NEW f \in LegacyOf(g), NEW a \in k + 1..Len(steps), BackTo(a, Plan[f].to)
      PROVE  text' = GateText(g) \/ \E b \in k + 1..a - 1 : steps[b].op = "restore" /\ steps[b].text = GateText(g)
  <2> SUFFICES ASSUME text' # GateText(g)
               PROVE  \E b \in k + 1..a - 1 : steps[b].op = "restore" /\ steps[b].text = GateText(g)
    OBVIOUS
  <2>1. text' = text /\ Step.op # "restore"
    OBVIOUS
  <2>2. a \in k..Len(steps)
    BY <1>2
  <2>3. PICK b \in k..a - 1 : steps[b].op = "restore" /\ steps[b].text = GateText(g)
    BY <1>4, <2>1, <2>2 DEF UndoText, RestoredFirst
  <2>4. b # k
    BY <2>1, <2>3 DEF Step
  <2>5. b \in k + 1..a - 1
    BY <1>2, <2>4
  <2> QED
    BY <2>3, <2>5
<1> QED
  BY <1>1, <1>3, <1>4 DEF RestoredLast, RestoredFirst, BackTo

LEMMA UndoTexts ==
    ASSUME ~concurrent', FixInv, Closed(tree'), ShapeInv, PlannerPromise, StepsShape, NEW i, NEW g, Gated(i, g),
           PlaceInv(i, g), UndoPlace(i, g), TextInv(i, g), UndoText(i, g), UndoStep
    PROVE  TextInv(i, g)' /\ UndoText(i, g)'
<1>1. UNCHANGED <<project, mem, queue, apc, steps>> /\ UndoRuns /\ ~ApplyRuns
  BY UndoQuiet
<1>2. EditsKept
  BY <1>1 DEF EditsKept
<1>3. GateDone(g)' /\ EditInv(g)'
  BY <1>1 DEF GateDone, EditInv, ApplyRuns
<1>4. /\ Spots(i, g)' = Spots(i, g) /\ LegacyOf(g)' = LegacyOf(g) /\ GateText(g)' = GateText(g)
      /\ project \in Projects
  BY <1>1, SameProject DEF GateText, FixInv, MoveInv
<1>5. ASSUME Untouched(i, g), text' = text PROVE TextInv(i, g)' /\ (There(i, g)' => There(i, g))
  BY <1>1, <1>2, <1>3, <1>5, TextKept DEF TextInv
<1>6. k \in Nat \ {0} /\ (k <= Len(steps) => k \in k..Len(steps))
  BY <1>1 DEF StepsShape
<1>7. CASE FailBack \/ RefuseStep \/ CrashUndo
  <2>1. text' = text /\ ~UndoRuns'
    BY <1>7 DEF FailBack, RefuseStep, CrashUndo, disk, UndoRuns
  <2>2. Untouched(i, g)
    BY <1>7, RemovesOnly, UndoRemovesPlace
  <2> QED
    BY <1>5, <2>1, <2>2 DEF UndoText
<1>8. CASE LinkBack \/ UnlinkBack
  <2>1. UNCHANGED <<text, k>>
    BY <1>8 DEF LinkBack, UnlinkBack
  <2>2. Untouched(i, g)
    BY <1>8, RemovesOnly, UndoRemovesPlace, LinkBackPlace
  <2> QED
    BY <1>1, <1>5, <2>1, <2>2, UndoTextStays
<1>9. CASE RenameBack
  <2>1. UNCHANGED <<text, k>> /\ k <= Len(steps) /\ Step.op = "move-back"
    BY <1>9 DEF RenameBack, CanMoveBack
  <2>2. There(i, g)' => There(i, g) /\ (Untouched(i, g) \/ \E f \in LegacyOf(g) : Step.to = Plan[f].to)
    BY <1>9, RenameBackPlace
  <2>3. UndoText(i, g)'
    BY <1>1, <2>1, <2>2, UndoTextStays
  <2>4. CASE Untouched(i, g)
    BY <1>5, <2>1, <2>3, <2>4
  <2>5. CASE ~Untouched(i, g)
    <3>1. ASSUME There(i, g)' PROVE text' = GateText(g)
      <4>1. PICK f \in LegacyOf(g) : Step.to = Plan[f].to
        BY <2>2, <2>5, <3>1
      <4>2. BackTo(k, Plan[f].to)
        BY <2>1, <4>1 DEF BackTo, Step
      <4>3. text = GateText(g) \/ \E b \in k..k - 1 : steps[b].op = "restore" /\ steps[b].text = GateText(g)
        BY <1>1, <1>6, <2>1, <2>2, <3>1, <4>2 DEF UndoText, RestoredFirst
      <4> QED
        BY <1>6, <2>1, <4>3
    <3>2. PatchListed(i, g)'
      BY <1>4, <3>1 DEF PatchListed
    <3>3. RenamedGate(i, g)'
      BY <1>2, <1>4, <2>2, RenamesKept DEF RenamedGate, TextInv, EditsKept
    <3> QED
      BY <1>3, <2>3, <3>2, <3>3 DEF TextInv
  <2> QED
    BY <2>4, <2>5
<1>10. CASE RemoveCreated \/ RemoveFolders
  <2>1. text' = text /\ k' = k + 1 /\ (upc = "moved" \/ Step.op = "remove-folders")
    BY <1>10 DEF RemoveCreated, RemoveFolders, NextStep
  <2>2. Untouched(i, g) /\ (There(i, g)' => There(i, g))
    BY <1>10, RemovesOnly, UndoRemovesPlace
  <2>3. There(i, g)' => ~BackTo(k, Plan[i].to)
    BY <1>1, <2>1, <2>2 DEF BackTo, Step, UndoPlace
  <2>4. Step.op # "restore"
    BY <1>1, <2>1 DEF StepsShape
  <2>5. UndoText(i, g)'
    BY <1>1, <2>1, <2>2, <2>3, <2>4, UndoTextNext
  <2> QED
    BY <1>5, <2>1, <2>2, <2>5
<1>11. CASE RestoreText
  <2>1. tree' = tree /\ text' = Step.text /\ k' = k + 1 /\ k <= Len(steps) /\ Step.op = "restore"
    BY <1>11 DEF RestoreText, NextStep
  <2>2. There(i, g)' => There(i, g)
    BY <1>4, <2>1 DEF There
  <2>3. ASSUME There(i, g) PROVE text' = GateText(g)
    <3>1. Step.text = GateText(g) \/ \E b \in k..k - 1 : BackTo(b, Plan[i].to)
      BY <1>1, <1>6, <2>1, <2>3 DEF UndoText, RestoredLast, Step
    <3> QED
      BY <1>6, <2>1, <3>1
  <2>4. ~BackTo(k, Plan[i].to)
    BY <2>1 DEF BackTo, Step
  <2>5. UndoText(i, g)'
    BY <1>1, <2>1, <2>2, <2>3, <2>4, UndoTextNext
  <2>6. PatchListed(i, g)'
    BY <1>4, <2>2, <2>3 DEF PatchListed
  <2>7. RenamedGate(i, g)'
    BY <1>2, <1>4, <2>2, RenamesKept DEF RenamedGate, TextInv, EditsKept
  <2> QED
    BY <1>3, <2>5, <2>6, <2>7 DEF TextInv
<1> QED
  BY <1>7, <1>8, <1>9, <1>10, <1>11 DEF UndoStep

-----------------------------------------------------------------------------
(* The checks before an undo: the steps they plan keep the same orders. *)

Listed(s) == \E S : s \in Seq(S)

Extends(s, s2, e) ==
    /\ Len(s) \in Nat /\ Len(s2) = Len(s) + 1 /\ s2[Len(s) + 1] = e
    /\ \A a \in 1..Len(s) : s2[a] = s[a]

LEMMA AppendExtends ==
    ASSUME NEW s, Listed(s), NEW e
    PROVE  Listed(Append(s, e)) /\ Extends(s, Append(s, e), e)
<1>1. PICK S : s \in Seq(S)
  BY DEF Listed
<1>2. PICK T : T = S \cup {e}
  OBVIOUS
<1>3. s \in Seq(T) /\ e \in T
  BY <1>1, <1>2
<1>4. Append(s, e) \in Seq(T)
  BY <1>3
<1> QED
  BY <1>3, <1>4 DEF Listed, Extends

LEMMA ListedLen ==
    ASSUME NEW s, Listed(s)
    PROVE  Len(s) \in Nat /\ DOMAIN s = 1..Len(s)
  BY DEF Listed

\* A folder move of the undo's list.
Carrier(e) ==
    /\ e.from \notin DOMAIN tree
    /\ \E x \in DOMAIN Plan : Plan[x].kind = "move-folder" /\ e.from = Plan[x].from /\ e.to = Plan[x].to

Carriers(l) == \A a \in 1..Len(l) : Carrier(l[a])

LEMMA CarrierSteps ==
    ASSUME project \in Projects, PlannerPromise, NEW i, NEW g, Gated(i, g), NEW e, Carrier(e), NEW p \in Spots(i, g)
    PROVE  /\ e.from # Plan[g].to => Rebase(p, e.from, e.to) = p
           /\ e.from = Plan[g].to => /\ Rebase(p, e.from, e.to) \in Spots(i, g)
                                     /\ Rebase(p, e.from, e.to) # Plan[i].to
<1>1. PICK x \in DOMAIN Plan : Plan[x].kind = "move-folder" /\ e.from = Plan[x].from /\ e.to = Plan[x].to
  BY DEF Carrier
<1>2. CASE e.from # Plan[g].to
  <2>1. x \notin LegacyOf(g) /\ ~Gated(x, g)
    BY <1>1, <1>2 DEF LegacyOf, Legacy, Gated
  <2>2. Clear(Plan[x].from, i, g)
    BY <1>1, <2>1, OthersClear
  <2> QED
    BY <1>1, <1>2, <2>2 DEF Clear, Rebase
<1>3. CASE e.from = Plan[g].to
  <2>1. x \in LegacyOf(g)
    BY <1>1, <1>3 DEF LegacyOf, Legacy
  <2>2. Carry(i, x) \in Spots(i, g) /\ Carry(i, x) # Plan[i].to /\ ~IsPrefix(e.from, Carry(i, x))
    BY <1>1, <2>1, CarryFacts DEF Spots
  <2>3. Rebase(Plan[i].to, e.from, e.to) = Carry(i, x)
    BY <1>1 DEF Carry
  <2>4. Rebase(Carry(i, x), e.from, e.to) = Carry(i, x)
    BY <2>2 DEF Rebase
  <2>5. p = Plan[i].to \/ p = Carry(i, x)
    BY <2>1, PromisedOrder DEF Spots
  <2> QED
    BY <1>3, <2>2, <2>3, <2>4, <2>5
<1> QED
  BY <1>2, <1>3

LEMMA CarrierPasses ==
    ASSUME project \in Projects, PlannerPromise, NEW i, NEW g, Gated(i, g), NEW e, Carrier(e), NEW f \in LegacyOf(g)
    PROVE  Rebase(Plan[f].to, e.from, e.to) = Plan[f].to
<1>1. PICK x \in DOMAIN Plan : Plan[x].kind = "move-folder" /\ e.from = Plan[x].from /\ e.to = Plan[x].to
  BY DEF Carrier
<1>2. ~IsPrefix(e.from, Plan[f].to)
  <2>1. CASE x \in LegacyOf(g)
    BY <1>1, <2>1, PromisedOrder, LegacyFacts
  <2>2. CASE x \notin LegacyOf(g)
    <3>1. ~Gated(x, g)
      BY <1>1 DEF Gated
    <3>2. Clear(Plan[x].from, i, g)
      BY <1>1, <2>2, <3>1, OthersClear
    <3> QED
      BY <1>1, <3>2 DEF Clear
  <2> QED
    BY <2>1, <2>2
<1> QED
  BY <1>2 DEF Rebase

LEMMA CarriedLegacy ==
    ASSUME project \in Projects, PlannerPromise, NEW i, NEW g, Gated(i, g), NEW l, Len(l) \in Nat, Carriers(l),
           NEW f \in LegacyOf(g)
    PROVE  Carried(l, Plan[f].to) = Plan[f].to
<1>1. PICK N \in Nat : N = Len(l)
  OBVIOUS
<1>2. PICK at : IsCarry(at, N, l, Plan[f].to) /\ Carried(l, Plan[f].to) = at[N]
  BY <1>1, CarriedIs
<1>3. at[0] = Plan[f].to /\ \A m \in 1..N : at[m] = CarryOn(l, at[m - 1], m)
  BY <1>1, <1>2 DEF IsCarry
<1> DEFINE T == {m \in Nat : m <= N => at[m] = Plan[f].to}
<1>4. 0 \in T
  BY <1>3
<1>5. ASSUME NEW m \in Nat, m \in T PROVE m + 1 \in T
  <2> SUFFICES ASSUME m + 1 <= N PROVE at[m + 1] = Plan[f].to
    OBVIOUS
  <2>1. at[m] = Plan[f].to /\ m + 1 \in 1..N /\ (m + 1) - 1 = m
    BY <1>1, <1>5
  <2>2. PICK e : e = l[Len(l) + 1 - (m + 1)]
    OBVIOUS
  <2>3. at[m + 1] = Rebase(at[m], e.from, e.to)
    BY <1>3, <2>1, <2>2 DEF CarryOn
  <2>4. Len(l) + 1 - (m + 1) \in 1..Len(l)
    BY <1>1, <2>1
  <2>5. Carrier(e)
    BY <2>2, <2>4 DEF Carriers
  <2> QED
    BY <2>1, <2>3, <2>5, CarrierPasses
<1>6. Nat \subseteq T
  <2> HIDE DEF T
  <2> QED
    BY <1>4, <1>5, Induction
<1> QED
  BY <1>1, <1>2, <1>6

LEMMA CarriedSpot ==
    ASSUME project \in Projects, PlannerPromise, NEW i, NEW g, Gated(i, g), NEW l, Len(l) \in Nat, Carriers(l)
    PROVE  /\ Carried(l, Plan[i].to) \in Spots(i, g)
           /\ (\E a \in 1..Len(l) : l[a].from = Plan[g].to) <=> Carried(l, Plan[i].to) # Plan[i].to
<1>1. PICK N \in Nat : N = Len(l)
  OBVIOUS
<1>2. PICK at : IsCarry(at, N, l, Plan[i].to) /\ Carried(l, Plan[i].to) = at[N]
  BY <1>1, CarriedIs
<1>3. at[0] = Plan[i].to /\ \A m \in 1..N : at[m] = CarryOn(l, at[m - 1], m)
  BY <1>1, <1>2 DEF IsCarry
<1> DEFINE Met(m) == \E a \in N + 1 - m..N : l[a].from = Plan[g].to
           T == {m \in Nat : m <= N => at[m] \in Spots(i, g) /\ (Met(m) <=> at[m] # Plan[i].to)}
<1>4. 0 \in T
  BY <1>1, <1>3 DEF Spots
<1>5. ASSUME NEW m \in Nat, m \in T PROVE m + 1 \in T
  <2> SUFFICES ASSUME m + 1 <= N PROVE at[m + 1] \in Spots(i, g) /\ (Met(m + 1) <=> at[m + 1] # Plan[i].to)
    OBVIOUS
  <2>1. at[m] \in Spots(i, g) /\ (Met(m) <=> at[m] # Plan[i].to) /\ m + 1 \in 1..N /\ (m + 1) - 1 = m
    BY <1>1, <1>5
  <2>2. PICK c, e : c = N - m /\ e = l[c]
    OBVIOUS
  <2>3. c \in 1..Len(l) /\ Len(l) + 1 - (m + 1) = c /\ N + 1 - (m + 1) = c /\ N + 1 - m = c + 1 /\ c \in Nat
    BY <1>1, <2>1, <2>2
  <2>4. at[m + 1] = Rebase(at[m], e.from, e.to)
    BY <1>3, <2>1, <2>2, <2>3 DEF CarryOn
  <2>5. Carrier(e)
    BY <2>2, <2>3 DEF Carriers
  <2>6. Met(m + 1) <=> Met(m) \/ e.from = Plan[g].to
    <3>1. \A a : a \in c..N <=> a = c \/ a \in c + 1..N
      BY <1>1, <2>3
    <3>2. Met(m + 1) <=> \E a \in c..N : l[a].from = Plan[g].to
      BY <2>3
    <3>3. Met(m) <=> \E a \in c + 1..N : l[a].from = Plan[g].to
      BY <2>3
    <3> HIDE DEF Met
    <3> QED
      BY <2>2, <3>1, <3>2, <3>3
  <2>7. PICK p : p = at[m]
    OBVIOUS
  <2>8. /\ e.from # Plan[g].to => Rebase(p, e.from, e.to) = p
        /\ e.from = Plan[g].to => Rebase(p, e.from, e.to) \in Spots(i, g) /\ Rebase(p, e.from, e.to) # Plan[i].to
    BY <2>1, <2>5, <2>7, CarrierSteps
  <2> QED
    BY <2>1, <2>4, <2>6, <2>7, <2>8
<1>6. Nat \subseteq T
  <2> HIDE DEF T
  <2> QED
    BY <1>4, <1>5, Induction
<1>7. at[N] \in Spots(i, g) /\ (Met(N) <=> at[N] # Plan[i].to)
  BY <1>1, <1>6
<1>8. Met(N) <=> \E a \in 1..Len(l) : l[a].from = Plan[g].to
  BY <1>1
<1> QED
  BY <1>2, <1>7, <1>8

\* What the checks do with an item, when they go on.
Same(item, acc) ==
    LET loc == Carried(acc.later, item.to)
    IN  loc \in DOMAIN tree /\ item.hash = {HashTree(tree, loc)}

LeftAlone(item, acc, acc2) ==
    /\ acc2 = acc
    /\ \/ item.status = "skipped"
       \/ item.kind \in MoveKinds /\ ~Same(item, acc) /\ item.from \in DOMAIN tree
       \/ item.kind \in EditKinds /\ (item.after = {} \/ acc.text # item.after)
       \/ item.kind \notin MoveKinds \cup EditKinds

MovesItBack(item, acc, acc2) ==
    /\ item.kind \in MoveKinds /\ Same(item, acc) /\ item.from \notin DOMAIN tree
    /\ acc2.steps = Append(acc.steps, MoveBack(item)) /\ acc2.text = acc.text
    /\ acc2.later = IF item.kind = "move-folder" THEN Append(acc.later, MoveBack(item)) ELSE acc.later

RestoresIt(item, acc, acc2) ==
    /\ item.kind \in EditKinds /\ item.after # {} /\ acc.text = item.after
    /\ acc2.steps = Append(acc.steps, [op |-> "restore", text |-> item.before, now |-> acc.text])
    /\ acc2.later = acc.later

RemovesIt(item, acc, acc2) ==
    /\ item.kind \notin MoveKinds \cup EditKinds
    /\ acc2.steps = Append(acc.steps, [op |-> "remove-folders", to |-> item.to, top |-> item.from])
    /\ acc2.later = acc.later /\ acc2.text = acc.text

Reverses(item, acc, acc2) ==
    LeftAlone(item, acc, acc2) \/ MovesItBack(item, acc, acc2) \/ RestoresIt(item, acc, acc2) \/ RemovesIt(item, acc, acc2)

AccFields == {"ok", "steps", "later", "text"}

LEMMA ReverseMoveCases ==
    ASSUME NEW item, NEW acc, DOMAIN acc = AccFields, item.kind \in MoveKinds,
           NEW acc2, acc2 = ReverseMove(item, acc), acc2.ok
    PROVE  DOMAIN acc2 = AccFields /\ (LeftAlone(item, acc, acc2) \/ MovesItBack(item, acc, acc2))
<1> DEFINE back == item.from \in DOMAIN tree
<1>1. CASE Same(item, acc) /\ ~back
  <2>1. acc2 = [acc EXCEPT !.steps = Append(@, MoveBack(item)),
                           !.later = IF item.kind = "move-folder" THEN Append(@, MoveBack(item)) ELSE @]
    BY <1>1 DEF ReverseMove, Same
  <2>2. /\ DOMAIN acc2 = AccFields /\ acc2.steps = Append(acc.steps, MoveBack(item)) /\ acc2.text = acc.text
        /\ acc2.later = IF item.kind = "move-folder" THEN Append(acc.later, MoveBack(item)) ELSE acc.later
    BY <2>1 DEF AccFields
  <2> QED
    BY <1>1, <2>2 DEF MovesItBack
<1>2. CASE item.hash # {} /\ ~Same(item, acc) /\ back /\ item.status # "done"
  <2>1. acc2 = acc
    BY <1>2 DEF ReverseMove, Same
  <2> QED
    BY <1>2, <2>1 DEF LeftAlone
<1>3. CASE /\ ~(Same(item, acc) /\ ~back)
          /\ ~(item.hash # {} /\ ~Same(item, acc) /\ back /\ item.status # "done")
  <2>1. acc2 = [acc EXCEPT !.ok = FALSE]
    BY <1>3 DEF ReverseMove, Same
  <2> QED
    BY <2>1 DEF AccFields
<1> QED
  BY <1>1, <1>2, <1>3

LEMMA ReverseEditCases ==
    ASSUME NEW item, NEW acc, DOMAIN acc = AccFields, item.kind \in EditKinds,
           NEW acc2, acc2 = ReverseEdit(item, acc), acc2.ok
    PROVE  DOMAIN acc2 = AccFields /\ (LeftAlone(item, acc, acc2) \/ RestoresIt(item, acc, acc2))
<1>1. CASE item.after = {}
  BY <1>1 DEF ReverseEdit, LeftAlone
<1>2. CASE item.after # {} /\ acc.text = item.after
  <2>1. acc2 = [acc EXCEPT !.steps = Append(@, [op |-> "restore", text |-> item.before, now |-> acc.text]),
                           !.text = item.before]
    BY <1>2 DEF ReverseEdit
  <2>2. /\ DOMAIN acc2 = AccFields /\ acc2.later = acc.later
        /\ acc2.steps = Append(acc.steps, [op |-> "restore", text |-> item.before, now |-> acc.text])
    BY <2>1 DEF AccFields
  <2> QED
    BY <1>2, <2>2 DEF RestoresIt
<1>3. CASE item.after # {} /\ acc.text # item.after /\ acc.text = item.before
  BY <1>3 DEF ReverseEdit, LeftAlone
<1>4. CASE item.after # {} /\ acc.text # item.after /\ acc.text # item.before
  <2>1. acc2 = [acc EXCEPT !.ok = FALSE]
    BY <1>4 DEF ReverseEdit
  <2> QED
    BY <2>1 DEF AccFields
<1> QED
  BY <1>1, <1>2, <1>3, <1>4

LEMMA ReverseCases ==
    ASSUME NEW item, NEW acc, DOMAIN acc = AccFields, NEW acc2, acc2 = ReverseItem(item, acc), acc2.ok
    PROVE  /\ acc.ok /\ DOMAIN acc2 = AccFields
           /\ Reverses(item, acc, acc2)
<1>1. CASE ~acc.ok \/ item.status = "skipped"
  <2>1. acc2 = acc
    BY <1>1 DEF ReverseItem
  <2> QED
    BY <1>1, <2>1 DEF LeftAlone, Reverses
<1>2. CASE acc.ok /\ item.status # "skipped" /\ item.kind \in MoveKinds
  <2>1. acc2 = ReverseMove(item, acc)
    BY <1>2 DEF ReverseItem, MoveKinds, EditKinds
  <2> QED
    BY <1>2, <2>1, ReverseMoveCases DEF Reverses
<1>3. CASE acc.ok /\ item.status # "skipped" /\ item.kind \in EditKinds
  <2>1. acc2 = ReverseEdit(item, acc)
    BY <1>3 DEF ReverseItem, MoveKinds, EditKinds
  <2> QED
    BY <1>3, <2>1, ReverseEditCases DEF Reverses
<1>4. CASE acc.ok /\ item.status # "skipped" /\ item.kind \notin MoveKinds \cup EditKinds
  <2>1. acc2 = IF item.status \in {"done", "pending"}
               THEN [acc EXCEPT !.steps = Append(@, [op |-> "remove-folders", to |-> item.to, top |-> item.from])]
               ELSE acc
    BY <1>4 DEF ReverseItem
  <2>2. CASE item.status \in {"done", "pending"}
    <3>1. /\ DOMAIN acc2 = AccFields /\ acc2.later = acc.later /\ acc2.text = acc.text
          /\ acc2.steps = Append(acc.steps, [op |-> "remove-folders", to |-> item.to, top |-> item.from])
      BY <2>1, <2>2 DEF AccFields
    <3> QED
      BY <1>4, <3>1 DEF RemovesIt, Reverses
  <2>3. CASE item.status \notin {"done", "pending"}
    BY <1>4, <2>1, <2>3 DEF LeftAlone, Reverses
  <2> QED
    BY <2>2, <2>3
<1> QED
  BY <1>1, <1>2, <1>3, <1>4

\* What holds of the steps planned for the items from `first` on.
Back(e, q) == e.op = "move-back" /\ e.to = q
GateRestored(e, g) == e.op = "restore" /\ e.text = GateText(g)
HasBack(s, q) == \E b \in 1..Len(s) : Back(s[b], q)
HasRestore(s, g) == \E b \in 1..Len(s) : GateRestored(s[b], g)
ShowsHere(c, i, g) == \E p \in Spots(i, g) : p \in Files(tree) /\ Shows(c, i, tree[p])

StepsFrom(s) == \A a \in 1..Len(s) : StepShape(s[a])

LegacyBack(g, s, l, first) ==
    \A f \in LegacyOf(g) : \A c \in first..Len(queue) :
        queue[c] = f /\ Moved(f) => HasBack(s, Plan[f].to) /\ \E a \in 1..Len(l) : l[a].from = Plan[g].to

LegacyBefore(g, s) ==
    \A f \in LegacyOf(g) : Moved(f) =>
        \A a \in 1..Len(s) : s[a].op = "move-back" /\ IsPrefix(Plan[f].from, s[a].from)
                                => \E b \in 1..a : Back(s[b], Plan[f].to)

TextSeen(t, first) == (\A c \in first..Len(queue) : mem.items[c].kind \notin EditKinds) => t = text

PatchBack(i, g, s, first) ==
    \A c \in first..Len(queue) : ShowsHere(c, i, g) => HasBack(s, Plan[i].to)

RenameBackIn(g, s, first) ==
    \A c \in first..Len(queue) : RenameAt(c) /\ mem.items[c].after = text => HasRestore(s, g)

RestoresLast(i, g, s) ==
    \A a \in 1..Len(s) : s[a].op = "restore"
        => s[a].text = GateText(g) \/ \E b \in 1..a - 1 : Back(s[b], Plan[i].to)

RestoresFirst(g, s) ==
    \A f \in LegacyOf(g) : \A a \in 1..Len(s) :
        Back(s[a], Plan[f].to) => text = GateText(g) \/ \E b \in 1..a - 1 : GateRestored(s[b], g)

FoldShape(acc) ==
    DOMAIN acc = AccFields /\ Listed(acc.steps) /\ Listed(acc.later) /\ StepsFrom(acc.steps) /\ Carriers(acc.later)

FoldPlace(g, acc, first) ==
    LegacyBack(g, acc.steps, acc.later, first) /\ LegacyBefore(g, acc.steps) /\ TextSeen(acc.text, first)

FoldText(i, g, acc, first) ==
    There(i, g) => /\ PatchBack(i, g, acc.steps, first) /\ RenameBackIn(g, acc.steps, first)
                   /\ RestoresLast(i, g, acc.steps) /\ RestoresFirst(g, acc.steps)

FoldInv(i, g, acc, first) == FoldShape(acc) /\ FoldPlace(g, acc, first) /\ FoldText(i, g, acc, first)

\* The moment the checks are made.
Checking(i, g) ==
    FixInv /\ ShapeInv /\ PlannerPromise /\ Gated(i, g) /\ PlaceInv(i, g) /\ TextInv(i, g) /\ ~ApplyRuns

LEMMA CheckingItem ==
    ASSUME NEW i, NEW g, Checking(i, g), NEW c \in 1..Len(queue)
    PROVE  /\ project \in Projects /\ Closed(tree) /\ queue[c] \in DOMAIN Plan /\ queue[c] \in Nat /\ c \in Nat
           /\ EntryShape(mem.items[c], Plan[queue[c]])
           /\ mem.items[c].kind = Plan[queue[c]].kind /\ mem.items[c].to = Plan[queue[c]].to
           /\ Plan[queue[c]].kind \in MoveKinds => mem.items[c].from = Plan[queue[c]].from
           /\ Standing(c) <=> mem.items[c].status # "skipped"
<1>1. FixInv /\ ShapeInv /\ ~ApplyRuns
  BY DEF Checking
<1>2. project \in Projects /\ Closed(tree) /\ queue \in Seq(DOMAIN Plan)
  BY <1>1 DEF FixInv, MoveInv
<1>3. queue[c] \in DOMAIN Plan /\ queue[c] \in Nat
  BY <1>1, QueueOnce
<1>4. EntryShape(mem.items[c], Plan[queue[c]])
  BY <1>1 DEF ShapeInv, MemShape
<1> QED
  BY <1>1, <1>2, <1>3, <1>4 DEF EntryShape, Standing

LEMMA PatchReversed ==
    ASSUME NEW i, NEW g, Checking(i, g), NEW c \in 1..Len(queue), NEW acc,
           Len(acc.later) \in Nat, Carriers(acc.later), LegacyBack(g, acc.steps, acc.later, c + 1), ShowsHere(c, i, g)
    PROVE  /\ mem.items[c].kind = "move-file" /\ mem.items[c].to = Plan[i].to
           /\ mem.items[c].status # "skipped" /\ Same(mem.items[c], acc)
<1>1. /\ FixInv /\ ShapeInv /\ PlannerPromise /\ Gated(i, g) /\ PlaceInv(i, g)
      /\ project \in Projects /\ Closed(tree) /\ queue[c] \in DOMAIN Plan /\ queue[c] \in Nat /\ c \in Nat
      /\ mem.items[c].kind = Plan[queue[c]].kind
  BY CheckingItem DEF Checking
<1>2. PICK p \in Spots(i, g) : p \in Files(tree) /\ Shows(c, i, tree[p])
  BY DEF ShowsHere
<1>3. /\ mem.items[c].kind = "move-file" /\ mem.items[c].to = Plan[i].to /\ mem.items[c].status # "skipped"
      /\ mem.items[c].hash = {FileHash(tree[p])}
  BY <1>2 DEF Shows, Standing
<1>4. PICK l : l = acc.later
  OBVIOUS
<1>5. PICK loc : loc = Carried(l, Plan[i].to)
  OBVIOUS
<1>6. loc \in Spots(i, g) /\ ((\E a \in 1..Len(l) : l[a].from = Plan[g].to) <=> loc # Plan[i].to)
  BY <1>1, <1>4, <1>5, CarriedSpot
<1>7. loc = p
  <2>1. CASE p = Plan[i].to
    <3> SUFFICES ASSUME loc # Plan[i].to PROVE FALSE
      BY <2>1
    <3>1. PICK a \in 1..Len(l) : l[a].from = Plan[g].to
      BY <1>6
    <3>2. l[a].from \notin DOMAIN tree
      BY <1>4, <3>1 DEF Carriers, Carrier
    <3>3. PICK f \in LegacyOf(g) : loc = Carry(i, f)
      BY <1>6 DEF Spots
    <3>4. Plan[f].from \in DOMAIN tree
      BY <1>1, <1>2, <2>1, <3>3, OneSpot DEF Files
    <3> QED
      BY <1>1, <3>1, <3>2, <3>4, LegacyFacts
  <2>2. CASE p # Plan[i].to
    <3>1. PICK f \in LegacyOf(g) : p = Carry(i, f)
      BY <2>2 DEF Spots
    <3>2. Moved(f)
      BY <1>1, <1>2, <3>1, OneSpot DEF Files
    <3>3. PICK m \in 1..Len(queue) : queue[m] = f
      BY <1>1, <3>2 DEF PlaceInv, LegacyLeft
    <3>4. queue[c] < queue[m]
      BY <1>1, <1>3, <3>3, PromisedOrder
    <3>5. m \in c + 1..Len(queue)
      <4>1. c < m
        BY <1>1, <3>4, QueueOnce
      <4> QED
        BY <1>1, <4>1
    <3>6. \E a \in 1..Len(l) : l[a].from = Plan[g].to
      BY <1>4, <3>2, <3>3, <3>5 DEF LegacyBack
    <3>7. loc # Plan[i].to
      BY <1>6, <3>6
    <3>8. PICK f2 \in LegacyOf(g) : loc = Carry(i, f2)
      BY <1>6, <3>7 DEF Spots
    <3> QED
      BY <1>1, <3>1, <3>8, PromisedOrder
  <2> QED
    BY <2>1, <2>2
<1>8. HashTree(tree, p) = FileHash(tree[p]) /\ p \in DOMAIN tree
  BY <1>1, <1>2, HashOfFile DEF Files
<1> QED
  BY <1>3, <1>4, <1>5, <1>7, <1>8 DEF Same

LEMMA LegacyReversed ==
    ASSUME NEW i, NEW g, Checking(i, g), NEW c \in 1..Len(queue), NEW acc, NEW acc2,
           Len(acc.later) \in Nat, Carriers(acc.later), NEW f \in LegacyOf(g), queue[c] = f, Moved(f),
           Reverses(mem.items[c], acc, acc2)
    PROVE  /\ MovesItBack(mem.items[c], acc, acc2) /\ mem.items[c].kind = "move-folder"
           /\ mem.items[c].to = Plan[f].to /\ mem.items[c].from = Plan[g].to
<1>1. /\ FixInv /\ ShapeInv /\ PlannerPromise /\ Gated(i, g) /\ PlaceInv(i, g) /\ project \in Projects
      /\ mem.items[c].kind = Plan[f].kind /\ mem.items[c].to = Plan[f].to
      /\ Plan[f].kind \in MoveKinds => mem.items[c].from = Plan[f].from
  BY CheckingItem DEF Checking
<1>2. Plan[f].kind = "move-folder" /\ Plan[f].from = Plan[g].to
  BY <1>1, LegacyFacts
<1>3. /\ mem.items[c].kind = "move-folder" /\ mem.items[c].from = Plan[g].to
  BY <1>1, <1>2 DEF MoveKinds
<1>4. Plan[f].from \notin DOMAIN tree /\ \E m \in 1..Len(queue) : Standing(m) /\ queue[m] = f
  BY <1>1 DEF PlaceInv, LegacyLeft
<1>5. Standing(c)
  BY <1>1, <1>4, QueueOnce
<1>6. mem.items[c].status # "skipped"
  BY <1>5 DEF Standing
<1>7. ~LeftAlone(mem.items[c], acc, acc2)
  BY <1>2, <1>3, <1>4, <1>6 DEF LeftAlone, MoveKinds, EditKinds
<1>8. MovesItBack(mem.items[c], acc, acc2)
  BY <1>3, <1>7 DEF Reverses, RestoresIt, RemovesIt, MoveKinds, EditKinds
<1> QED
  BY <1>1, <1>3, <1>8

LEMMA RenameReversed ==
    ASSUME NEW i, NEW g, Checking(i, g), NEW c \in 1..Len(queue), NEW acc, NEW acc2,
           TextSeen(acc.text, c + 1), RenameAt(c), mem.items[c].after = text,
           Reverses(mem.items[c], acc, acc2)
    PROVE  RestoresIt(mem.items[c], acc, acc2)
<1>1. /\ FixInv /\ ShapeInv /\ PlannerPromise /\ Gated(i, g) /\ project \in Projects
      /\ queue[c] \in DOMAIN Plan /\ queue[c] \in Nat /\ c \in Nat
      /\ mem.items[c].kind = Plan[queue[c]].kind
  BY CheckingItem DEF Checking
<1>2. mem.items[c].kind = "rename-entry" /\ mem.items[c].after # {}
  BY DEF RenameAt
<1>3. mem.items[c].status # "skipped"
  BY <1>1, <1>2 DEF ShapeInv, EntriesShape, Standing
<1>4. ASSUME NEW d \in c + 1..Len(queue), mem.items[d].kind \in EditKinds PROVE FALSE
  <2>1. d \in 1..Len(queue) /\ d # c /\ c < d
    BY <1>1
  <2>2. queue[d] \in DOMAIN Plan /\ queue[d] \in Nat /\ mem.items[d].kind = Plan[queue[d]].kind
    BY <2>1, CheckingItem
  <2>3. CASE mem.items[d].kind = "rename-entry"
    BY <1>1, <1>2, <2>1, <2>2, <2>3, OneRenaming
  <2>4. CASE mem.items[d].kind = "gate"
    <3>1. queue[d] = g
      BY <1>1, <2>2, <2>4, PromisedOrder
    <3>2. PICK f \in LegacyOf(g) : f < queue[c]
      BY <1>1, <1>2, PromisedOrder
    <3>3. f \in Nat /\ g < f
      BY <1>1, PromisedOrder, LegacyFacts, PlanTyped DEF MoveKinds
    <3>4. queue[d] < queue[c]
      BY <1>1, <2>2, <3>1, <3>2, <3>3
    <3>5. d < c
      BY <1>1, <2>1, <3>4, QueueOnce
    <3> QED
      BY <1>1, <2>1, <3>5
  <2> QED
    BY <1>4, <2>3, <2>4 DEF EditKinds
<1>5. acc.text = text
  BY <1>4 DEF TextSeen
<1>6. ~LeftAlone(mem.items[c], acc, acc2)
  BY <1>2, <1>3, <1>5 DEF LeftAlone, MoveKinds, EditKinds
<1> QED
  BY <1>2, <1>6 DEF Reverses, MovesItBack, RemovesIt, MoveKinds, EditKinds

RestoreOf(item, acc) == [op |-> "restore", text |-> item.before, now |-> acc.text]
RemovalOf(item) == [op |-> "remove-folders", to |-> item.to, top |-> item.from]

LEMMA Grows ==
    ASSUME NEW item, NEW acc, NEW acc2, FoldShape(acc)
    PROVE  /\ Len(acc.steps) \in Nat /\ Len(acc.later) \in Nat
           /\ LeftAlone(item, acc, acc2) => acc2 = acc
           /\ MovesItBack(item, acc, acc2) =>
                /\ Listed(acc2.steps) /\ Listed(acc2.later) /\ Extends(acc.steps, acc2.steps, MoveBack(item))
                /\ acc2.later = acc.later \/ (item.kind = "move-folder" /\ Extends(acc.later, acc2.later, MoveBack(item)))
                /\ item.kind = "move-folder" => Extends(acc.later, acc2.later, MoveBack(item))
           /\ RestoresIt(item, acc, acc2) =>
                /\ Listed(acc2.steps) /\ acc2.later = acc.later
                /\ Extends(acc.steps, acc2.steps, RestoreOf(item, acc))
           /\ RemovesIt(item, acc, acc2) =>
                /\ Listed(acc2.steps) /\ acc2.later = acc.later
                /\ Extends(acc.steps, acc2.steps, RemovalOf(item))
<1>1. PICK s, l : s = acc.steps /\ l = acc.later
  OBVIOUS
<1>2. Listed(s) /\ Listed(l) /\ Len(s) \in Nat /\ Len(l) \in Nat
  BY <1>1, ListedLen DEF FoldShape
<1>3. ASSUME NEW e PROVE /\ Listed(Append(s, e)) /\ Extends(s, Append(s, e), e)
                         /\ Listed(Append(l, e)) /\ Extends(l, Append(l, e), e)
  BY <1>2, AppendExtends
<1>4. LeftAlone(item, acc, acc2) => acc2 = acc
  BY DEF LeftAlone
<1>5. ASSUME MovesItBack(item, acc, acc2)
      PROVE  /\ Listed(acc2.steps) /\ Listed(acc2.later) /\ Extends(acc.steps, acc2.steps, MoveBack(item))
             /\ acc2.later = acc.later \/ (item.kind = "move-folder" /\ Extends(acc.later, acc2.later, MoveBack(item)))
             /\ item.kind = "move-folder" => Extends(acc.later, acc2.later, MoveBack(item))
  <2>1. PICK e : e = MoveBack(item)
    OBVIOUS
  <2>2. /\ acc2.steps = Append(s, e)
        /\ acc2.later = IF item.kind = "move-folder" THEN Append(l, e) ELSE l
    BY <1>1, <1>5, <2>1 DEF MovesItBack
  <2> QED
    BY <1>1, <1>2, <1>3, <2>1, <2>2
<1>6. ASSUME RestoresIt(item, acc, acc2)
      PROVE  /\ Listed(acc2.steps) /\ acc2.later = acc.later
             /\ Extends(acc.steps, acc2.steps, RestoreOf(item, acc))
  <2>1. PICK e : e = RestoreOf(item, acc)
    OBVIOUS
  <2>2. acc2.steps = Append(s, e) /\ acc2.later = acc.later
    BY <1>1, <1>6, <2>1 DEF RestoresIt, RestoreOf
  <2> QED
    BY <1>1, <1>3, <2>1, <2>2
<1>7. ASSUME RemovesIt(item, acc, acc2)
      PROVE  /\ Listed(acc2.steps) /\ acc2.later = acc.later
             /\ Extends(acc.steps, acc2.steps, RemovalOf(item))
  <2>1. PICK e : e = RemovalOf(item)
    OBVIOUS
  <2>2. acc2.steps = Append(s, e) /\ acc2.later = acc.later
    BY <1>1, <1>7, <2>1 DEF RemovesIt, RemovalOf
  <2> QED
    BY <1>1, <1>3, <2>1, <2>2
<1>8. Len(acc.steps) \in Nat /\ Len(acc.later) \in Nat
  BY <1>1, <1>2
<1> QED
  BY <1>4, <1>5, <1>6, <1>7, <1>8

HasCarrier(l, x) == \E a \in 1..Len(l) : l[a].from = x

LEMMA HasKept ==
    ASSUME NEW s, NEW s2, NEW e, Extends(s, s2, e)
    PROVE  /\ \A q : HasBack(s, q) \/ Back(e, q) => HasBack(s2, q)
           /\ \A g : HasRestore(s, g) \/ GateRestored(e, g) => HasRestore(s2, g)
           /\ \A x : HasCarrier(s, x) \/ e.from = x => HasCarrier(s2, x)
  BY DEF Extends, HasBack, HasRestore, HasCarrier

LEMMA LegacyBeforeGrown ==
    ASSUME NEW s, NEW s2, NEW e, Extends(s, s2, e), NEW g, LegacyBefore(g, s),
           \A f \in LegacyOf(g) : Moved(f) /\ e.op = "move-back" /\ IsPrefix(Plan[f].from, e.from)
                                    => Back(e, Plan[f].to) \/ HasBack(s, Plan[f].to)
    PROVE  LegacyBefore(g, s2)
<1> SUFFICES ASSUME NEW f \in LegacyOf(g), Moved(f), NEW a \in 1..Len(s2),
                    s2[a].op = "move-back", IsPrefix(Plan[f].from, s2[a].from)
             PROVE  \E b \in 1..a : Back(s2[b], Plan[f].to)
  BY DEF LegacyBefore
<1>1. Len(s) \in Nat /\ Len(s2) = Len(s) + 1 /\ s2[Len(s) + 1] = e /\ \A b \in 1..Len(s) : s2[b] = s[b]
  BY DEF Extends
<1>2. CASE a \in 1..Len(s)
  <2>1. s2[a] = s[a]
    BY <1>1, <1>2
  <2>2. PICK b \in 1..a : Back(s[b], Plan[f].to)
    BY <1>2, <2>1 DEF LegacyBefore
  <2>3. b \in 1..Len(s)
    BY <1>1, <1>2
  <2> QED
    BY <1>1, <2>2, <2>3
<1>3. CASE a = Len(s) + 1
  <2>1. Back(e, Plan[f].to) \/ HasBack(s, Plan[f].to)
    BY <1>1, <1>3
  <2>2. CASE Back(e, Plan[f].to)
    BY <1>1, <1>3, <2>2
  <2>3. CASE HasBack(s, Plan[f].to)
    <3>1. PICK b \in 1..Len(s) : Back(s[b], Plan[f].to)
      BY <2>3 DEF HasBack
    <3>2. b \in 1..a /\ s2[b] = s[b]
      BY <1>1, <1>3
    <3> QED
      BY <3>1, <3>2
  <2> QED
    BY <2>1, <2>2, <2>3
<1> QED
  BY <1>1, <1>2, <1>3

LEMMA RestoresLastGrown ==
    ASSUME NEW s, NEW s2, NEW e, Extends(s, s2, e), NEW i, NEW g, RestoresLast(i, g, s),
           e.op = "restore" => e.text = GateText(g) \/ HasBack(s, Plan[i].to)
    PROVE  RestoresLast(i, g, s2)
<1> SUFFICES ASSUME NEW a \in 1..Len(s2), s2[a].op = "restore", s2[a].text # GateText(g)
             PROVE  \E b \in 1..a - 1 : Back(s2[b], Plan[i].to)
  BY DEF RestoresLast
<1>1. Len(s) \in Nat /\ Len(s2) = Len(s) + 1 /\ s2[Len(s) + 1] = e /\ \A b \in 1..Len(s) : s2[b] = s[b]
  BY DEF Extends
<1>2. CASE a \in 1..Len(s)
  <2>1. s2[a] = s[a]
    BY <1>1, <1>2
  <2>2. PICK b \in 1..a - 1 : Back(s[b], Plan[i].to)
    BY <1>2, <2>1 DEF RestoresLast
  <2>3. b \in 1..Len(s)
    BY <1>1, <1>2
  <2> QED
    BY <1>1, <2>2, <2>3
<1>3. CASE a = Len(s) + 1
  <2>1. HasBack(s, Plan[i].to)
    BY <1>1, <1>3
  <2>2. PICK b \in 1..Len(s) : Back(s[b], Plan[i].to)
    BY <2>1 DEF HasBack
  <2>3. b \in 1..a - 1 /\ s2[b] = s[b]
    BY <1>1, <1>3
  <2> QED
    BY <2>2, <2>3
<1> QED
  BY <1>1, <1>2, <1>3

LEMMA RestoresFirstGrown ==
    ASSUME NEW s, NEW s2, NEW e, Extends(s, s2, e), NEW g, RestoresFirst(g, s),
           \A f \in LegacyOf(g) : Back(e, Plan[f].to) => text = GateText(g) \/ HasRestore(s, g)
    PROVE  RestoresFirst(g, s2)
<1> SUFFICES ASSUME NEW f \in LegacyOf(g), NEW a \in 1..Len(s2), Back(s2[a], Plan[f].to), text # GateText(g)
             PROVE  \E b \in 1..a - 1 : GateRestored(s2[b], g)
  BY DEF RestoresFirst
<1>1. Len(s) \in Nat /\ Len(s2) = Len(s) + 1 /\ s2[Len(s) + 1] = e /\ \A b \in 1..Len(s) : s2[b] = s[b]
  BY DEF Extends
<1>2. CASE a \in 1..Len(s)
  <2>1. s2[a] = s[a]
    BY <1>1, <1>2
  <2>2. PICK b \in 1..a - 1 : GateRestored(s[b], g)
    BY <1>2, <2>1 DEF RestoresFirst
  <2>3. b \in 1..Len(s)
    BY <1>1, <1>2
  <2> QED
    BY <1>1, <2>2, <2>3
<1>3. CASE a = Len(s) + 1
  <2>1. HasRestore(s, g)
    BY <1>1, <1>3
  <2>2. PICK b \in 1..Len(s) : GateRestored(s[b], g)
    BY <2>1 DEF HasRestore
  <2>3. b \in 1..a - 1 /\ s2[b] = s[b]
    BY <1>1, <1>3
  <2> QED
    BY <2>2, <2>3
<1> QED
  BY <1>1, <1>2, <1>3

LEMMA FoldShapes ==
    ASSUME NEW i, NEW g, Checking(i, g), NEW c \in 1..Len(queue), NEW acc, NEW acc2, FoldShape(acc),
           DOMAIN acc2 = AccFields, Reverses(mem.items[c], acc, acc2)
    PROVE  FoldShape(acc2)
<1>1. /\ queue[c] \in DOMAIN Plan /\ mem.items[c].kind = Plan[queue[c]].kind /\ mem.items[c].to = Plan[queue[c]].to
      /\ Plan[queue[c]].kind \in MoveKinds => mem.items[c].from = Plan[queue[c]].from
  BY CheckingItem
<1>2. /\ Listed(acc.steps) /\ Listed(acc.later) /\ StepsFrom(acc.steps) /\ Carriers(acc.later)
  BY DEF FoldShape
<1>3. ASSUME NEW s, NEW s2, NEW e, Extends(s, s2, e), StepsFrom(s), StepShape(e) PROVE StepsFrom(s2)
  BY <1>3 DEF Extends, StepsFrom
<1>4. ASSUME NEW s, NEW s2, NEW e, Extends(s, s2, e), Carriers(s), Carrier(e) PROVE Carriers(s2)
  BY <1>4 DEF Extends, Carriers
<1>5. CASE LeftAlone(mem.items[c], acc, acc2)
  BY <1>5 DEF LeftAlone
<1>6. CASE MovesItBack(mem.items[c], acc, acc2)
  <2>1. PICK e : e = MoveBack(mem.items[c])
    OBVIOUS
  <2>2. /\ Listed(acc2.steps) /\ Listed(acc2.later) /\ Extends(acc.steps, acc2.steps, e)
        /\ acc2.later = acc.later \/ (mem.items[c].kind = "move-folder" /\ Extends(acc.later, acc2.later, e))
    BY <1>6, <2>1, Grows
  <2>3. /\ mem.items[c].kind \in MoveKinds /\ mem.items[c].from \notin DOMAIN tree
    BY <1>6 DEF MovesItBack
  <2>4. StepShape(e)
    BY <2>1, <2>3 DEF StepShape, MoveBack
  <2>5. mem.items[c].kind = "move-folder" => Carrier(e)
    BY <1>1, <2>1, <2>3 DEF Carrier, MoveBack
  <2>6. StepsFrom(acc2.steps) /\ Carriers(acc2.later)
    BY <1>2, <1>3, <1>4, <2>2, <2>4, <2>5
  <2> QED
    BY <2>2, <2>6 DEF FoldShape
<1>7. CASE RestoresIt(mem.items[c], acc, acc2)
  <2>1. /\ Listed(acc2.steps) /\ acc2.later = acc.later /\ Extends(acc.steps, acc2.steps, RestoreOf(mem.items[c], acc))
    BY <1>7, Grows
  <2>2. StepShape(RestoreOf(mem.items[c], acc))
    BY DEF StepShape, RestoreOf
  <2>3. StepsFrom(acc2.steps)
    BY <1>2, <1>3, <2>1, <2>2
  <2> QED
    BY <1>2, <2>1, <2>3 DEF FoldShape
<1>8. CASE RemovesIt(mem.items[c], acc, acc2)
  <2>1. /\ Listed(acc2.steps) /\ acc2.later = acc.later /\ Extends(acc.steps, acc2.steps, RemovalOf(mem.items[c]))
    BY <1>8, Grows
  <2>2. StepShape(RemovalOf(mem.items[c]))
    BY DEF StepShape, RemovalOf
  <2>3. StepsFrom(acc2.steps)
    BY <1>2, <1>3, <2>1, <2>2
  <2> QED
    BY <1>2, <2>1, <2>3 DEF FoldShape
<1> QED
  BY <1>5, <1>6, <1>7, <1>8 DEF Reverses

\* The later items are these and the item itself.
LEMMA FromHere ==
    ASSUME NEW N \in Nat, NEW c \in 1..N, NEW d \in c..N
    PROVE  d = c \/ d \in c + 1..N
  OBVIOUS

LEMMA LegacyMovedFirst ==
    ASSUME NEW i, NEW g, Checking(i, g), NEW c \in 1..Len(queue), NEW f \in LegacyOf(g), Moved(f),
           NEW s, NEW l, LegacyBack(g, s, l, c + 1), mem.items[c].kind \in MoveKinds,
           IsPrefix(Plan[f].from, mem.items[c].from)
    PROVE  mem.items[c].to = Plan[f].to \/ HasBack(s, Plan[f].to)
<1>1. /\ FixInv /\ ShapeInv /\ PlannerPromise /\ Gated(i, g) /\ PlaceInv(i, g) /\ project \in Projects
      /\ queue[c] \in DOMAIN Plan /\ queue[c] \in Nat /\ c \in Nat /\ queue \in Seq(DOMAIN Plan)
      /\ mem.items[c].kind = Plan[queue[c]].kind /\ mem.items[c].to = Plan[queue[c]].to
      /\ Plan[queue[c]].kind \in MoveKinds => mem.items[c].from = Plan[queue[c]].from
  BY CheckingItem DEF Checking, FixInv, MoveInv
<1>2. PICK m \in 1..Len(queue) : queue[m] = f
  BY <1>1 DEF PlaceInv, LegacyLeft
<1>3. PICK x : x = queue[c]
  OBVIOUS
<1>4. CASE m = c
  BY <1>1, <1>2, <1>4
<1>5. CASE c < m
  <2>1. m \in c + 1..Len(queue)
    BY <1>1, <1>5
  <2> QED
    BY <1>2, <2>1 DEF LegacyBack
<1>6. CASE m < c
  <2>1. f < x /\ f \in Nat /\ x \in Nat
    <3>1. DOMAIN queue = 1..Len(queue)
      BY <1>1
    <3> QED
      BY <1>1, <1>2, <1>3, <1>6, <3>1, QueueOnce DEF ShapeInv, QueueShape
  <2>2. Plan[x].kind # "move-file"
    BY <1>1, <1>3, <2>1, PromisedOrder
  <2>3. Plan[x].kind = "move-folder" /\ x \in DOMAIN Plan
    BY <1>1, <1>3, <2>2 DEF MoveKinds
  <2>4. x \notin LegacyOf(g)
    BY <1>1, <2>1, PromisedOrder
  <2>5. ~Gated(x, g)
    BY <2>2 DEF Gated
  <2>6. Clear(Plan[x].from, i, g)
    BY <1>1, <2>3, <2>4, <2>5, OthersClear
  <2>7. ~IsPrefix(Plan[f].from, Plan[x].from)
    BY <2>6 DEF Clear
  <2> QED
    BY <1>1, <1>3, <2>7
<1>7. m \in Nat
  OBVIOUS
<1> QED
  BY <1>1, <1>4, <1>5, <1>6, <1>7

LEMMA FoldPlaces ==
    ASSUME NEW i, NEW g, Checking(i, g), NEW c \in 1..Len(queue), NEW acc, NEW acc2,
           FoldShape(acc), FoldPlace(g, acc, c + 1), Reverses(mem.items[c], acc, acc2)
    PROVE  FoldPlace(g, acc2, c)
<1> DEFINE item == mem.items[c]
<1>1. /\ LegacyBack(g, acc.steps, acc.later, c + 1) /\ LegacyBefore(g, acc.steps) /\ TextSeen(acc.text, c + 1)
      /\ Len(acc.steps) \in Nat /\ Len(acc.later) \in Nat /\ Carriers(acc.later) /\ c \in Nat
      /\ Len(queue) \in Nat
  <2>1. queue \in Seq(DOMAIN Plan)
    BY DEF Checking, FixInv, MoveInv
  <2> QED
    BY <2>1, Grows DEF FoldPlace, FoldShape
<1>2. acc2.steps = acc.steps \/ \E e : Extends(acc.steps, acc2.steps, e)
  BY Grows DEF Reverses
<1>3. acc2.later = acc.later \/ \E e : Extends(acc.later, acc2.later, e)
  BY Grows DEF Reverses
<1>4. \A q : HasBack(acc.steps, q) => HasBack(acc2.steps, q)
  BY <1>2, HasKept
<1>5. \A x : HasCarrier(acc.later, x) => HasCarrier(acc2.later, x)
  BY <1>3, HasKept
<1>6. LegacyBack(g, acc2.steps, acc2.later, c)
  <2> SUFFICES ASSUME NEW f \in LegacyOf(g), NEW d \in c..Len(queue), queue[d] = f, Moved(f)
               PROVE  HasBack(acc2.steps, Plan[f].to) /\ HasCarrier(acc2.later, Plan[g].to)
    BY DEF LegacyBack, HasCarrier
  <2>1. d = c \/ d \in c + 1..Len(queue)
    BY <1>1
  <2>2. CASE d \in c + 1..Len(queue)
    <3>1. HasBack(acc.steps, Plan[f].to) /\ HasCarrier(acc.later, Plan[g].to)
      BY <1>1, <2>2 DEF LegacyBack, HasCarrier
    <3> QED
      BY <1>4, <1>5, <3>1
  <2>3. CASE d = c
    <3>1. MovesItBack(item, acc, acc2) /\ item.kind = "move-folder" /\ item.to = Plan[f].to /\ item.from = Plan[g].to
      <4>1. queue[c] = f /\ Len(acc.later) \in Nat /\ Carriers(acc.later) /\ Reverses(mem.items[c], acc, acc2)
        BY <1>1, <2>3
      <4>2. /\ MovesItBack(mem.items[c], acc, acc2) /\ mem.items[c].kind = "move-folder"
            /\ mem.items[c].to = Plan[f].to /\ mem.items[c].from = Plan[g].to
        BY <4>1, LegacyReversed, Zenon
      <4> QED
        BY <4>2
    <3>2. PICK e : e = MoveBack(item)
      OBVIOUS
    <3>3. Extends(acc.steps, acc2.steps, e) /\ Extends(acc.later, acc2.later, e)
      BY <3>1, <3>2, Grows
    <3>4. Back(e, Plan[f].to) /\ e.from = Plan[g].to
      BY <3>1, <3>2 DEF Back, MoveBack
    <3> QED
      BY <3>3, <3>4, HasKept
  <2> QED
    BY <2>1, <2>2, <2>3
<1>7. LegacyBefore(g, acc2.steps)
  <2>1. CASE LeftAlone(item, acc, acc2)
    BY <1>1, <2>1 DEF LeftAlone
  <2>2. CASE MovesItBack(item, acc, acc2)
    <3>1. PICK e : e = MoveBack(item)
      OBVIOUS
    <3>2. Extends(acc.steps, acc2.steps, e) /\ e.from = item.from /\ e.to = item.to /\ e.op = "move-back"
      BY <2>2, <3>1, Grows DEF MoveBack
    <3>3. item.kind \in MoveKinds
      BY <2>2 DEF MovesItBack
    <3>4. \A f \in LegacyOf(g) : Moved(f) /\ e.op = "move-back" /\ IsPrefix(Plan[f].from, e.from)
                                   => Back(e, Plan[f].to) \/ HasBack(acc.steps, Plan[f].to)
      BY <1>1, <3>2, <3>3, LegacyMovedFirst DEF Back
    <3> QED
      BY <1>1, <3>2, <3>4, LegacyBeforeGrown
  <2>3. CASE RestoresIt(item, acc, acc2)
    <3>1. Extends(acc.steps, acc2.steps, RestoreOf(item, acc)) /\ RestoreOf(item, acc).op # "move-back"
      BY <2>3, Grows DEF RestoreOf
    <3> QED
      BY <1>1, <3>1, LegacyBeforeGrown
  <2>4. CASE RemovesIt(item, acc, acc2)
    <3>1. Extends(acc.steps, acc2.steps, RemovalOf(item)) /\ RemovalOf(item).op # "move-back"
      BY <2>4, Grows DEF RemovalOf
    <3> QED
      BY <1>1, <3>1, LegacyBeforeGrown
  <2> QED
    BY <2>1, <2>2, <2>3, <2>4 DEF Reverses
<1>8. TextSeen(acc2.text, c)
  <2> SUFFICES ASSUME \A d \in c..Len(queue) : mem.items[d].kind \notin EditKinds
               PROVE  acc2.text = text
    BY DEF TextSeen
  <2>1. item.kind \notin EditKinds /\ \A d \in c + 1..Len(queue) : mem.items[d].kind \notin EditKinds
    BY <1>1
  <2>2. acc.text = text
    BY <1>1, <2>1 DEF TextSeen
  <2>3. acc2.text = acc.text
    BY <2>1 DEF Reverses, LeftAlone, MovesItBack, RestoresIt, RemovesIt
  <2> QED
    BY <2>2, <2>3
<1> QED
  BY <1>6, <1>7, <1>8 DEF FoldPlace

LEMMA ToLegacy ==
    ASSUME project \in Projects, PlannerPromise, NEW i, NEW g, Gated(i, g), NEW f \in LegacyOf(g),
           NEW x \in DOMAIN Plan, Plan[x].kind \in MoveKinds, Plan[x].to = Plan[f].to
    PROVE  x = f
<1>1. IsPrefix(Plan[f].to, Plan[f].to)
  BY LegacyFacts, PrefixSelf
<1>2. CASE x \in LegacyOf(g)
  BY <1>2, PromisedOrder
<1>3. CASE Gated(x, g)
  BY <1>1, <1>3, PatchesApart
<1>4. CASE x \notin LegacyOf(g) /\ ~Gated(x, g)
  <2>1. Clear(Plan[x].to, i, g)
    BY <1>4, OthersClear
  <2> QED
    BY <1>1, <2>1 DEF Clear
<1> QED
  BY <1>2, <1>3, <1>4

\* A restore planned now takes LoadFolders.xml to where it lists the gated folder, or the patch has gone back.
LEMMA RestorePlanned ==
    ASSUME NEW i, NEW g, Checking(i, g), NEW c \in 1..Len(queue), NEW s, PatchBack(i, g, s, c + 1), There(i, g),
           mem.items[c].kind \in EditKinds, mem.items[c].after # {}
    PROVE  mem.items[c].before = GateText(g) \/ HasBack(s, Plan[i].to)
<1>1. /\ FixInv /\ ShapeInv /\ PlannerPromise /\ Gated(i, g) /\ PlaceInv(i, g) /\ TextInv(i, g) /\ project \in Projects
      /\ queue[c] \in DOMAIN Plan /\ queue[c] \in Nat /\ c \in Nat /\ mem.items[c].kind = Plan[queue[c]].kind
  BY CheckingItem DEF Checking
<1>2. CASE mem.items[c].kind = "rename-entry"
  BY <1>1, <1>2 DEF TextInv, RenamedGate, RenameAt
<1>3. CASE mem.items[c].kind = "gate"
  <2>1. queue[c] = g
    BY <1>1, <1>3, PromisedOrder
  <2>2. PICK p \in Spots(i, g) : p \in Files(tree)
    BY DEF There
  <2>3. PICK m \in 1..Len(queue) : Shows(m, i, tree[p])
    BY <1>1, <2>2 DEF PlaceInv, PatchesJournaled
  <2>4. ShowsHere(m, i, g)
    BY <2>2, <2>3 DEF ShowsHere
  <2>5. Plan[queue[m]].kind = "move-file" /\ queue[m] \in DOMAIN Plan /\ queue[m] \in Nat
    BY <2>3, CheckingItem DEF Shows
  <2>6. queue[c] < queue[m]
    BY <1>1, <2>1, <2>5, PromisedOrder DEF MoveKinds
  <2>7. c < m
    BY <1>1, <2>6, QueueOnce
  <2>8. m \in c + 1..Len(queue)
    BY <1>1, <2>7
  <2> QED
    BY <2>4, <2>8 DEF PatchBack
<1> QED
  BY <1>2, <1>3 DEF EditKinds

\* When the legacy folder is planned back, the renamed entry already is.
LEMMA LegacyPlanned ==
    ASSUME NEW i, NEW g, Checking(i, g), NEW c \in 1..Len(queue), NEW s, RenameBackIn(g, s, c + 1), There(i, g),
           NEW f \in LegacyOf(g), mem.items[c].kind \in MoveKinds, mem.items[c].to = Plan[f].to
    PROVE  text = GateText(g) \/ HasRestore(s, g)
<1>1. /\ FixInv /\ ShapeInv /\ PlannerPromise /\ Gated(i, g) /\ PlaceInv(i, g) /\ TextInv(i, g) /\ project \in Projects
      /\ queue[c] \in DOMAIN Plan /\ queue[c] \in Nat /\ c \in Nat
      /\ mem.items[c].kind = Plan[queue[c]].kind /\ mem.items[c].to = Plan[queue[c]].to
  BY CheckingItem DEF Checking
<1>2. PICK x : x = queue[c]
  OBVIOUS
<1>3. x = f
  BY <1>1, <1>2, ToLegacy
<1>4. SUFFICES ASSUME text # GateText(g) PROVE HasRestore(s, g)
  OBVIOUS
<1>5. PICK m \in 1..Len(queue) : RenameAt(m) /\ mem.items[m].after = text
  BY <1>1, <1>4 DEF TextInv, PatchListed, Renamings
<1>6. Plan[queue[m]].kind = "rename-entry" /\ queue[m] \in DOMAIN Plan /\ queue[m] \in Nat
  BY <1>5, CheckingItem DEF RenameAt
<1>7. queue[c] < queue[m]
  <2>1. PICK f2 \in LegacyOf(g) : f2 < queue[m]
    BY <1>1, <1>6, PromisedOrder
  <2>2. f2 = f
    BY <1>1, PromisedOrder
  <2> QED
    BY <1>2, <1>3, <2>1, <2>2
<1>8. c < m
  BY <1>1, <1>7, QueueOnce
<1>9. m \in c + 1..Len(queue)
  BY <1>1, <1>8
<1> QED
  BY <1>5, <1>9 DEF RenameBackIn

LEMMA FoldTexts ==
    ASSUME NEW i, NEW g, Checking(i, g), NEW c \in 1..Len(queue), NEW acc, NEW acc2,
           FoldShape(acc), FoldPlace(g, acc, c + 1), FoldText(i, g, acc, c + 1), Reverses(mem.items[c], acc, acc2)
    PROVE  FoldText(i, g, acc2, c)
<1> SUFFICES ASSUME There(i, g)
             PROVE  /\ PatchBack(i, g, acc2.steps, c) /\ RenameBackIn(g, acc2.steps, c)
                    /\ RestoresLast(i, g, acc2.steps) /\ RestoresFirst(g, acc2.steps)
  BY DEF FoldText
<1>1. /\ PatchBack(i, g, acc.steps, c + 1) /\ RenameBackIn(g, acc.steps, c + 1)
      /\ RestoresLast(i, g, acc.steps) /\ RestoresFirst(g, acc.steps)
      /\ LegacyBack(g, acc.steps, acc.later, c + 1) /\ TextSeen(acc.text, c + 1)
      /\ Len(acc.steps) \in Nat /\ Len(acc.later) \in Nat /\ Carriers(acc.later) /\ c \in Nat
      /\ Len(queue) \in Nat
  <2>1. queue \in Seq(DOMAIN Plan)
    BY DEF Checking, FixInv, MoveInv
  <2> QED
    BY <2>1, Grows DEF FoldText, FoldPlace, FoldShape
<1>2. acc2.steps = acc.steps \/ \E e : Extends(acc.steps, acc2.steps, e)
  BY Grows DEF Reverses
<1>3. /\ \A q : HasBack(acc.steps, q) => HasBack(acc2.steps, q)
      /\ \A h : HasRestore(acc.steps, h) => HasRestore(acc2.steps, h)
  BY <1>2, HasKept
<1>4. PatchBack(i, g, acc2.steps, c)
  <2> SUFFICES ASSUME NEW d \in c..Len(queue), ShowsHere(d, i, g) PROVE HasBack(acc2.steps, Plan[i].to)
    BY DEF PatchBack
  <2>1. d = c \/ d \in c + 1..Len(queue)
    BY <1>1
  <2>2. CASE d \in c + 1..Len(queue)
    BY <1>1, <1>3, <2>2 DEF PatchBack
  <2>3. CASE d = c
    <3>1. /\ mem.items[c].kind = "move-file" /\ mem.items[c].to = Plan[i].to
          /\ mem.items[c].status # "skipped" /\ Same(mem.items[c], acc)
      BY <1>1, <2>3, PatchReversed
    <3>2. MovesItBack(mem.items[c], acc, acc2)
      BY <3>1 DEF Reverses, LeftAlone, RestoresIt, RemovesIt, MoveKinds, EditKinds
    <3>3. PICK e : e = MoveBack(mem.items[c])
      OBVIOUS
    <3>4. Extends(acc.steps, acc2.steps, e) /\ Back(e, Plan[i].to)
      BY <3>1, <3>2, <3>3, Grows DEF Back, MoveBack
    <3> QED
      BY <3>4, HasKept
  <2> QED
    BY <2>1, <2>2, <2>3
<1>5. RenameBackIn(g, acc2.steps, c)
  <2> SUFFICES ASSUME NEW d \in c..Len(queue), RenameAt(d), mem.items[d].after = text PROVE HasRestore(acc2.steps, g)
    BY DEF RenameBackIn
  <2>1. d = c \/ d \in c + 1..Len(queue)
    BY <1>1
  <2>2. CASE d \in c + 1..Len(queue)
    BY <1>1, <1>3, <2>2 DEF RenameBackIn
  <2>3. CASE d = c
    <3>1. RestoresIt(mem.items[c], acc, acc2)
      BY <1>1, <2>3, RenameReversed
    <3>2. mem.items[c].before = GateText(g)
      BY <2>3 DEF Checking, TextInv, RenamedGate
    <3>3. PICK e : e = RestoreOf(mem.items[c], acc)
      OBVIOUS
    <3>4. Extends(acc.steps, acc2.steps, e) /\ GateRestored(e, g)
      BY <3>1, <3>2, <3>3, Grows DEF GateRestored, RestoreOf
    <3> QED
      BY <3>4, HasKept
  <2> QED
    BY <2>1, <2>2, <2>3
<1>6. CASE LeftAlone(mem.items[c], acc, acc2)
  BY <1>1, <1>4, <1>5, <1>6 DEF LeftAlone
<1>7. CASE MovesItBack(mem.items[c], acc, acc2)
  <2>1. PICK e : e = MoveBack(mem.items[c])
    OBVIOUS
  <2>2. Extends(acc.steps, acc2.steps, e) /\ e.to = mem.items[c].to /\ e.op = "move-back"
    BY <1>7, <2>1, Grows DEF MoveBack
  <2>3. RestoresLast(i, g, acc2.steps)
    BY <1>1, <2>2, RestoresLastGrown
  <2>4. mem.items[c].kind \in MoveKinds
    BY <1>7 DEF MovesItBack
  <2>5. \A f \in LegacyOf(g) : Back(e, Plan[f].to) => text = GateText(g) \/ HasRestore(acc.steps, g)
    BY <1>1, <2>2, <2>4, LegacyPlanned DEF Back
  <2>6. RestoresFirst(g, acc2.steps)
    BY <1>1, <2>2, <2>5, RestoresFirstGrown
  <2> QED
    BY <1>4, <1>5, <2>3, <2>6
<1>8. CASE RestoresIt(mem.items[c], acc, acc2)
  <2>1. PICK e : e = RestoreOf(mem.items[c], acc)
    OBVIOUS
  <2>2. Extends(acc.steps, acc2.steps, e) /\ e.text = mem.items[c].before /\ e.op = "restore"
    BY <1>8, <2>1, Grows DEF RestoreOf
  <2>3. mem.items[c].kind \in EditKinds /\ mem.items[c].after # {}
    BY <1>8 DEF RestoresIt
  <2>4. e.text = GateText(g) \/ HasBack(acc.steps, Plan[i].to)
    BY <1>1, <2>2, <2>3, RestorePlanned
  <2>5. RestoresLast(i, g, acc2.steps)
    BY <1>1, <2>2, <2>4, RestoresLastGrown
  <2>6. \A q : ~Back(e, q)
    BY <2>2 DEF Back
  <2>7. RestoresFirst(g, acc2.steps)
    BY <1>1, <2>2, <2>6, RestoresFirstGrown
  <2> QED
    BY <1>4, <1>5, <2>5, <2>7
<1>9. CASE RemovesIt(mem.items[c], acc, acc2)
  <2>1. PICK e : e = RemovalOf(mem.items[c])
    OBVIOUS
  <2>2. Extends(acc.steps, acc2.steps, e) /\ e.op = "remove-folders"
    BY <1>9, <2>1, Grows DEF RemovalOf
  <2>3. \A q : ~Back(e, q)
    BY <2>2 DEF Back
  <2>4. RestoresLast(i, g, acc2.steps)
    BY <1>1, <2>2, RestoresLastGrown
  <2>5. RestoresFirst(g, acc2.steps)
    BY <1>1, <2>2, <2>3, RestoresFirstGrown
  <2> QED
    BY <1>4, <1>5, <2>4, <2>5
<1> QED
  BY <1>6, <1>7, <1>8, <1>9 DEF Reverses

LEMMA FoldStart ==
    ASSUME NEW i, NEW g, Len(queue) \in Nat
    PROVE  FoldInv(i, g, Unreversed(text), Len(queue) + 1)
<1>1. PICK acc : acc = Unreversed(text)
  OBVIOUS
<1>2. /\ DOMAIN acc = AccFields /\ acc.steps = <<>> /\ acc.later = <<>> /\ acc.text = text
  BY <1>1 DEF Unreversed, AccFields
<1>3. Listed(<<>>) /\ Len(<<>>) = 0
  <2>1. <<>> \in Seq({})
    OBVIOUS
  <2> QED
    BY <2>1 DEF Listed
<1>4. \A d \in Len(queue) + 1..Len(queue) : FALSE
  OBVIOUS
<1>5. \A a \in 1..0 : FALSE
  OBVIOUS
<1>6. FoldShape(acc)
  BY <1>2, <1>3, <1>5 DEF FoldShape, StepsFrom, Carriers
<1>7. FoldPlace(g, acc, Len(queue) + 1)
  BY <1>2, <1>3, <1>4, <1>5 DEF FoldPlace, LegacyBack, LegacyBefore, TextSeen
<1>8. FoldText(i, g, acc, Len(queue) + 1)
  BY <1>2, <1>3, <1>4, <1>5 DEF FoldText, PatchBack, RenameBackIn, RestoresLast, RestoresFirst
<1> QED
  BY <1>1, <1>6, <1>7, <1>8 DEF FoldInv

LEMMA FoldStep ==
    ASSUME NEW i, NEW g, Checking(i, g), NEW c \in 1..Len(queue), NEW acc, acc.ok => FoldInv(i, g, acc, c + 1),
           NEW acc2, acc2 = ReverseItem(mem.items[c], acc), acc2.ok
    PROVE  FoldInv(i, g, acc2, c)
<1>1. acc.ok
  <2>1. ~acc.ok => acc2 = acc
    BY DEF ReverseItem
  <2> QED
    BY <2>1
<1>2. FoldShape(acc) /\ FoldPlace(g, acc, c + 1) /\ FoldText(i, g, acc, c + 1)
  BY <1>1 DEF FoldInv
<1>3. PICK item : item = mem.items[c]
  OBVIOUS
<1>4. DOMAIN acc = AccFields
  BY <1>2 DEF FoldShape
<1>5. DOMAIN acc2 = AccFields /\ Reverses(item, acc, acc2)
  BY <1>3, <1>4, ReverseCases
<1>6. FoldShape(acc2)
  BY <1>2, <1>3, <1>5, FoldShapes
<1>7. FoldPlace(g, acc2, c)
  BY <1>2, <1>3, <1>5, FoldPlaces
<1>8. FoldText(i, g, acc2, c)
  BY <1>2, <1>3, <1>5, FoldTexts
<1> QED
  BY <1>6, <1>7, <1>8 DEF FoldInv

LEMMA SameLen ==
    ASSUME NEW a \in Nat, NEW b \in Nat, 1..a = 1..b
    PROVE  a = b
<1>1. a > b => a \in 1..a /\ a \notin 1..b
  OBVIOUS
<1>2. b > a => b \in 1..b /\ b \notin 1..a
  OBVIOUS
<1> QED
  BY <1>1, <1>2

LEMMA FoldAll ==
    ASSUME NEW i, NEW g, Checking(i, g), Listed(mem.items), NEW plan, plan = Reversed(mem.items), plan.ok
    PROVE  FoldInv(i, g, plan, 1)
<1>1. PICK items : items = mem.items
  OBVIOUS
<1>2. PICK N \in Nat : N = Len(items) /\ N = Len(queue)
  <2>1. Len(items) \in Nat /\ DOMAIN items = 1..Len(items)
    BY <1>1, ListedLen
  <2>2. DOMAIN items = 1..Len(queue)
    BY <1>1 DEF Checking, ShapeInv, MemShape
  <2>3. Len(queue) \in Nat
    BY DEF Checking, FixInv, MoveInv
  <2> QED
    BY <2>1, <2>2, <2>3, SameLen
<1>3. PICK acc : IsReversal(acc, N, items, text) /\ plan = acc[N]
  BY <1>1, <1>2, ReversedIs
<1>4. acc[0] = Unreversed(text) /\ \A m \in 1..N : acc[m] = ReverseItem(items[N + 1 - m], acc[m - 1])
  <2>1. acc = [m \in 0..N |-> IF m = 0 THEN Unreversed(text) ELSE ReverseItem(items[N + 1 - m], acc[m - 1])]
    BY <1>2, <1>3, Zenon DEF IsReversal
  <2>2. 0 \in 0..N /\ \A m \in 1..N : m \in 0..N /\ m # 0
    OBVIOUS
  <2> QED
    BY <2>1, <2>2, Zenon
<1> DEFINE T == {m \in Nat : m <= N /\ acc[m].ok => FoldInv(i, g, acc[m], N + 1 - m)}
<1>5. 0 \in T
  <2>1. N + 1 - 0 = N + 1
    OBVIOUS
  <2>2. FoldInv(i, g, acc[0], N + 1 - 0)
    BY <1>2, <1>4, <2>1, FoldStart
  <2> QED
    BY <2>2
<1>6. ASSUME NEW m \in Nat, m \in T PROVE m + 1 \in T
  <2> SUFFICES ASSUME m + 1 <= N, acc[m + 1].ok PROVE FoldInv(i, g, acc[m + 1], N + 1 - (m + 1))
    OBVIOUS
  <2>1. PICK c, a, a2 : c = N - m /\ a = acc[m] /\ a2 = acc[m + 1]
    OBVIOUS
  <2>2. c \in 1..N /\ N + 1 - (m + 1) = c /\ N + 1 - m = c + 1 /\ m + 1 \in 1..N /\ (m + 1) - 1 = m
    BY <2>1
  <2>3. a.ok => FoldInv(i, g, a, c + 1)
    BY <1>6, <2>1, <2>2
  <2>4. a2 = ReverseItem(mem.items[c], a)
    BY <1>1, <1>4, <2>1, <2>2
  <2>5. a2.ok /\ c \in 1..Len(queue)
    BY <1>2, <2>1, <2>2
  <2>6. FoldInv(i, g, a2, c)
    BY <2>3, <2>4, <2>5, FoldStep
  <2> QED
    BY <2>1, <2>2, <2>6
<1>7. Nat \subseteq T
  <2> HIDE DEF T
  <2> QED
    BY <1>5, <1>6, Induction
<1>8. N + 1 - N = 1
  OBVIOUS
<1> QED
  BY <1>3, <1>7, <1>8

LEMMA ListedStep ==
    ASSUME ~concurrent', FixInv, ShapeInv, Listed(mem.items), [Next]_vars
    PROVE  Listed(mem.items)'
<1>1. ASSUME NEW row, Journaled(row), n \in 1..Len(queue) PROVE Listed(mem.items)'
  <2>1. PICK S : mem.items \in Seq(S)
    BY DEF Listed
  <2>2. PICK T : T = S \cup {row}
    OBVIOUS
  <2>3. mem.items \in Seq(T) /\ row \in T
    BY <2>1, <2>2
  <2>4. mem'.items = [mem.items EXCEPT ![n] = row]
    BY <1>1 DEF Journaled, ShapeInv, MemShape
  <2>5. PICK s : s = mem.items
    OBVIOUS
  <2>6. n \in DOMAIN s /\ s \in Seq(T)
    BY <1>1, <2>3, <2>5 DEF ShapeInv, MemShape
  <2>7. [s EXCEPT ![n] = row] \in Seq(T)
    BY <2>3, <2>6
  <2> QED
    BY <2>4, <2>5, <2>7 DEF Listed
<1>2. ASSUME mem'.items = mem.items PROVE Listed(mem.items)'
  BY <1>2 DEF Listed
<1>3. ASSUME NEW selected \in SUBSET DOMAIN Plan, BeginApply(selected) PROVE Listed(mem.items)'
  <2>1. queue' \in Seq(DOMAIN Plan)
    <3>1. MoveInv'
      BY FixInvStep DEF FixInv
    <3> QED
      BY <3>1, <1>3 DEF MoveInv, BeginApply, Plan
  <2>2. PICK q : q = queue'
    OBVIOUS
  <2>3. PICK unread : mem'.items = [m \in 1..Len(q) |-> NewItem(q[m], unread)] /\ Len(q) \in Nat
    BY <1>3, <2>1, <2>2 DEF BeginApply
  <2>4. PICK T : T = {NewItem(q[m], unread) : m \in 1..Len(q)}
    OBVIOUS
  <2>5. mem'.items \in Seq(T)
    BY <2>3, <2>4
  <2> QED
    BY <2>5 DEF Listed
<1>4. CASE Recording \/ CheckMove \/ JournalEdit
  <2>1. Working \/ (apc = "next" /\ n <= Len(queue))
    BY <1>4 DEF Recording, CheckMove, JournalEdit, CarryOut, SkipItem, RefuseMove, RefuseLate, LoseSource,
                FailItem, RecordDone, Working, ApplyRuns
  <2>2. n \in 1..Len(queue)
    BY <2>1, AtItem
  <2>3. mem' = mem \/ \E row : Journaled(row)
    BY <1>4 DEF Recording, CheckMove, JournalEdit, SkipItem, RefuseMove, RefuseLate, LoseSource, FailItem, RecordDone,
                Record
  <2> QED
    BY <1>1, <1>2, <2>2, <2>3
<1>5. CASE EndApply
  <2>1. mem'.items = mem.items
    BY <1>5 DEF EndApply, ShapeInv, MemShape
  <2> QED
    BY <1>2, <2>1
<1>6. CASE MakeFolder \/ MakeParents \/ LinkFile \/ UnlinkFile \/ RenameFolder \/ CheckText \/ WriteText \/ CrashApply
  <2>1. mem' = mem
    BY <1>6 DEF MakeFolder, MakeParents, LinkFile, UnlinkFile, RenameFolder, CheckText, WriteText, CrashApply
  <2> QED
    BY <1>2, <2>1
<1>7. CASE UndoStep \/ BeginUndo \/ FinishUndo \/ Cancel \/ ForeignChange \/ UNCHANGED vars
  <2>1. mem' = mem
    BY <1>7 DEF UndoStep, BeginUndo, FinishUndo, Cancel, ForeignChange, vars, applying, LinkBack, UnlinkBack, FailBack,
                RenameBack, RemoveCreated, RemoveFolders, RestoreText, RefuseStep, CrashUndo
  <2> QED
    BY <1>2, <2>1
<1> QED
  BY <1>3, <1>4, <1>5, <1>6, <1>7 DEF Next, UndoStep, Recording

-----------------------------------------------------------------------------
(* The inductive invariant of a gated patch. *)

LEMMA DiskSame ==
    ASSUME UNCHANGED <<project, tree, text, applying>>, NEW i, NEW g, PlaceInv(i, g), TextInv(i, g)
    PROVE  PlaceInv(i, g)' /\ TextInv(i, g)' /\ (There(i, g)' <=> There(i, g)) /\ \A f : Moved(f)' <=> Moved(f)
<1>1. UNCHANGED <<project, tree, text, apc, queue, n, mem, finished>>
  BY DEF applying
<1>2. /\ Plan' = Plan /\ StartText' = StartText /\ Spots(i, g)' = Spots(i, g) /\ LegacyOf(g)' = LegacyOf(g)
  BY <1>1, SameProject
<1>3. Files(tree)' = Files(tree) /\ Item' = Item /\ Entry' = Entry
  BY <1>1, <1>2 DEF Files, Item, Entry
<1>4. /\ There(i, g)' <=> There(i, g)
      /\ \A f : Moved(f)' <=> Moved(f)
      /\ \A f : Past(f)' <=> Past(f)
      /\ \A m : Standing(m)' <=> Standing(m)
      /\ \A m : RenameAt(m)' <=> RenameAt(m)
      /\ GateText(g)' = GateText(g)
  BY <1>1, <1>2, <1>3 DEF There, Moved, Past, Standing, ApplyRuns, Working, RenameAt, GateText
<1>5. /\ \A m, c : Shows(m, i, c)' <=> Shows(m, i, c)
      /\ Renamings(text)' <=> Renamings(text)
      /\ LegacyGone(g)' <=> LegacyGone(g)
  BY <1>1, <1>2, <1>4 DEF Shows, Renamings, LegacyGone
<1>6. CheckedInv'
  BY <1>1, <1>3 DEF PlaceInv, CheckedInv
<1>7. PatchesJournaled(i, g)'
  BY <1>1, <1>2, <1>3, <1>5 DEF PlaceInv, PatchesJournaled
<1>8. LegacyLeft(g)'
  BY <1>1, <1>2, <1>4 DEF PlaceInv, LegacyLeft
<1>9. PatchListed(i, g)' /\ RenamedGate(i, g)'
  BY <1>1, <1>4, <1>5 DEF TextInv, PatchListed, RenamedGate
<1>10. GateDone(g)' /\ EditInv(g)'
  BY <1>1, <1>3, <1>4 DEF TextInv, GateDone, EditInv, ApplyRuns
<1> QED
  BY <1>4, <1>6, <1>7, <1>8, <1>9, <1>10 DEF PlaceInv, TextInv

LEMMA NoUndo ==
    ASSUME ~UndoRuns, NEW i, NEW g
    PROVE  StepsShape /\ UndoPlace(i, g) /\ UndoText(i, g)
  BY DEF StepsShape, UndoPlace, UndoText

LEMMA UndoSame ==
    ASSUME UNCHANGED <<project, tree, text, applying, undoing>>, NEW i, NEW g,
           StepsShape, UndoPlace(i, g), UndoText(i, g)
    PROVE  StepsShape' /\ UndoPlace(i, g)' /\ UndoText(i, g)'
<1>1. UNCHANGED <<project, tree, text, apc, queue, n, mem, finished, upc, steps, k>>
  BY DEF applying, undoing
<1>2. /\ Plan' = Plan /\ StartText' = StartText /\ Spots(i, g)' = Spots(i, g) /\ LegacyOf(g)' = LegacyOf(g)
  BY <1>1, SameProject
<1>3. UndoRuns' <=> UndoRuns
  BY <1>1 DEF UndoRuns
<1>4. /\ Step' = Step /\ GateText(g)' = GateText(g)
      /\ \A f : Moved(f)' <=> Moved(f)
      /\ There(i, g)' <=> There(i, g)
  BY <1>1, <1>2 DEF Step, GateText, Moved, There, Files
<1>5. StepsShape'
  BY <1>1, <1>3, <1>4 DEF StepsShape, StepShape
<1>6. \A f : LegacyFirst(f) => LegacyFirst(f)'
  BY <1>1, <1>2, <1>4 DEF LegacyFirst, BackTo
<1>7. UndoPlace(i, g)'
  BY <1>1, <1>2, <1>3, <1>4, <1>6 DEF UndoPlace
<1>8. RestoredLast(i, g) => RestoredLast(i, g)'
  BY <1>1, <1>2, <1>4 DEF RestoredLast, BackTo
<1>9. RestoredFirst(g) => RestoredFirst(g)'
  BY <1>1, <1>2, <1>4 DEF RestoredFirst, BackTo
<1>10. UndoText(i, g)'
  BY <1>3, <1>4, <1>8, <1>9 DEF UndoText
<1> QED
  BY <1>5, <1>7, <1>10

\* The undo starts with the steps the checks planned.
LEMMA BeginUndoPlans ==
    ASSUME ~concurrent', FixInv, ShapeInv, Listed(mem.items), PlannerPromise, NEW i, NEW g, Gated(i, g),
           PlaceInv(i, g), TextInv(i, g), BeginUndo
    PROVE  PlaceInv(i, g)' /\ TextInv(i, g)' /\ StepsShape' /\ UndoPlace(i, g)' /\ UndoText(i, g)'
<1>1. /\ UNCHANGED <<project, tree, text, applying>> /\ k' = 1 /\ ~ApplyRuns
      /\ UNCHANGED <<queue, mem>>
  BY DEF BeginUndo, disk, applying
<1>2. PlaceInv(i, g)' /\ TextInv(i, g)' /\ (There(i, g)' <=> There(i, g)) /\ \A f : Moved(f)' <=> Moved(f)
  BY <1>1, DiskSame
<1>3. PICK j, plan : /\ j \in journal /\ plan = Preflight(j) /\ upc' = IF plan.ok THEN "run" ELSE "refused"
                     /\ steps' = plan.steps
  BY DEF BeginUndo
<1>4. CASE ~plan.ok
  <2>1. ~UndoRuns'
    BY <1>3, <1>4 DEF UndoRuns
  <2>2. StepsShape' /\ UndoPlace(i, g)' /\ UndoText(i, g)'
    BY <2>1 DEF StepsShape, UndoPlace, UndoText
  <2> QED
    BY <1>2, <2>2
<1>5. CASE plan.ok
  <2>1. upc' = "run"
    BY <1>3, <1>5
  <2>2. plan = Reversed(mem.items)
    <3>1. j.items = mem.items
      BY <1>3 DEF ShapeInv, JournalShape
    <3>2. j.state # "undone"
      BY <1>3, <1>5 DEF Preflight
    <3> QED
      BY <1>3, <3>1, <3>2 DEF Preflight
  <2>3. Checking(i, g)
    BY <1>1 DEF Checking
  <2>4. FoldInv(i, g, plan, 1)
    BY <1>5, <2>2, <2>3, FoldAll
  <2>5. PICK s : s = plan.steps
    OBVIOUS
  <2>6. /\ StepsFrom(s) /\ LegacyBefore(g, s) /\ Len(s) \in Nat
        /\ There(i, g) => RestoresLast(i, g, s) /\ RestoresFirst(g, s)
    BY <2>4, <2>5, ListedLen DEF FoldInv, FoldShape, FoldPlace, FoldText
  <2>7. /\ Plan' = Plan /\ StartText' = StartText /\ LegacyOf(g)' = LegacyOf(g) /\ GateText(g)' = GateText(g)
    BY <1>1, SameProject DEF GateText
  <2>8. steps' = s /\ k' = 1
    BY <1>1, <1>3, <2>5
  <2>9. StepsShape'
    <3>1. \A a \in 1..Len(s) : StepShape(s[a])'
      BY <1>1, <2>6 DEF StepsFrom, StepShape
    <3> QED
      BY <2>1, <2>6, <2>8, <3>1 DEF StepsShape
  <2>10. UndoPlace(i, g)'
    <3>1. ASSUME NEW f \in LegacyOf(g) PROVE LegacyFirst(f)'
      BY <1>2, <2>6, <2>7, <2>8 DEF LegacyFirst, LegacyBefore, BackTo, Back
    <3> QED
      BY <2>1, <2>7, <3>1 DEF UndoPlace
  <2>11. UndoText(i, g)'
    <3> SUFFICES ASSUME There(i, g) PROVE RestoredLast(i, g)' /\ RestoredFirst(g)'
      BY <1>2 DEF UndoText
    <3>1. RestoredLast(i, g)'
      BY <2>6, <2>7, <2>8 DEF RestoredLast, RestoresLast, BackTo, Back
    <3>2. RestoredFirst(g)'
      BY <1>1, <2>6, <2>7, <2>8 DEF RestoredFirst, RestoresFirst, BackTo, Back, GateRestored
    <3> QED
      BY <3>1, <3>2
  <2> QED
    BY <1>2, <2>9, <2>10, <2>11
<1> QED
  BY <1>4, <1>5

PatchKept(i, g) == StepsShape /\ PlaceInv(i, g) /\ UndoPlace(i, g) /\ TextInv(i, g) /\ UndoText(i, g)

GateInv ==
    /\ FixInv /\ ShapeInv /\ Listed(mem.items)
    /\ foreign = 0 => \A i, g : Gated(i, g) => PatchKept(i, g)

\* Before the first item is carried out, nothing is at a gated place.
LEMMA NothingThere ==
    ASSUME project \in Projects, PlannerPromise, NEW i, NEW g, Gated(i, g), tree = StartTree
    PROVE  /\ \A p \in Spots(i, g) : p \notin Files(tree)
           /\ ~There(i, g) /\ \A f \in LegacyOf(g) : ~Moved(f)
<1>1. \A p \in Spots(i, g) : p \notin Files(tree)
  BY StartElsewhere DEF Files
<1>2. \A f \in LegacyOf(g) : ~Moved(f)
  BY LegacyFacts DEF Moved
<1> QED
  BY <1>1, <1>2 DEF There

LEMMA GateInit ==
    ASSUME PlannerPromise, Init
    PROVE  GateInv
<1>1. FixInv /\ ShapeInv
  BY FixInvInit, InitShapes
<1>2. Listed(mem.items)
  <2>1. mem.items = <<>> /\ <<>> \in Seq({})
    BY DEF Init
  <2> QED
    BY <2>1 DEF Listed
<1>3. ASSUME NEW i, NEW g, Gated(i, g) PROVE PatchKept(i, g)
  <2>1. /\ project \in Projects /\ tree = StartTree /\ apc = "idle" /\ upc = "idle" /\ finished = {}
    BY DEF Init
  <2>2. /\ \A p \in Spots(i, g) : p \notin Files(tree)
        /\ ~There(i, g) /\ \A f \in LegacyOf(g) : ~Moved(f)
    BY <1>3, <2>1, NothingThere
  <2>3. ~UndoRuns /\ ~ApplyRuns
    BY <2>1 DEF UndoRuns, ApplyRuns
  <2>4. PlaceInv(i, g)
    BY <2>1, <2>2, <2>3 DEF PlaceInv, CheckedInv, PatchesJournaled, LegacyLeft, Past
  <2>5. TextInv(i, g)
    BY <2>1, <2>2, <2>3 DEF TextInv, PatchListed, RenamedGate, GateDone, EditInv
  <2> QED
    BY <2>3, <2>4, <2>5, NoUndo DEF PatchKept
<1> QED
  BY <1>1, <1>2, <1>3 DEF GateInv

LEMMA BeginApplyKept ==
    ASSUME FixInv, ShapeInv, PlannerPromise, NEW i, NEW g, Gated(i, g),
           NEW selected \in SUBSET DOMAIN Plan, BeginApply(selected)
    PROVE  PatchKept(i, g)'
<1>1. /\ UNCHANGED <<project, tree, text, upc, finished>>
      /\ tree = StartTree /\ upc = "idle" /\ apc' = "next" /\ finished = {}
  BY BeginApplyShapes
<1>2. project \in Projects
  BY DEF FixInv, MoveInv
<1>3. /\ \A p \in Spots(i, g) : p \notin Files(tree)
      /\ ~There(i, g) /\ \A f \in LegacyOf(g) : ~Moved(f)
  BY <1>1, <1>2, NothingThere
<1>4. Plan' = Plan /\ Spots(i, g)' = Spots(i, g) /\ LegacyOf(g)' = LegacyOf(g)
  BY <1>1, SameProject
<1>5. /\ \A p \in Spots(i, g)' : p \notin Files(tree)'
      /\ ~There(i, g)' /\ \A f \in LegacyOf(g)' : ~Moved(f)'
  BY <1>1, <1>3, <1>4 DEF Files, There, Moved
<1>6. ~UndoRuns'
  BY <1>1 DEF UndoRuns
<1>7. PlaceInv(i, g)'
  BY <1>1, <1>5 DEF PlaceInv, CheckedInv, PatchesJournaled, LegacyLeft, Past
<1>8. TextInv(i, g)'
  BY <1>1, <1>5 DEF TextInv, PatchListed, RenamedGate, GateDone, EditInv
<1>9. StepsShape' /\ UndoPlace(i, g)' /\ UndoText(i, g)'
  BY <1>6 DEF StepsShape, UndoPlace, UndoText
<1> QED
  BY <1>7, <1>8, <1>9 DEF PatchKept

LEMMA KeptStep ==
    ASSUME ~concurrent', PlannerPromise, FixInv, ShapeInv, Listed(mem.items), [Next]_vars, ~ForeignChange,
           NEW i, NEW g, Gated(i, g), PatchKept(i, g)
    PROVE  PatchKept(i, g)'
<1>1. Closed(tree')
  BY FixInvStep DEF FixInv, MoveInv
<1>2. StepsShape /\ PlaceInv(i, g) /\ UndoPlace(i, g) /\ TextInv(i, g) /\ UndoText(i, g)
  BY DEF PatchKept
<1>3. ASSUME ~UndoRuns' PROVE StepsShape' /\ UndoPlace(i, g)' /\ UndoText(i, g)'
  BY <1>3 DEF StepsShape, UndoPlace, UndoText
<1>4. CASE ApplyStep
  <2>1. PlaceInv(i, g)' /\ TextInv(i, g)'
    BY <1>1, <1>2, <1>4, ApplyPlace, ApplyTexts
  <2>2. upc' = upc /\ ApplyRuns
    BY <1>4, ApplyStepShape DEF FixInv
  <2>3. ~UndoRuns'
    BY <2>2 DEF UndoRuns, ShapeInv, JournalShape
  <2> QED
    BY <1>3, <2>1, <2>3 DEF PatchKept
<1>5. CASE UndoStep
  <2>1. StepsShape'
    BY <1>2, <1>5, StepsKept
  <2>2. PlaceInv(i, g)' /\ UndoPlace(i, g)'
    BY <1>1, <1>2, <1>5, UndoPlaces
  <2>3. TextInv(i, g)' /\ UndoText(i, g)'
    BY <1>1, <1>2, <1>5, UndoTexts
  <2> QED
    BY <2>1, <2>2, <2>3 DEF PatchKept
<1>6. CASE BeginUndo
  BY <1>2, <1>6, BeginUndoPlans DEF PatchKept
<1>7. ASSUME NEW selected \in SUBSET DOMAIN Plan, BeginApply(selected) PROVE PatchKept(i, g)'
  BY <1>7, BeginApplyKept
<1>8. CASE FinishUndo
  <2>1. UNCHANGED <<project, tree, text, applying>> /\ upc' = "undone"
    BY <1>8 DEF FinishUndo, disk
  <2>2. PlaceInv(i, g)' /\ TextInv(i, g)'
    BY <1>2, <2>1, DiskSame
  <2>3. ~UndoRuns'
    BY <2>1 DEF UndoRuns
  <2> QED
    BY <1>3, <2>2, <2>3 DEF PatchKept
<1>9. CASE Cancel \/ UNCHANGED vars
  <2>1. UNCHANGED <<project, tree, text, applying, undoing>>
    BY <1>9 DEF Cancel, vars, disk
  <2>2. PlaceInv(i, g)' /\ TextInv(i, g)'
    BY <1>2, <2>1, DiskSame
  <2>3. StepsShape' /\ UndoPlace(i, g)' /\ UndoText(i, g)'
    BY <1>2, <2>1, UndoSame
  <2> QED
    BY <2>2, <2>3 DEF PatchKept
<1> QED
  BY <1>4, <1>5, <1>6, <1>7, <1>8, <1>9 DEF Next, ApplyStep, UndoStep

LEMMA ForeignCounted ==
    ASSUME FixInv, ShapeInv, [Next]_vars
    PROVE  project' = project /\ (foreign' = 0 => foreign = 0 /\ ~ForeignChange)
<1>1. foreign \in Nat
  BY DEF ShapeInv, JournalShape
<1>2. CASE ForeignChange
  BY <1>1, <1>2 DEF ForeignChange
<1>3. CASE ~ForeignChange
  <2>1. project' = project /\ foreign' = foreign
    BY <1>3 DEF Next, vars, budget, BeginApply, EndApply, SkipItem, MakeFolder, CheckMove, RefuseMove, MakeParents,
                LinkFile, UnlinkFile, LoseSource, RenameFolder, JournalEdit, CheckText, WriteText, RefuseLate, FailItem,
                RecordDone, CrashApply, Cancel, BeginUndo, LinkBack, UnlinkBack, FailBack, RenameBack, RemoveCreated, RemoveFolders,
                RestoreText, RefuseStep, FinishUndo, CrashUndo
  <2> QED
    BY <1>3, <2>1
<1> QED
  BY <1>2, <1>3

LEMMA GateStep ==
    ASSUME ~concurrent', PlannerPromise, GateInv, [Next]_vars
    PROVE  GateInv'
<1>1. FixInv /\ ShapeInv /\ Listed(mem.items) /\ (foreign = 0 => \A i, g : Gated(i, g) => PatchKept(i, g))
  BY DEF GateInv
<1>2. FixInv' /\ ShapeInv' /\ Listed(mem.items)'
  BY <1>1, FixInvStep, ShapeStep, ListedStep
<1>3. project' = project /\ (foreign' = 0 => foreign = 0 /\ ~ForeignChange)
  BY <1>1, ForeignCounted
<1>4. ASSUME foreign' = 0, NEW i, NEW g, Gated(i, g)' PROVE PatchKept(i, g)'
  <2>1. Gated(i, g)
    BY <1>3, <1>4 DEF Gated, Plan
  <2>2. PatchKept(i, g) /\ ~ForeignChange
    BY <1>1, <1>3, <1>4, <2>1
  <2> QED
    BY <1>1, <2>1, <2>2, KeptStep
<1> QED
  BY <1>2, <1>4 DEF GateInv

LEMMA GateSafe ==
    ASSUME PlannerPromise, GateInv
    PROVE  PatchIsGated
<1> SUFFICES ASSUME NEW i \in DOMAIN Plan, NEW g \in Plan[i].requires, foreign = 0, Plan[i].kind = "move-file",
                    Plan[g].kind = "gate", Plan[i].to \in Files(tree)
             PROVE  \E t \in text : Plan[g].to \in t
  BY DEF PatchIsGated
<1>1. FixInv /\ project \in Projects
  BY DEF GateInv, FixInv, MoveInv
<1>2. Gated(i, g)
  BY <1>1, PlanTyped DEF Gated
<1>3. PlaceInv(i, g) /\ TextInv(i, g)
  BY <1>2 DEF GateInv, PatchKept
<1>4. There(i, g)
  BY DEF There, Spots
<1>5. ~LegacyGone(g)
  BY <1>1, <1>2, <1>3, OneSpot DEF LegacyGone, Files
<1>6. text = GateText(g)
  BY <1>3, <1>4, <1>5 DEF TextInv, PatchListed
<1> QED
  BY <1>6 DEF GateText

\* A patch is at its gated place only while LoadFolders.xml lists the gated folder, through the apply, a
\* crash, a failure and the undo, until an undo starts while the apply runs or another program changes the
\* project: for every plan that keeps what the planner promises.
THEOREM PatchesGated ==
    ASSUME PlannerPromise
    PROVE  Spec => []PatchIsGated
<1>1. Init => concurrent \/ GateInv
  BY GateInit
<1>2. (concurrent \/ GateInv) /\ [Next]_vars => (concurrent \/ GateInv)'
  BY GateStep, ConcurrentStays
<1>3. concurrent \/ GateInv => PatchIsGated
  BY GateSafe DEF PatchIsGated
<1> QED
  BY <1>1, <1>2, <1>3, PTL DEF Spec

-----------------------------------------------------------------------------
(* The entry of a project in the Mods folder (Deploy), for any processes, projects, failures and   *)
(* changes by hand. A create finds the name free before it writes the record, so between the       *)
(* record and its end there is nothing finished under the name that would need another one; and    *)
(* what the fence looked at stays as it saw it until somebody else changes the entry, which `quiet`*)
(* tells.                                                                                          *)

Whole(e) == e.by = {"us"} /\ (e.kind = "link" \/ e.marker)
Own(p) == [mode |-> th[p].mode, target |-> th[p].target]

\* Where a call can be, and which step of which kind of call it is.
CallShape(c) ==
    /\ c.pc \in {"put", "fence", "free", "copying"} => c.op = "create"
    /\ c.pc \in {"seed", "own", "checked"} => c.op = "remove"
    /\ c.pc \in {"free", "copying"} => c.mode = "copy"
    /\ c.quiet => c.pc \in {"free", "copying", "checked"}

\* What a call knows while no other process is in one.
Alone(p) ==
    /\ th[p].pc \in {"put", "fence", "free"} => \A e \in entry : "us" \notin e.by
    /\ th[p].pc \in {"copying", "forget"} => \A e \in entry : ~Whole(e)
    /\ th[p].pc \in {"fence", "free", "copying"} => record = {Own(p)}
    /\ th[p].pc = "copying" => \A e \in entry : e.by = {"us"} => e.to = th[p].target

\* What it knows since the fence looked.
Looked(p) ==
    th[p].quiet =>
        /\ th[p].pc = "free" => entry = {}
        /\ th[p].pc = "copying" => \A e \in entry : "us" \in e.by
        /\ th[p].pc = "checked" => Owns(p)

DeployInv ==
    /\ TypeOK
    /\ \A p \in Processes : CallShape(th[p]) /\ Looked(p)
    /\ \A e \in entry : e.marker => "us" \in e.by /\ e.kind = "folder"
    /\ ~overlapped => \A p \in Processes : Alone(p)
    /\ ~overlapped => \A p, q \in Processes : th[p].pc # "idle" /\ th[q].pc # "idle" => p = q
    /\ AlwaysRecorded

LEMMA InitDeploy == LinkInit => DeployInv
<1> SUFFICES ASSUME LinkInit PROVE DeployInv
  OBVIOUS
<1> PICK t \in Targets :
         th = [p \in Processes |-> [pc |-> "idle", op |-> "create", target |-> t, mode |-> "link",
                                    record |-> {}, owned |-> {}, quiet |-> FALSE]]
  BY DEF LinkInit
<1>1. \A p \in Processes : th[p].pc = "idle" /\ ~th[p].quiet /\ th[p].record = {} /\ th[p].owned = {}
  OBVIOUS
<1>2. th \in [Processes -> Calling]
  BY DEF Calling, PCs, Ops, Modes
<1>3. TypeOK
  BY <1>1, <1>2 DEF LinkInit, TypeOK, AtMostOne
<1> QED
  BY <1>1, <1>3 DEF LinkInit, DeployInv, CallShape, Alone, Looked, AlwaysRecorded

LEMMA EndShape == ASSUME NEW c, c.pc \in {"idle", "forget"}, ~c.quiet PROVE CallShape(c)
BY DEF CallShape

-----------------------------------------------------------------------------
(* The program point of one process moves; what it may do besides.          *)

\* A process whose call did not move: at most it lost what the fence saw.
QuietKept(q) == \/ th'[q] = th[q]
           \/ th'[q] = [th[q] EXCEPT !.quiet = FALSE]

LEMMA KeptFields ==
    ASSUME TypeOK, NEW q \in Processes, QuietKept(q)
    PROVE  /\ th'[q].pc = th[q].pc /\ th'[q].op = th[q].op /\ th'[q].target = th[q].target
           /\ th'[q].mode = th[q].mode /\ th'[q].record = th[q].record /\ th'[q].owned = th[q].owned
           /\ th'[q].quiet => th[q].quiet
BY DEF TypeOK, Calling, QuietKept

\* Process p goes to program point pc with the fields r, nobody else moves.
CallMoved(p, r) ==
    /\ r \in Calling /\ CallShape(r)
    /\ AtMostOne(r.record, Records) /\ AtMostOne(r.owned, Records)
    /\ th' \in [Processes -> Calling] /\ th'[p] = r
    /\ \A q \in Processes \ {p} : QuietKept(q)

LEMMA PlainMove ==
    ASSUME TypeOK, NEW p \in Processes, NEW r \in Calling, CallShape(r),
           AtMostOne(r.record, Records), AtMostOne(r.owned, Records), th' = [th EXCEPT ![p] = r]
    PROVE  CallMoved(p, r) /\ \A q \in Processes \ {p} : th'[q] = th[q]
BY DEF TypeOK, CallMoved, QuietKept

LEMMA GotoMove ==
    ASSUME TypeOK, NEW p \in Processes, NEW pc \in PCs, Goto(p, pc), ~th[p].quiet,
           CallShape([th[p] EXCEPT !.pc = pc])
    PROVE  /\ CallMoved(p, [th[p] EXCEPT !.pc = pc])
           /\ \A q \in Processes \ {p} : th'[q] = th[q]
<1>1. [th[p] EXCEPT !.pc = pc] \in Calling
  BY DEF TypeOK, Calling
<1>2. th' = [th EXCEPT ![p] = [th[p] EXCEPT !.pc = pc]]
  BY DEF TypeOK, Goto
<1>3. /\ [th[p] EXCEPT !.pc = pc].record = th[p].record
      /\ [th[p] EXCEPT !.pc = pc].owned = th[p].owned
  BY DEF TypeOK, Calling
<1> QED
  BY <1>1, <1>2, <1>3, PlainMove DEF TypeOK

LEMMA ReturnMove ==
    ASSUME TypeOK, NEW p \in Processes, Return(p)
    PROVE  /\ CallMoved(p, [th[p] EXCEPT !.pc = "idle", !.quiet = FALSE])
           /\ \A q \in Processes \ {p} : th'[q] = th[q]
<1> DEFINE r == [th[p] EXCEPT !.pc = "idle", !.quiet = FALSE]
<1>1. r \in Calling /\ CallShape(r)
  BY DEF TypeOK, Calling, PCs, CallShape
<1>2. th' = [th EXCEPT ![p] = r]
  BY DEF TypeOK, Return
<1>3. r.record = th[p].record /\ r.owned = th[p].owned
  BY DEF TypeOK, Calling
<1> HIDE DEF r
<1>4. CallMoved(p, r) /\ \A q \in Processes \ {p} : th'[q] = th[q]
  BY <1>1, <1>2, <1>3, PlainMove DEF TypeOK
<1> QED
  BY <1>4 DEF r

LEMMA DisturbedMove ==
    ASSUME TypeOK, NEW p \in Processes, NEW pc \in PCs, th' = Disturbed(p, pc),
           CallShape([th[p] EXCEPT !.pc = pc, !.quiet = pc = "copying" /\ th[p].quiet])
    PROVE  /\ CallMoved(p, [th[p] EXCEPT !.pc = pc, !.quiet = pc = "copying" /\ th[p].quiet])
           /\ \A q \in Processes \ {p} : ~th'[q].quiet
<1> DEFINE r == [th[p] EXCEPT !.pc = pc, !.quiet = pc = "copying" /\ th[p].quiet]
<1>0. (pc = "copying" /\ th[p].quiet) \in BOOLEAN
  OBVIOUS
<1>1. r \in Calling
  BY <1>0 DEF TypeOK, Calling
<1>2. th'[p] = r
  BY DEF Disturbed
<1>3. \A q \in Processes \ {p} : th'[q] = [th[q] EXCEPT !.quiet = FALSE]
  BY DEF Disturbed
<1>4. \A q \in Processes \ {p} : [th[q] EXCEPT !.quiet = FALSE] \in Calling
  BY DEF TypeOK, Calling
<1>5. th' = [q \in Processes |-> th'[q]]
  BY DEF Disturbed
<1>8. r.record = th[p].record /\ r.owned = th[p].owned
  BY DEF TypeOK, Calling
<1>10. CallShape(r)
  OBVIOUS
<1> HIDE DEF r
<1>6. \A q \in Processes : th'[q] \in Calling
  BY <1>1, <1>2, <1>3, <1>4
<1>7. th' \in [Processes -> Calling]
  BY <1>5, <1>6
<1>9. \A q \in Processes \ {p} : ~th'[q].quiet
  BY <1>3 DEF TypeOK, Calling
<1>11. CallMoved(p, r)
  BY <1>1, <1>2, <1>3, <1>7, <1>8, <1>10 DEF CallMoved, QuietKept, TypeOK
<1> QED
  BY <1>9, <1>11 DEF r

-----------------------------------------------------------------------------
(* What a step has to leave in place, given who moved and how.              *)

\* The entry and the record stay: the others know what they knew.
LEMMA StillStep ==
    ASSUME DeployInv, NEW p \in Processes, NEW r, CallMoved(p, r), UNCHANGED <<entry, record>>,
           calls' \in Nat, upsets' \in Nat, overlapped' \in BOOLEAN,
           ~overlapped' => ~overlapped,
           ~overlapped' => (r.pc # "idle" => \A q \in Processes \ {p} : th[q].pc = "idle"),
           ~overlapped' => Alone(p)',
           Looked(p)'
    PROVE  DeployInv'
<1>1. TypeOK'
  <2>1. \A q \in Processes : AtMostOne(th'[q].record, Records) /\ AtMostOne(th'[q].owned, Records)
    BY KeptFields DEF CallMoved, DeployInv, TypeOK
  <2> QED
    BY <2>1 DEF CallMoved, DeployInv, TypeOK
<1>2. \A q \in Processes \ {p} : CallShape(th'[q]) /\ Looked(q)' /\ (~overlapped' => Alone(q)')
  <2> SUFFICES ASSUME NEW q \in Processes \ {p}
               PROVE  CallShape(th'[q]) /\ Looked(q)' /\ (~overlapped' => Alone(q)')
    OBVIOUS
  <2>1. QuietKept(q) /\ TypeOK /\ CallShape(th[q]) /\ Looked(q) /\ (~overlapped => Alone(q))
    BY DEF CallMoved, DeployInv
  <2> QED
    BY <2>1, KeptFields DEF CallShape, Looked, Alone, Own, Owns, Whole
<1>3. CallShape(th'[p])
  BY DEF CallMoved
<1>4. ~overlapped' => \A q, s \in Processes : th'[q].pc # "idle" /\ th'[s].pc # "idle" => q = s
  BY KeptFields DEF CallMoved, DeployInv
<1>5. AlwaysRecorded'
  BY DEF DeployInv, AlwaysRecorded
<1> QED
  BY <1>1, <1>2, <1>3, <1>4, <1>5 DEF DeployInv

\* The entry or the record changes: by the only process in a call, if there is only one.
LEMMA ChangeStep ==
    ASSUME DeployInv, NEW p \in Processes, NEW r, CallMoved(p, r),
           AtMostOne(entry', Entries), AtMostOne(record', Records),
           overlapped' = overlapped, calls' \in Nat, upsets' \in Nat,
           th[p].pc # "idle",
           entry' = entry \/ \A q \in Processes \ {p} : ~th'[q].quiet,
           \A e \in entry' : e.marker => "us" \in e.by /\ e.kind = "folder",
           ~overlapped => Alone(p)' /\ AlwaysRecorded',
           Looked(p)'
    PROVE  DeployInv'
<1>1. TypeOK'
  <2>1. \A q \in Processes : AtMostOne(th'[q].record, Records) /\ AtMostOne(th'[q].owned, Records)
    BY KeptFields DEF CallMoved, DeployInv, TypeOK
  <2> QED
    BY <2>1 DEF CallMoved, DeployInv, TypeOK
<1>2. \A q \in Processes \ {p} : CallShape(th'[q]) /\ Looked(q)' /\ (~overlapped' => Alone(q)')
  <2> SUFFICES ASSUME NEW q \in Processes \ {p}
               PROVE  CallShape(th'[q]) /\ Looked(q)' /\ (~overlapped' => Alone(q)')
    OBVIOUS
  <2>1. QuietKept(q) /\ TypeOK /\ CallShape(th[q]) /\ Looked(q)
    BY DEF CallMoved, DeployInv
  <2>2. ~overlapped => th[q].pc = "idle"
    BY DEF DeployInv
  <2>3. CallShape(th'[q]) /\ (~overlapped' => Alone(q)')
    BY <2>1, <2>2, KeptFields DEF CallShape, Alone
  <2>4. Looked(q)'
    BY <2>1, KeptFields DEF Looked, Owns
  <2> QED
    BY <2>3, <2>4
<1>3. CallShape(th'[p])
  BY DEF CallMoved
<1>4. ~overlapped' => \A q, s \in Processes : th'[q].pc # "idle" /\ th'[s].pc # "idle" => q = s
  BY KeptFields DEF CallMoved, DeployInv
<1>5. AlwaysRecorded'
  BY DEF AlwaysRecorded
<1> QED
  BY <1>1, <1>2, <1>3, <1>4, <1>5 DEF DeployInv

LEMMA WasAlone ==
    ASSUME DeployInv, ~overlapped, NEW p \in Processes, th[p].pc # "idle"
    PROVE  Alone(p) /\ \A q \in Processes \ {p} : th[q].pc = "idle"
BY DEF DeployInv

\* A process that only changes its own program point.
LEMMA GotoStep ==
    ASSUME DeployInv, NEW p \in Processes, NEW pc \in PCs, Goto(p, pc), ~th[p].quiet,
           CallShape([th[p] EXCEPT !.pc = pc]),
           th[p].pc # "idle", UNCHANGED <<entry, record, overlapped, calls>>, upsets' \in Nat,
           ~overlapped => Alone(p)'
    PROVE  DeployInv'
<1> DEFINE r == [th[p] EXCEPT !.pc = pc]
<1>1. CallMoved(p, r)
  BY GotoMove DEF DeployInv
<1>2. Looked(p)'
  BY <1>1 DEF CallMoved, Looked, DeployInv, TypeOK, Calling
<1>3. ~overlapped' => (r.pc # "idle" => \A q \in Processes \ {p} : th[q].pc = "idle")
  BY WasAlone
<1> HIDE DEF r
<1> QED
  BY <1>1, <1>2, <1>3, StillStep DEF DeployInv, TypeOK

LEMMA ReturnStep ==
    ASSUME DeployInv, NEW p \in Processes, Return(p),
           UNCHANGED <<entry, record, overlapped, calls>>, upsets' \in Nat
    PROVE  DeployInv'
<1> DEFINE r == [th[p] EXCEPT !.pc = "idle", !.quiet = FALSE]
<1>1. CallMoved(p, r) /\ r.pc = "idle" /\ ~r.quiet
  BY ReturnMove DEF DeployInv, TypeOK, Calling
<1> HIDE DEF r
<1>2. Looked(p)' /\ Alone(p)'
  BY <1>1 DEF CallMoved, Looked, Alone
<1> QED
  BY <1>1, <1>2, StillStep DEF DeployInv, TypeOK

LEMMA BeginStep ==
    ASSUME DeployInv, NEW p \in Processes, NEW op \in Ops, NEW target \in Targets,
           NEW mode \in Modes, Begin(p, op, target, mode)
    PROVE  DeployInv'
<1> PICK unread \in BOOLEAN :
       /\ IF unread THEN record # {} /\ Upset ELSE UNCHANGED upsets
       /\ th' = [th EXCEPT ![p] = [pc |-> "inspect", op |-> op, target |-> target, mode |-> mode,
                                   record |-> IF unread THEN {} ELSE record,
                                   owned |-> {}, quiet |-> FALSE]]
  BY DEF Begin
<1> DEFINE rec == IF unread THEN {} ELSE record
           r == [pc |-> "inspect", op |-> op, target |-> target, mode |-> mode,
                 record |-> rec, owned |-> {}, quiet |-> FALSE]
<1>1. AtMostOne(rec, Records) /\ AtMostOne({}, Records)
  BY DEF DeployInv, TypeOK, AtMostOne
<1>2. r \in Calling
  BY <1>1 DEF Calling, PCs, AtMostOne
<1>3. /\ r.pc = "inspect" /\ ~r.quiet /\ r.record = rec /\ r.owned = {}
      /\ th' = [th EXCEPT ![p] = r]
  OBVIOUS
<1> HIDE DEF r, rec
<1>4. CallShape(r)
  BY <1>3 DEF CallShape
<1>5. CallMoved(p, r)
  BY <1>1, <1>2, <1>3, <1>4, PlainMove DEF DeployInv
<1>6. upsets' \in Nat /\ calls' \in Nat
  BY DEF Begin, Upset, DeployInv, TypeOK
<1>7. overlapped' \in BOOLEAN /\ (~overlapped' => ~overlapped)
      /\ (~overlapped' => \A q \in Processes \ {p} : th[q].pc = "idle")
  BY DEF Begin, DeployInv, TypeOK, At
<1>8. Looked(p)' /\ Alone(p)'
  BY <1>3, <1>5 DEF CallMoved, Looked, Alone
<1>9. UNCHANGED <<entry, record>>
  BY DEF Begin
<1> QED
  BY <1>5, <1>6, <1>7, <1>8, <1>9, StillStep

LEMMA DecideCreateStep ==
    ASSUME DeployInv, NEW p \in Processes, DecideCreate(p) PROVE DeployInv'
<1>1. th[p].pc = "inspect" /\ th[p].op = "create" /\ entry = {}
  BY DEF DecideCreate, At, State, Classify
<1>2. th' = [th EXCEPT ![p].pc = "put"] /\ Goto(p, "put")
  BY DEF DecideCreate, Goto
<1>3. ~th[p].quiet /\ CallShape([th[p] EXCEPT !.pc = "put"])
  BY <1>1 DEF DeployInv, TypeOK, Calling, CallShape
<1>4. Alone(p)'
  BY <1>1, <1>2 DEF DecideCreate, DeployInv, TypeOK, Calling, Alone
<1> QED
  BY <1>1, <1>2, <1>3, <1>4, GotoStep DEF DecideCreate, PCs, DeployInv, TypeOK

LEMMA PutStep ==
    ASSUME DeployInv, NEW p \in Processes, PutRecord(p) PROVE DeployInv'
<1> DEFINE r == [th[p] EXCEPT !.pc = "fence", !.owned = {Own(p)}]
<1>0. Own(p) \in Records /\ record' = {Own(p)}
  BY DEF PutRecord, Own, Records, DeployInv, TypeOK, Calling
<1>1. th[p].pc = "put" /\ ~th[p].quiet /\ th[p].op = "create"
  BY DEF PutRecord, At, DeployInv, CallShape
<1>2. r \in Calling /\ r.pc = "fence" /\ r.op = "create" /\ ~r.quiet /\ r.owned = {Own(p)}
      /\ r.record = th[p].record /\ r.mode = th[p].mode /\ r.target = th[p].target
  BY <1>0, <1>1 DEF DeployInv, TypeOK, Calling, PCs
<1>3. th' = [th EXCEPT ![p] = r]
  BY <1>0 DEF PutRecord, DeployInv, TypeOK
<1> HIDE DEF r
<1>4. AtMostOne({Own(p)}, Records) /\ AtMostOne(th[p].record, Records)
  BY <1>0 DEF AtMostOne, DeployInv, TypeOK
<1>5. CallMoved(p, r)
  BY <1>2, <1>3, <1>4, PlainMove DEF CallShape, DeployInv
<1>6. Looked(p)' /\ th'[p] = r
  BY <1>2, <1>5 DEF CallMoved, Looked
<1>7. ~overlapped => Alone(p)' /\ AlwaysRecorded'
  <2>1. Own(p)' = Own(p)
    BY <1>2, <1>6 DEF Own
  <2>2. entry' = entry /\ overlapped' = overlapped
    BY DEF PutRecord
  <2> QED
    BY <1>0, <1>1, <1>2, <1>6, <2>1, <2>2, WasAlone DEF Alone, AlwaysRecorded, Whole
<1> QED
  BY <1>0, <1>1, <1>4, <1>5, <1>6, <1>7, ChangeStep DEF PutRecord, DeployInv, TypeOK

\* Refusals, failures without a trace and crashes end the call.
LEMMA EndSteps ==
    ASSUME DeployInv, NEW p \in Processes,
           RefuseCreate(p) \/ FailPut(p) \/ RefuseRemove(p) \/ RefuseOwned(p) \/ Crash(p)
    PROVE  DeployInv'
<1>1. Return(p) /\ UNCHANGED <<entry, record, overlapped, calls>>
  BY DEF RefuseCreate, FailPut, RefuseRemove, RefuseOwned, Crash
<1>2. upsets' \in Nat
  BY DEF RefuseCreate, FailPut, RefuseRemove, RefuseOwned, Crash, Upset, DeployInv, TypeOK
<1> QED
  BY <1>1, <1>2, ReturnStep

LEMMA RefuseEntryStep ==
    ASSUME DeployInv, NEW p \in Processes, RefuseEntry(p) PROVE DeployInv'
<1>1. th[p].pc = "fence" /\ th[p].op = "create" /\ Goto(p, "forget")
  BY DEF RefuseEntry, At
<1>2. ~th[p].quiet /\ CallShape([th[p] EXCEPT !.pc = "forget"])
  BY <1>1 DEF DeployInv, TypeOK, Calling, CallShape
<1>3. upsets' \in Nat /\ UNCHANGED <<entry, record, overlapped, calls>>
  BY DEF RefuseEntry, Upset, DeployInv, TypeOK
<1>4. ~overlapped => \A e \in entry : ~Whole(e)
  BY <1>1, WasAlone DEF Alone, Whole
<1>5. th'[p].pc = "forget"
  BY <1>1 DEF Goto, DeployInv, TypeOK, Calling
<1>6. ~overlapped => Alone(p)'
  BY <1>3, <1>4, <1>5 DEF Alone, Whole
<1> QED
  BY <1>1, <1>2, <1>3, <1>6, GotoStep DEF PCs

LEMMA MakeLinkStep ==
    ASSUME DeployInv, NEW p \in Processes, MakeLink(p) PROVE DeployInv'
<1> DEFINE e == [kind |-> "link", to |-> th[p].target, marker |-> FALSE, by |-> {"us"}]
           r == [th[p] EXCEPT !.pc = "idle", !.quiet = "idle" = "copying" /\ th[p].quiet]
<1>1. th[p].pc = "fence" /\ th[p].mode = "link" /\ entry' = {e} /\ th' = Disturbed(p, "idle")
  BY DEF MakeLink, Creates, At
<1>2. CallShape(r)
  BY <1>1 DEF DeployInv, TypeOK, Calling, CallShape, PCs
<1>3. CallMoved(p, r) /\ \A q \in Processes \ {p} : ~th'[q].quiet
  BY <1>1, <1>2, DisturbedMove DEF DeployInv, PCs
<1>4. r.pc = "idle" /\ ~r.quiet
  BY DEF DeployInv, TypeOK, Calling
<1>5. e \in Entries /\ e.kind = "link" /\ ~e.marker /\ e.to = th[p].target
  BY DEF Entries, Places, Makers, DeployInv, TypeOK, Calling
<1> HIDE DEF r, e
<1>6. Looked(p)' /\ Alone(p)'
  BY <1>3, <1>4 DEF CallMoved, Looked, Alone
<1>7. ~overlapped => AlwaysRecorded'
  <2> SUFFICES ASSUME ~overlapped PROVE AlwaysRecorded'
    OBVIOUS
  <2>1. record = {Own(p)}
    BY <1>1, WasAlone DEF Alone
  <2>2. Own(p).mode = "link" /\ Own(p).target = th[p].target
    BY <1>1 DEF Own
  <2>3. record' = record
    BY DEF MakeLink
  <2> QED
    BY <1>1, <1>5, <2>1, <2>2, <2>3 DEF AlwaysRecorded
<1>8. AtMostOne(entry', Entries) /\ \A x \in entry' : x.marker => "us" \in x.by /\ x.kind = "folder"
  BY <1>1, <1>5 DEF AtMostOne
<1> QED
  BY <1>1, <1>3, <1>6, <1>7, <1>8, ChangeStep DEF MakeLink, DeployInv, TypeOK

LEMMA CheckFreeStep ==
    ASSUME DeployInv, NEW p \in Processes, CheckFree(p) PROVE DeployInv'
<1> DEFINE r == [th[p] EXCEPT !.pc = "free", !.quiet = TRUE]
<1>1. /\ th[p].pc = "fence" /\ th[p].mode = "copy" /\ th[p].op = "create" /\ entry = {}
      /\ th' = [th EXCEPT ![p] = r]
  BY DEF CheckFree, Creates, At, DeployInv, TypeOK
<1>2. r \in Calling /\ CallShape(r) /\ r.record = th[p].record /\ r.owned = th[p].owned
      /\ r.pc = "free" /\ r.mode = th[p].mode /\ r.target = th[p].target
  BY <1>1 DEF DeployInv, TypeOK, Calling, PCs, CallShape
<1> HIDE DEF r
<1>3. CallMoved(p, r)
  BY <1>1, <1>2, PlainMove DEF DeployInv, TypeOK
<1>4. th'[p] = r /\ UNCHANGED <<entry, record, overlapped, calls, upsets>>
  BY <1>3 DEF CallMoved, CheckFree
<1>5. Looked(p)'
  BY <1>1, <1>2, <1>4 DEF Looked
<1>6. Own(p)' = Own(p)
  BY <1>2, <1>4 DEF Own
<1>7. ~overlapped' => Alone(p)'
  BY <1>1, <1>2, <1>4, <1>6, WasAlone DEF Alone
<1> QED
  BY <1>1, <1>3, <1>4, <1>5, <1>7, StillStep, WasAlone DEF DeployInv, TypeOK

\* What Filled makes of an entry: the new folder, or what was there, with this program's hand in it.
FilledOK(p, marked) ==
    /\ AtMostOne(Filled(p, marked), Entries)
    /\ \A e \in Filled(p, marked) : e.marker => "us" \in e.by /\ e.kind = "folder"
    /\ entry = {} => \A e \in Filled(p, marked) :
           "us" \in e.by /\ e.to = th[p].target /\ e.kind = "folder" /\ e.marker = marked
    /\ \A e \in Filled(p, marked) : \A x \in entry :
           /\ x.by \subseteq e.by /\ e.kind = x.kind /\ e.to = x.to
           /\ e.kind = "link" => e = x
           /\ ~marked => e.marker = x.marker

LEMMA FilledIs ==
    ASSUME DeployInv, NEW p \in Processes, NEW marked \in BOOLEAN
    PROVE  FilledOK(p, marked)
<1> USE DEF FilledOK
<1>1. CASE entry = {}
  <2> DEFINE made == [kind |-> "folder", to |-> th[p].target, marker |-> marked, by |-> {"us"}]
  <2>1. Filled(p, marked) = {made}
    BY <1>1 DEF Filled
  <2>2. made \in Entries /\ made.by = {"us"} /\ made.to = th[p].target /\ made.kind = "folder" /\ made.marker = marked
    BY DEF Entries, Places, Makers, DeployInv, TypeOK, Calling
  <2> HIDE DEF made
  <2> QED
    BY <1>1, <2>1, <2>2 DEF AtMostOne
<1>2. CASE entry # {}
  <2> PICK x \in entry : TRUE
    BY <1>2
  <2>1. entry = {x} /\ x \in Entries
    BY DEF DeployInv, TypeOK, AtMostOne
  <2> DEFINE made == IF x.kind = "link" THEN x
                  ELSE [x EXCEPT !.by = @ \cup {"us"}, !.marker = @ \/ marked]
  <2>2. Filled(p, marked) = {made}
    BY <1>2, <2>1 DEF Filled
  <2>3. made \in Entries
    BY <2>1 DEF Entries, Makers
  <2>4. /\ x.by \subseteq made.by /\ made.kind = x.kind /\ x.kind \in {"link", "folder"} /\ made.to = x.to
        /\ x.kind = "link" => made = x
        /\ x.kind # "link" => "us" \in made.by
        /\ ~marked => made.marker = x.marker
    BY <2>1 DEF Entries
  <2>5. x.marker => "us" \in x.by /\ x.kind = "folder"
    BY DEF DeployInv
  <2> HIDE DEF made
  <2> QED
    BY <1>2, <2>1, <2>2, <2>3, <2>4, <2>5 DEF AtMostOne
<1> QED
  BY <1>1, <1>2

LEMMA StartCopyStep ==
    ASSUME DeployInv, NEW p \in Processes, StartCopy(p) PROVE DeployInv'
<1> DEFINE r == [th[p] EXCEPT !.pc = "copying", !.quiet = "copying" = "copying" /\ th[p].quiet]
<1>0. FilledOK(p, FALSE)
  BY FilledIs, Zenon
<1>1. th[p].pc = "free" /\ entry' = Filled(p, FALSE) /\ th' = Disturbed(p, "copying")
  BY DEF StartCopy, At
<1>2. CallShape(r)
  BY <1>1 DEF DeployInv, TypeOK, Calling, CallShape, PCs
<1>3. CallMoved(p, r) /\ \A q \in Processes \ {p} : ~th'[q].quiet
  BY <1>1, <1>2, DisturbedMove DEF DeployInv, PCs
<1>4. /\ r.pc = "copying" /\ r.quiet = th[p].quiet /\ r.target = th[p].target
      /\ r.mode = th[p].mode
  BY DEF DeployInv, TypeOK, Calling
<1> HIDE DEF r
<1>5. th'[p] = r /\ record' = record /\ overlapped' = overlapped /\ Own(p)' = Own(p)
  BY <1>3, <1>4 DEF CallMoved, StartCopy, Own
<1>6. Looked(p)'
  BY <1>0, <1>1, <1>4, <1>5 DEF Looked, DeployInv, FilledOK
<1>7. ~overlapped => \A e \in entry' : /\ ~Whole(e)
                                       /\ e.by = {"us"} => e.to = th[p].target
  <2> SUFFICES ASSUME ~overlapped, NEW e \in entry'
               PROVE  ~Whole(e) /\ (e.by = {"us"} => e.to = th[p].target)
    OBVIOUS
  <2>1. CASE entry = {}
    BY <1>0, <1>1, <2>1 DEF Whole, FilledOK
  <2>2. CASE entry # {}
    <3> PICK x \in entry : TRUE
      BY <2>2
    <3>0. x \in Entries
      BY DEF DeployInv, TypeOK, AtMostOne
    <3>1. "us" \notin x.by /\ x.by # {}
      BY <1>1, <3>0, WasAlone DEF Alone, Entries
    <3>2. e.by = {"us"} => x.by \subseteq {"us"}
      BY <1>0, <1>1 DEF FilledOK
    <3> QED
      BY <3>1, <3>2 DEF Whole
  <2> QED
    BY <2>1, <2>2
<1>8. ~overlapped => Alone(p)' /\ AlwaysRecorded'
  <2>1. ~overlapped => record = {Own(p)}
    BY <1>1, WasAlone DEF Alone
  <2>2. ~overlapped => AlwaysRecorded'
    BY <1>5, <1>7 DEF AlwaysRecorded, Whole
  <2>3. ~overlapped => Alone(p)'
    BY <1>4, <1>5, <1>7, <2>1 DEF Alone, Whole
  <2> QED
    BY <2>2, <2>3
<1> QED
  BY <1>0, <1>1, <1>3, <1>6, <1>8, ChangeStep DEF StartCopy, DeployInv, TypeOK, FilledOK

LEMMA FinishCopyStep ==
    ASSUME DeployInv, NEW p \in Processes, FinishCopy(p) PROVE DeployInv'
<1> DEFINE r == [th[p] EXCEPT !.pc = "idle", !.quiet = "idle" = "copying" /\ th[p].quiet]
<1>0. FilledOK(p, TRUE)
  BY FilledIs, Zenon
<1>1. th[p].pc = "copying" /\ th[p].mode = "copy" /\ entry' = Filled(p, TRUE)
      /\ th' = Disturbed(p, "idle") /\ record' = record
  BY DEF FinishCopy, At, DeployInv, CallShape
<1>4. r.pc = "idle" /\ ~r.quiet
  BY DEF DeployInv, TypeOK, Calling
<1> HIDE DEF r
<1>2. CallShape(r)
  BY <1>4, EndShape
<1>3. CallMoved(p, r) /\ \A q \in Processes \ {p} : ~th'[q].quiet
  BY <1>1, <1>2, DisturbedMove DEF DeployInv, PCs, r
<1>5. Looked(p)' /\ Alone(p)'
  BY <1>3, <1>4 DEF CallMoved, Looked, Alone
<1>6. ~overlapped => AlwaysRecorded'
  <2> SUFFICES ASSUME ~overlapped, NEW e \in entry', e.by = {"us"}, e.kind = "link" \/ e.marker
               PROVE  \E o \in record' : (o.mode = "link" <=> e.kind = "link") /\ o.target = e.to
    BY DEF AlwaysRecorded
  <2>1. record = {Own(p)} /\ Alone(p)
    BY <1>1, WasAlone DEF Alone
  <2>2. Own(p).mode = "copy" /\ Own(p).target = th[p].target
    BY <1>1 DEF Own
  <2>3. e.kind # "link" /\ e.to = th[p].target
    <3>1. CASE entry = {}
      BY <1>0, <1>1, <3>1 DEF FilledOK
    <3>2. CASE entry # {}
      <4> PICK x \in entry : TRUE
        BY <3>2
      <4>1. x \in Entries
        BY DEF DeployInv, TypeOK, AtMostOne
      <4>2. ~Whole(x) /\ (x.by = {"us"} => x.to = th[p].target)
        BY <1>1, <2>1 DEF Alone
      <4>3. x.by \subseteq e.by /\ e.kind = x.kind /\ e.to = x.to /\ (e.kind = "link" => e = x)
        BY <1>0, <1>1 DEF FilledOK
      <4>4. x.by = {"us"}
        BY <4>1, <4>3 DEF Entries
      <4> QED
        BY <4>2, <4>3, <4>4 DEF Whole
    <3> QED
      BY <3>1, <3>2
  <2> QED
    BY <1>1, <2>1, <2>2, <2>3
<1> QED
  BY <1>0, <1>1, <1>3, <1>5, <1>6, ChangeStep DEF FinishCopy, DeployInv, TypeOK, FilledOK

\* The end of an act on the entry, by which it is gone or as good as gone.
LEMMA ActEnds ==
    ASSUME DeployInv, NEW p \in Processes, NEW pc \in {"idle", "forget"},
           th' = Disturbed(p, pc), th[p].pc # "idle",
           AtMostOne(entry', Entries), \A e \in entry' : e.marker => "us" \in e.by /\ e.kind = "folder",
           ~overlapped => \A e \in entry' : Whole(e) => pc = "idle" /\ e \in entry,
           UNCHANGED <<record, overlapped, calls>>, upsets' \in Nat
    PROVE  DeployInv'
<1> DEFINE r == [th[p] EXCEPT !.pc = pc, !.quiet = pc = "copying" /\ th[p].quiet]
<1>0. (pc = "copying" /\ th[p].quiet) = FALSE
  OBVIOUS
<1>3. r.pc = pc /\ ~r.quiet
  BY <1>0 DEF DeployInv, TypeOK, Calling
<1> HIDE DEF r
<1>1. CallShape(r)
  BY <1>3, EndShape
<1>2. CallMoved(p, r) /\ \A q \in Processes \ {p} : ~th'[q].quiet
  BY <1>1, DisturbedMove DEF DeployInv, PCs, r
<1>4. Looked(p)'
  BY <1>2, <1>3 DEF CallMoved, Looked
<1>5. ~overlapped => Alone(p)'
  BY <1>2, <1>3 DEF CallMoved, Alone, Whole
<1>6. ~overlapped => AlwaysRecorded'
  BY DEF DeployInv, AlwaysRecorded, Whole
<1>7. AtMostOne(record', Records)
  BY DEF DeployInv, TypeOK
<1> QED
  BY <1>2, <1>4, <1>5, <1>6, <1>7, ChangeStep DEF DeployInv, TypeOK

LEMMA FailCopyStep ==
    ASSUME DeployInv, NEW p \in Processes, FailCopy(p) PROVE DeployInv'
<1>1. th[p].pc \in {"free", "copying"} /\ entry' \subseteq entry /\ th' = Disturbed(p, "forget")
      /\ UNCHANGED <<record, overlapped, calls>>
  BY DEF FailCopy
<1>2. upsets' \in Nat
  BY DEF FailCopy, Upset, DeployInv, TypeOK
<1>3. AtMostOne(entry', Entries) /\ \A e \in entry' : e.marker => "us" \in e.by /\ e.kind = "folder"
  BY <1>1 DEF AtMostOne, DeployInv, TypeOK
<1>4. ~overlapped => \A e \in entry' : ~Whole(e)
  BY <1>1, WasAlone DEF Alone, Whole
<1> QED
  BY <1>1, <1>2, <1>3, <1>4, ActEnds

LEMMA TakeAwayStep ==
    ASSUME DeployInv, NEW p \in Processes, TakeAway(p) PROVE DeployInv'
<1>1. th[p].pc = "checked" /\ entry' = {} /\ th' = Disturbed(p, "forget")
      /\ UNCHANGED <<record, overlapped, calls>> /\ upsets' \in Nat
  BY DEF TakeAway, At, DeployInv, TypeOK
<1> QED
  BY <1>1, ActEnds DEF AtMostOne

LEMMA FailTakeStep ==
    ASSUME DeployInv, NEW p \in Processes, FailTake(p) PROVE DeployInv'
<1>1. th[p].pc = "checked" /\ th' = Disturbed(p, "idle") /\ UNCHANGED <<record, overlapped, calls>>
  BY DEF FailTake, At
<1>2. upsets' \in Nat
  BY DEF FailTake, Upset, DeployInv, TypeOK
<1>3. entry' = entry \/ (~RemovesLink(p) /\ entry' = {[e EXCEPT !.marker = FALSE] : e \in entry})
  BY DEF FailTake
<1>4. CASE entry' = entry
  BY <1>1, <1>2, <1>4, ActEnds DEF DeployInv, TypeOK
<1>5. CASE entry' = {[e EXCEPT !.marker = FALSE] : e \in entry}
  <2>1. \A e \in entry : /\ [e EXCEPT !.marker = FALSE] \in Entries
                         /\ ~[e EXCEPT !.marker = FALSE].marker
                         /\ [e EXCEPT !.marker = FALSE].kind = e.kind
                         /\ e.kind = "link" => [e EXCEPT !.marker = FALSE] = e
    <3> SUFFICES ASSUME NEW e \in entry
                 PROVE  /\ [e EXCEPT !.marker = FALSE] \in Entries
                        /\ ~[e EXCEPT !.marker = FALSE].marker
                        /\ [e EXCEPT !.marker = FALSE].kind = e.kind
                        /\ e.kind = "link" => [e EXCEPT !.marker = FALSE] = e
      OBVIOUS
    <3>1. e \in Entries
      BY DEF DeployInv, TypeOK, AtMostOne
    <3>2. e.marker => e.kind = "folder"
      BY DEF DeployInv
    <3>3. /\ [e EXCEPT !.marker = FALSE] \in Entries
          /\ ~[e EXCEPT !.marker = FALSE].marker
          /\ [e EXCEPT !.marker = FALSE].kind = e.kind
      BY <3>1 DEF Entries
    <3>4. ~e.marker => [e EXCEPT !.marker = FALSE] = e
      BY <3>1 DEF Entries
    <3> QED
      BY <3>1, <3>2, <3>3, <3>4 DEF Entries
  <2>2. \A x, y \in entry : x = y
    BY DEF DeployInv, TypeOK, AtMostOne
  <2>3. entry' \subseteq Entries /\ \A x, y \in entry' : x = y
    BY <1>5, <2>1, <2>2
  <2>4. \A e \in entry' : ~e.marker
    BY <1>5, <2>1
  <2>5. \A e \in entry' : e.kind = "link" => e \in entry
    BY <1>5, <2>1
  <2>6. AtMostOne(entry', Entries)
    BY <2>3 DEF AtMostOne
  <2>7. \A e \in entry' : Whole(e) => e \in entry
    BY <2>4, <2>5 DEF Whole
  <2> QED
    BY <1>1, <1>2, <2>4, <2>6, <2>7, ActEnds
<1> QED
  BY <1>3, <1>4, <1>5

LEMMA DecideRemoveStep ==
    ASSUME DeployInv, NEW p \in Processes, DecideRemove(p) PROVE DeployInv'
<1>1. th[p].pc = "inspect" /\ th[p].op = "remove" /\ Goto(p, "seed")
      /\ UNCHANGED <<entry, record, overlapped, calls, upsets>>
  BY DEF DecideRemove, At
<1>2. ~th[p].quiet /\ CallShape([th[p] EXCEPT !.pc = "seed"])
  BY <1>1 DEF DeployInv, TypeOK, Calling, CallShape
<1>3. th'[p].pc = "seed"
  BY <1>1 DEF Goto, DeployInv, TypeOK, Calling
<1>4. Alone(p)'
  BY <1>3 DEF Alone
<1> QED
  BY <1>1, <1>2, <1>4, GotoStep DEF PCs, DeployInv, TypeOK

LEMMA SeedStep ==
    ASSUME DeployInv, NEW p \in Processes, Seed(p) PROVE DeployInv'
<1> DEFINE r == [th[p] EXCEPT !.pc = "own", !.owned = record]
<1>1. /\ th[p].pc = "seed" /\ th[p].op = "remove" /\ ~th[p].quiet
      /\ th' = [th EXCEPT ![p] = r]
  BY DEF Seed, At, DeployInv, CallShape, TypeOK
<1>2. record \in SUBSET Records /\ AtMostOne(record, Records) /\ AtMostOne(th[p].record, Records)
  BY DEF DeployInv, TypeOK, AtMostOne
<1>3. r \in Calling /\ r.record = th[p].record /\ r.owned = record
      /\ r.pc = "own" /\ r.op = "remove" /\ ~r.quiet
  BY <1>1, <1>2 DEF DeployInv, TypeOK, Calling, PCs
<1> HIDE DEF r
<1>4. CallShape(r)
  BY <1>3 DEF CallShape
<1>5. CallMoved(p, r)
  BY <1>1, <1>2, <1>3, <1>4, PlainMove DEF DeployInv
<1>6. Looked(p)' /\ Alone(p)'
  BY <1>3, <1>5 DEF CallMoved, Looked, Alone
<1> QED
  BY <1>1, <1>5, <1>6, StillStep, WasAlone DEF Seed, DeployInv, TypeOK

LEMMA CheckOwnedStep ==
    ASSUME DeployInv, NEW p \in Processes, CheckOwned(p) PROVE DeployInv'
<1> DEFINE r == [th[p] EXCEPT !.pc = "checked", !.quiet = TRUE]
<1>1. /\ th[p].pc = "own" /\ th[p].op = "remove" /\ Owns(p)
      /\ th' = [th EXCEPT ![p] = r]
  BY DEF CheckOwned, At, DeployInv, CallShape, TypeOK
<1>2. r \in Calling /\ r.record = th[p].record /\ r.owned = th[p].owned
      /\ r.pc = "checked" /\ r.op = "remove"
  BY <1>1 DEF DeployInv, TypeOK, Calling, PCs
<1> HIDE DEF r
<1>3. CallShape(r)
  BY <1>2 DEF CallShape
<1>4. CallMoved(p, r)
  BY <1>1, <1>2, <1>3, PlainMove DEF DeployInv, TypeOK
<1>5. th'[p] = r /\ UNCHANGED <<entry, record, overlapped, calls, upsets>>
  BY <1>4 DEF CallMoved, CheckOwned
<1>6. Looked(p)' /\ Alone(p)'
  BY <1>1, <1>2, <1>5 DEF Looked, Alone, Owns
<1> QED
  BY <1>1, <1>4, <1>5, <1>6, StillStep, WasAlone DEF DeployInv, TypeOK

LEMMA ForgetStep ==
    ASSUME DeployInv, NEW p \in Processes, Forget(p) PROVE DeployInv'
<1> DEFINE r == [th[p] EXCEPT !.pc = "idle", !.quiet = FALSE]
<1>1. th[p].pc = "forget" /\ Return(p) /\ record' \subseteq record
      /\ UNCHANGED <<entry, overlapped, calls>> /\ upsets' \in Nat
  BY DEF Forget, At, Upset, DeployInv, TypeOK
<1>2. CallMoved(p, r)
  BY <1>1, ReturnMove DEF DeployInv
<1>3. r.pc = "idle" /\ ~r.quiet
  BY DEF DeployInv, TypeOK, Calling
<1> HIDE DEF r
<1>4. Looked(p)' /\ Alone(p)'
  BY <1>2, <1>3 DEF CallMoved, Looked, Alone
<1>5. ~overlapped => AlwaysRecorded'
  BY <1>1, WasAlone DEF Alone, AlwaysRecorded, Whole
<1>6. AtMostOne(record', Records)
  BY <1>1 DEF DeployInv, TypeOK, AtMostOne
<1> QED
  BY <1>1, <1>2, <1>4, <1>5, <1>6, ChangeStep DEF DeployInv, TypeOK

\* A person's change undoes what every process saw, and makes nothing that needs a record.
LEMMA ByHandStep == ASSUME DeployInv, ByHand PROVE DeployInv'
<1>1. /\ th' = [q \in Processes |-> [th[q] EXCEPT !.quiet = FALSE]]
      /\ UNCHANGED <<record, overlapped, calls>> /\ upsets' \in Nat
  BY DEF ByHand, Upset, DeployInv, TypeOK
<1>2. \A q \in Processes : th'[q] \in Calling /\ ~th'[q].quiet /\ QuietKept(q)
  BY <1>1 DEF DeployInv, TypeOK, Calling, QuietKept
<1>3. th' \in [Processes -> Calling]
  BY <1>1, <1>2
<1>4. AtMostOne(entry', Entries) /\ \A e \in entry' : ~e.marker /\ e.by = {"person"}
  <2>1. CASE entry' = {}
    BY <2>1 DEF AtMostOne
  <2>2. ASSUME NEW to \in Places,
               entry' = {[kind |-> "link", to |-> to, marker |-> FALSE, by |-> {"person"}]}
        PROVE  AtMostOne(entry', Entries) /\ \A e \in entry' : ~e.marker /\ e.by = {"person"}
    BY <2>2 DEF AtMostOne, Entries, Makers
  <2>3. CASE entry' = {[kind |-> "folder", to |-> Elsewhere, marker |-> FALSE, by |-> {"person"}]}
    BY <2>3 DEF AtMostOne, Entries, Makers, Places
  <2> QED
    BY <2>1, <2>2, <2>3 DEF ByHand
<1>5. TypeOK'
  <2>1. \A q \in Processes : AtMostOne(th'[q].record, Records) /\ AtMostOne(th'[q].owned, Records)
    BY <1>2, KeptFields DEF DeployInv, TypeOK
  <2> QED
    BY <1>1, <1>3, <1>4, <2>1 DEF DeployInv, TypeOK
<1>6. \A q \in Processes : CallShape(th'[q]) /\ Looked(q)' /\ (~overlapped => Alone(q)')
  <2> SUFFICES ASSUME NEW q \in Processes
               PROVE  CallShape(th'[q]) /\ Looked(q)' /\ (~overlapped => Alone(q)')
    OBVIOUS
  <2>1. QuietKept(q) /\ TypeOK /\ CallShape(th[q]) /\ (~overlapped => Alone(q))
    BY <1>2 DEF DeployInv
  <2>2. CallShape(th'[q]) /\ Looked(q)'
    BY <1>2, <2>1, KeptFields DEF CallShape, Looked
  <2>3. Own(q)' = Own(q)
    BY <2>1, KeptFields DEF Own
  <2>4. ~overlapped => Alone(q)'
    BY <1>1, <1>4, <2>1, <2>3, KeptFields DEF Alone, Whole
  <2> QED
    BY <2>2, <2>4
<1>7. ~overlapped => \A q, u \in Processes : th'[q].pc # "idle" /\ th'[u].pc # "idle" => q = u
  BY <1>2, KeptFields DEF DeployInv
<1>8. AlwaysRecorded'
  BY <1>4 DEF AlwaysRecorded
<1> QED
  BY <1>1, <1>4, <1>5, <1>6, <1>7, <1>8 DEF DeployInv

LEMMA StillThere == ASSUME DeployInv, UNCHANGED linkVars PROVE DeployInv'
BY DEF DeployInv, TypeOK, CallShape, Looked, Alone, Own, Owns, Whole, AlwaysRecorded, linkVars, AtMostOne

LEMMA StepKeeps == ASSUME DeployInv, NEW p \in Processes, LinkStep(p) PROVE DeployInv'
<1>1. CASE \E op \in Ops, target \in Targets, mode \in Modes : Begin(p, op, target, mode)
  BY <1>1, BeginStep
<1>2. CASE DecideCreate(p) \/ PutRecord(p) \/ MakeLink(p) \/ CheckFree(p) \/ RefuseEntry(p)
  BY <1>2, DecideCreateStep, PutStep, MakeLinkStep, CheckFreeStep, RefuseEntryStep
<1>3. CASE StartCopy(p) \/ FinishCopy(p) \/ FailCopy(p)
  BY <1>3, StartCopyStep, FinishCopyStep, FailCopyStep
<1>4. CASE DecideRemove(p) \/ Seed(p) \/ CheckOwned(p) \/ TakeAway(p) \/ FailTake(p) \/ Forget(p)
  BY <1>4, DecideRemoveStep, SeedStep, CheckOwnedStep, TakeAwayStep, FailTakeStep, ForgetStep
<1>5. CASE RefuseCreate(p) \/ FailPut(p) \/ RefuseRemove(p) \/ RefuseOwned(p) \/ Crash(p)
  BY <1>5, EndSteps
<1> QED
  BY <1>1, <1>2, <1>3, <1>4, <1>5 DEF LinkStep

LEMMA InvKept == DeployInv /\ [LinkNext]_linkVars => DeployInv'
BY StepKeeps, ByHandStep, StillThere DEF LinkNext

LEMMA InvAlways == LinkSpec => []DeployInv
BY InitDeploy, InvKept, PTL DEF LinkSpec

\* Every reachable state is well typed: there is at most one entry and one record of the name, and no
\* process ever holds two.
THEOREM TypeCorrect == LinkSpec => []TypeOK
<1>1. DeployInv => TypeOK
  BY DEF DeployInv
<1> QED
  BY <1>1, InvAlways, PTL

\* As long as the calls of two processes never overlap, what the program made and finished has its
\* record, at every moment, whatever fails, crashes or is done by hand.
THEOREM MadeIsRecorded == LinkSpec => []AlwaysRecorded
<1>1. DeployInv => AlwaysRecorded
  BY DEF DeployInv
<1> QED
  BY <1>1, InvAlways, PTL

-----------------------------------------------------------------------------
\* A step of p that changes what a person put there, after the fence looked.
LEMMA TouchesRecordedLink ==
    ASSUME DeployInv, NEW p \in Processes, NEW e \in entry,
           LinkStep(p), th'[p].pc # th[p].pc, e.by = {"person"}, entry' # entry, th[p].quiet
    PROVE  e.kind = "link" /\ \E o \in th[p].owned : o.target = e.to
<1>1. StartCopy(p) \/ FinishCopy(p) \/ FailCopy(p) \/ TakeAway(p) \/ FailTake(p) \/ MakeLink(p)
  BY DEF LinkStep, Begin, DecideCreate, RefuseCreate, PutRecord, FailPut, CheckFree, RefuseEntry,
         DecideRemove, RefuseRemove, Seed, CheckOwned, RefuseOwned, Forget, Crash
<1>2. Looked(p) /\ CallShape(th[p]) /\ (e.marker => "us" \in e.by) /\ "us" \notin e.by
  BY DEF DeployInv
<1>3. ~MakeLink(p) /\ ~StartCopy(p) /\ ~FinishCopy(p) /\ ~FailCopy(p)
  BY <1>2 DEF MakeLink, StartCopy, FinishCopy, FailCopy, At, Looked, CallShape
<1>4. th[p].pc = "checked" /\ Owns(p)
  BY <1>1, <1>2, <1>3 DEF TakeAway, FailTake, At, Looked
<1>5. PICK o \in th[p].owned, r \in th[p].record, x \in entry :
        /\ o.mode = r.mode
        /\ o.mode = "link" => x.kind = "link" /\ x.to = o.target
        /\ o.mode = "copy" => x.kind = "folder" /\ x.marker
  BY <1>4 DEF Owns
<1>6. x = e /\ o.mode \in {"link", "copy"}
  BY DEF DeployInv, TypeOK, AtMostOne, Records, Modes
<1> QED
  BY <1>2, <1>5, <1>6

\* Process p moves only by its own steps.
LEMMA OthersDoNotMove ==
    ASSUME DeployInv, NEW p \in Processes, NEW q \in Processes, LinkStep(q), q # p
    PROVE  th'[p].pc = th[p].pc
<1> USE DEF DeployInv, TypeOK, Calling
<1>1. CASE \E op \in Ops, target \in Targets, mode \in Modes : Begin(q, op, target, mode)
  BY <1>1 DEF Begin
<1>2. CASE DecideCreate(q) \/ PutRecord(q) \/ CheckFree(q) \/ RefuseEntry(q)
  BY <1>2 DEF DecideCreate, PutRecord, CheckFree, RefuseEntry, Goto
<1>3. CASE MakeLink(q) \/ StartCopy(q) \/ FinishCopy(q) \/ FailCopy(q) \/ TakeAway(q) \/ FailTake(q)
  <2> PICK own : th' = Disturbed(q, own)
    BY <1>3 DEF MakeLink, StartCopy, FinishCopy, FailCopy, TakeAway, FailTake
  <2>1. th'[p] = [th[p] EXCEPT !.quiet = FALSE]
    BY DEF Disturbed
  <2> QED
    BY <2>1
<1>4. CASE DecideRemove(q) \/ Seed(q) \/ CheckOwned(q) \/ Forget(q)
  BY <1>4 DEF DecideRemove, Seed, CheckOwned, Forget, Goto, Return
<1>5. CASE RefuseCreate(q) \/ FailPut(q) \/ RefuseRemove(q) \/ RefuseOwned(q) \/ Crash(q)
  BY <1>5 DEF RefuseCreate, FailPut, RefuseRemove, RefuseOwned, Crash, Return
<1> QED
  BY <1>1, <1>2, <1>3, <1>4, <1>5 DEF LinkStep

\* Whatever two processes do at the same time: what a person put under the name is touched only between
\* the fence's look and its act, or when it is a link like the recorded one.
THEOREM PersonStays == LinkSpec => PersonKept
<1> DEFINE Safe == \A p \in Processes, e \in entry :
         (th'[p].pc # th[p].pc /\ e.by = {"person"} /\ entry' # entry)
            => \/ ~th[p].quiet
               \/ e.kind = "link" /\ \E o \in th[p].owned : o.target = e.to
<1>1. DeployInv /\ [LinkNext]_linkVars => [Safe]_linkVars
  <2> SUFFICES ASSUME DeployInv, LinkNext PROVE Safe
    OBVIOUS
  <2> SUFFICES ASSUME NEW p \in Processes, NEW e \in entry,
                      th'[p].pc # th[p].pc, e.by = {"person"}, entry' # entry, th[p].quiet
               PROVE  e.kind = "link" /\ \E o \in th[p].owned : o.target = e.to
    OBVIOUS
  <2>1. CASE ByHand
    BY <2>1 DEF ByHand, DeployInv, TypeOK, Calling
  <2>2. ASSUME NEW q \in Processes, LinkStep(q)
        PROVE  e.kind = "link" /\ \E o \in th[p].owned : o.target = e.to
    <3>1. q = p
      BY <2>2, OthersDoNotMove
    <3> QED
      BY <2>2, <3>1, TouchesRecordedLink
  <2> QED
    BY <2>1, <2>2 DEF LinkNext
<1> QED
  BY <1>1, InvAlways, PTL DEF LinkSpec, PersonKept
=============================================================================

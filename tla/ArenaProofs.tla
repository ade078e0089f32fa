----------------------------- MODULE ArenaProofs -----------------------------
(***************************************************************************)
(* Proofs about Arena, for any capacity, any last generation and lists of  *)
(* any length.                                                             *)
(*                                                                         *)
(* Handles: one whose node was freed never becomes valid again.  Links do  *)
(* not matter for it: a slot that is taken was free or new, and no handle  *)
(* was given out for it at its present generation.                         *)
(*                                                                         *)
(* Links: the nodes are an ordered forest after every call.  The loops of  *)
(* the calls, the walks and the rounds of Subtree are counted by natural   *)
(* numbers, so induction over those is all that is needed; trees are       *)
(* spoken of by sets of slots, never by paths.                             *)
(*                                                                         *)
(* Refinement: the chain of children of each slot before and after a call, *)
(* as sequences; then the same by name, which is a step of Forest.         *)
(***************************************************************************)
EXTENDS Arena, FiniteSetTheorems, SequenceTheorems, WellFoundedInduction, TLAPS

-----------------------------------------------------------------------------
(* Handles.                                                                *)

\* Of n slots with generations g, fr are free: every handle in iss names a slot there is, at an
\* earlier generation, or at the present one of a slot that is not free.
DatedHandle(h, n, g, fr) ==
  /\ h.index \in 0..(n - 1) /\ h.generation \in Nat
  /\ \/ h.generation < g[h.index]
     \/ h.generation = g[h.index] /\ h.index \notin fr

Dated(n, g, fr, iss) ==
  /\ n \in 0..Capacity /\ fr \subseteq 0..(n - 1)
  /\ g \in [Slot -> Nat]
  /\ \A h \in iss : DatedHandle(h, n, g, fr)

Past == Dated(count, gen, free, issued)

\* Slots that were there are freed.
LEMMA FreedDated ==
  ASSUME NEW G \in SUBSET (0..(count - 1)), Past
  PROVE  Dated(count, Bump(G), Recycled(G), issued)
  <1> USE ArenaAssumption DEF Past, Dated, DatedHandle
  <1>1. Bump(G) \in [Slot -> Nat]
    BY DEF Bump
  <1>2. \A i \in Slot : Bump(G)[i] = IF i \in G /\ gen[i] < MaxGeneration THEN gen[i] + 1 ELSE gen[i]
    BY DEF Bump
  <1>3. Recycled(G) \subseteq 0..(count - 1)
    BY DEF Recycled
  <1>4. ASSUME NEW h \in issued
        PROVE  \/ h.generation < Bump(G)[h.index]
               \/ h.generation = Bump(G)[h.index] /\ h.index \notin Recycled(G)
    <2>1. /\ h.index \in Slot /\ h.generation \in Nat /\ gen[h.index] \in Nat
          /\ \/ h.generation < gen[h.index]
             \/ h.generation = gen[h.index] /\ h.index \notin free
      BY DEF Slot
    <2>2. CASE h.index \in G /\ gen[h.index] < MaxGeneration
      BY <1>2, <2>1, <2>2
    <2>3. CASE ~(h.index \in G /\ gen[h.index] < MaxGeneration)
      BY <1>2, <2>1, <2>3 DEF Recycled
    <2> QED BY <2>2, <2>3
  <1> QED
    BY <1>1, <1>3, <1>4

\* Free and new slots are taken and their handles given out.
LEMMA FilledDated ==
  ASSUME NEW n, NEW g, NEW fr, NEW iss, NEW S \in SUBSET Slot,
         Dated(n, g, fr, iss), CanAlloc(S, fr, n)
  PROVE  /\ Dated(n + Cardinality(S \ fr), g, fr \ S,
                  iss \cup {[index |-> i, generation |-> g[i]] : i \in S})
         /\ \A h \in iss : h.index \in S => h.generation # g[h.index]
  <1>0. n \in 0..Capacity /\ Capacity \in Nat /\ fr \subseteq 0..(n - 1)
    BY ArenaAssumption DEF Dated, DatedHandle
  <1> DEFINE new == S \ fr
             k == Cardinality(new)
             given == {[index |-> i, generation |-> g[i]] : i \in S}
  <1>1. k \in Nat
    <2>1. IsFiniteSet(Slot)
      BY ArenaAssumption, FS_Interval DEF Slot
    <2>2. IsFiniteSet(new)
      BY <2>1, FS_Subset
    <2> QED
      BY <2>2, FS_CardinalityType
  <1>2. new = n..(n + k - 1) /\ new \subseteq Slot
    BY DEF CanAlloc
  <1> HIDE DEF new, k
  <1>3. n + k \in 0..Capacity
    <2>1. CASE k = 0
      BY <1>0, <2>1
    <2>2. CASE k # 0
      <3>1. n + k - 1 \in new
        BY <1>0, <1>1, <1>2, <2>2
      <3> QED
        BY <1>0, <1>1, <1>2, <3>1 DEF Slot
    <2> QED
      BY <2>1, <2>2
  <1>4. S \subseteq 0..((n + k) - 1)
    <2>1. ASSUME NEW i \in S
          PROVE  i \in 0..((n + k) - 1)
      <3>1. CASE i \in fr
        BY <1>0, <1>1, <3>1
      <3>2. CASE i \in new
        BY <1>0, <1>1, <1>2, <3>2
      <3> QED
        BY <3>1, <3>2 DEF new
    <2> QED
      BY <2>1
  <1>5. ASSUME NEW h \in iss, h.index \in S
        PROVE  h.generation < g[h.index] /\ h.generation # g[h.index]
    <2>1. h.index \in 0..(n - 1) /\ h.index \notin new
      BY <1>0, <1>1, <1>2 DEF Dated, DatedHandle
    <2>2. h.index \in fr
      BY <1>5, <2>1 DEF new
    <2>3. h.index \in Slot /\ h.generation \in Nat /\ g[h.index] \in Nat
      BY <1>0, <2>1 DEF Dated, DatedHandle, Slot
    <2> QED
      BY <2>2, <2>3 DEF Dated, DatedHandle
  <1> HIDE DEF given
  <1>6. ASSUME NEW h \in iss
        PROVE  /\ h.index \in 0..((n + k) - 1) /\ h.generation \in Nat
               /\ \/ h.generation < g[h.index]
                  \/ h.generation = g[h.index] /\ h.index \notin fr \ S
    BY <1>0, <1>1 DEF Dated, DatedHandle
  <1>7. ASSUME NEW h \in given
        PROVE  /\ h.index \in 0..((n + k) - 1) /\ h.generation \in Nat
               /\ h.generation = g[h.index] /\ h.index \notin fr \ S
    <2>1. PICK i \in S : h = [index |-> i, generation |-> g[i]]
      BY DEF given
    <2>2. h.index = i /\ h.generation = g[i] /\ i \in Slot
      BY <2>1
    <2> QED
      BY <1>4, <2>2 DEF Dated, DatedHandle
  <1>8. fr \subseteq 0..((n + k) - 1)
    <2>1. ASSUME NEW i \in fr
          PROVE  i \in 0..((n + k) - 1)
      BY <1>0, <1>1
    <2> QED
      BY <2>1
  <1>9. Dated(n + k, g, fr \ S, iss \cup given)
    <2>1. g \in [Slot -> Nat]
      BY DEF Dated, DatedHandle
    <2>2. fr \ S \subseteq 0..((n + k) - 1)
      BY <1>8
    <2>3. ASSUME NEW h \in iss \cup given
          PROVE  DatedHandle(h, n + k, g, fr \ S)
      <3>1. CASE h \in iss
        BY <1>6, <3>1 DEF DatedHandle
      <3>2. CASE h \in given
        BY <1>7, <3>2 DEF DatedHandle
      <3> QED
        BY <3>1, <3>2
    <2> QED
      BY <1>3, <2>1, <2>2, <2>3, Zenon DEF Dated
  <1> QED
    BY <1>5, <1>9 DEF k, new, given

\* The slots free_subtree visits are slots there are.
LEMMA SubtreeThere ==
  ASSUME NEW l, NEW i
  PROVE  Subtree(l, i) \subseteq 0..(count - 1)
  BY DEF Subtree

\* Init and the steps.  A step leaves handles dated, and wakes none that was stale.
Kept == Past' /\ \A h \in issued : ~Valid(h) => ~Valid(h)'

\* The first handle is that of the document.
LEMMA StartsDated ==
  ASSUME Init
  PROVE  Past
  BY ArenaAssumption DEF Init, Past, Dated, DatedHandle, Slot, Root

\* Slots are taken, generations stay.
LEMMA FillKeeps ==
  ASSUME Past, NEW S \in SUBSET Slot, Fill(S, free, count), gen' = gen, live' = live \cup S
  PROVE  Kept
  <1>1. /\ Dated(count + Cardinality(S \ free), gen, free \ S,
                 issued \cup {[index |-> i, generation |-> gen[i]] : i \in S})
        /\ \A h \in issued : h.index \in S => h.generation # gen[h.index]
    BY FilledDated DEF Fill, Past
  <1>2. Past'
    BY <1>1 DEF Fill, Past
  <1> QED
    BY <1>1, <1>2 DEF Kept, Valid

\* Nothing a handle depends on changes.
LEMMA SameKeeps ==
  ASSUME Past, UNCHANGED <<count, live, gen, free, issued>>
  PROVE  Kept
  BY DEF Kept, Past, Dated, DatedHandle, Valid

\* Slots that were there are freed.
LEMMA ReleaseKeeps ==
  ASSUME Past, NEW G \in SUBSET (0..(count - 1)), NEW l, Release(l, G)
  PROVE  Kept
  <1>1. Past'
    BY FreedDated DEF Past, Release
  <1>2. ASSUME NEW h \in issued, ~Valid(h)
        PROVE  ~Valid(h)'
    <2>1. h.index \in Slot /\ h.generation \in Nat /\ gen[h.index] \in Nat
      BY ArenaAssumption DEF Past, Dated, DatedHandle, Slot
    <2>2. gen'[h.index] = IF h.index \in G /\ gen[h.index] < MaxGeneration
                          THEN gen[h.index] + 1 ELSE gen[h.index]
      BY <2>1 DEF Release, Bump
    <2>3. h.generation <= gen[h.index]
      BY <2>1 DEF Past, Dated, DatedHandle
    <2> QED
      BY <1>2, <2>1, <2>2, <2>3 DEF Valid, Release
  <1> QED
    BY <1>1, <1>2 DEF Kept

\* Slots are freed and one is taken, maybe one of them.
LEMMA SetTextContentKeeps ==
  ASSUME Past, NEW p \in issued, NEW s \in Slot, SetTextContent(p, s)
  PROVE  Kept
  <1> DEFINE gone == Subtree(links, p.index) \ {p.index}
  <1>1. gone \subseteq 0..(count - 1)
    BY SubtreeThere
  <1>2. /\ gen' = Bump(gone) /\ Fill({s}, Recycled(gone), count)
        /\ live' = (live \ gone) \cup {s}
    BY DEF SetTextContent
  <1> HIDE DEF gone
  <1>3. Dated(count, Bump(gone), Recycled(gone), issued)
    BY <1>1, FreedDated
  <1>4. /\ Dated(count + Cardinality({s} \ Recycled(gone)), Bump(gone), Recycled(gone) \ {s},
                 issued \cup {[index |-> i, generation |-> Bump(gone)[i]] : i \in {s}})
        /\ \A h \in issued : h.index \in {s} => h.generation # Bump(gone)[h.index]
    BY <1>2, <1>3, FilledDated DEF Fill
  <1>5. Past'
    BY <1>2, <1>4 DEF Fill, Past
  <1>6. ASSUME NEW h \in issued, ~Valid(h)
        PROVE  ~Valid(h)'
    <2>1. h.index \in Slot /\ h.generation \in Nat /\ gen[h.index] \in Nat
      BY ArenaAssumption DEF Past, Dated, DatedHandle, Slot
    <2>2. gen'[h.index] = IF h.index \in gone /\ gen[h.index] < MaxGeneration
                          THEN gen[h.index] + 1 ELSE gen[h.index]
      BY <1>2, <2>1 DEF Bump
    <2>3. h.generation <= gen[h.index]
      BY <2>1 DEF Past, Dated, DatedHandle
    <2>4. h.index = s => h.generation # gen'[h.index]
      BY <1>2, <1>4
    <2> QED
      BY <1>2, <1>6, <2>1, <2>2, <2>3, <2>4 DEF Valid
  <1> QED
    BY <1>5, <1>6 DEF Kept

\* A copy or an import that fails: slots are taken and freed, no handle is given out.
LEMMA FailBuildKeeps ==
  ASSUME Past, NEW S \in SUBSET Slot, FailBuild(S)
  PROVE  Kept
  <1> USE ArenaAssumption
  <1>1. /\ Dated(count + Cardinality(S \ free), gen, free \ S,
                 issued \cup {[index |-> i, generation |-> gen[i]] : i \in S})
        /\ \A h \in issued : h.index \in S => h.generation # gen[h.index]
    BY FilledDated DEF FailBuild, Past
  <1>2. /\ count' = count + Cardinality(S \ free) /\ gen' = Bump(S) /\ issued' = issued
        /\ live' = live /\ free' = (free \ S) \cup {i \in S : gen[i] < MaxGeneration}
    BY DEF FailBuild
  <1>3. gen' \in [Slot -> Nat]
    BY <1>2 DEF Past, Dated, DatedHandle, Bump
  <1>4. \A i \in Slot : gen'[i] = IF i \in S /\ gen[i] < MaxGeneration THEN gen[i] + 1 ELSE gen[i]
    BY <1>2 DEF Bump
  <1>5. S \subseteq 0..(count' - 1)
    <2>1. ASSUME NEW i \in S
          PROVE  i \in 0..(count' - 1)
      <3> DEFINE h == [index |-> i, generation |-> gen[i]]
      <3>1. h \in issued \cup {[index |-> j, generation |-> gen[j]] : j \in S}
        OBVIOUS
      <3>2. h.index \in 0..(count' - 1)
        BY <1>1, <1>2, <3>1 DEF Dated, DatedHandle
      <3> QED
        BY <3>2
    <2> QED
      BY <2>1
  <1>6. free' \subseteq 0..(count' - 1) /\ count' \in 0..Capacity
    BY <1>1, <1>2, <1>5 DEF Dated, DatedHandle
  <1>7. ASSUME NEW h \in issued
        PROVE  /\ h.index \in 0..(count' - 1) /\ h.index \in Slot /\ h.generation \in Nat
               /\ \/ h.generation < gen'[h.index]
                  \/ h.generation = gen'[h.index] /\ h.index \notin free'
               /\ h.index \in S => h.generation < gen'[h.index]
    <2>1. h.index \in 0..(count' - 1) /\ h.index \in Slot /\ h.generation \in Nat
      <3>1. h.index \in 0..(count' - 1) /\ h.generation \in Nat
        BY <1>1, <1>2 DEF Dated, DatedHandle
      <3> QED
        BY <1>6, <3>1 DEF Slot
    <2>2. \/ h.generation < gen[h.index]
          \/ h.generation = gen[h.index] /\ h.index \notin free
      BY DEF Past, Dated, DatedHandle
    <2>3. gen[h.index] \in Nat
      BY <2>1 DEF Past, Dated, DatedHandle
    <2> QED
      BY <1>1, <1>2, <1>4, <2>1, <2>2, <2>3
  <1>8. Past'
    BY <1>3, <1>6, <1>7, <1>2 DEF Past, Dated, DatedHandle
  <1>9. ASSUME NEW h \in issued, ~Valid(h)
        PROVE  ~Valid(h)'
    BY <1>2, <1>4, <1>7, <1>9 DEF Valid
  <1> QED
    BY <1>8, <1>9 DEF Kept

\* Every step keeps handles dated and stale ones stale.
LEMMA StepKeeps ==
  ASSUME Past, [Next]_vars
  PROVE  Kept
  <1>1. ASSUME NEW i \in Slot, NEW text \in BOOLEAN, Create(i, text) PROVE Kept
    BY <1>1, FillKeeps DEF Create
  <1>2. ASSUME NEW p \in issued, NEW i \in Slot, NEW text \in BOOLEAN, AppendNew(p, i, text)
        PROVE Kept
    BY <1>2, FillKeeps DEF AppendNew
  <1>3. ASSUME NEW l, Relink(l) PROVE Kept
    BY <1>3, SameKeeps DEF Relink
  <1>4. ASSUME NEW p \in issued, NEW list \in Batches,
               \/ AppendChildren(p, list) \/ PrependChildren(p, list) \/ InsertBefore(p, list)
               \/ InsertAfter(p, list) \/ ReplaceWith(p, list)
        PROVE Kept
    BY <1>3, <1>4 DEF AppendChildren, PrependChildren, InsertBefore, InsertAfter, ReplaceWith
  <1>5. ASSUME NEW h \in issued, Detach(h) PROVE Kept
    BY <1>3, <1>5 DEF Detach
  <1>6. ASSUME NEW h \in issued, RemoveNode(h) PROVE Kept
    BY <1>6, ReleaseKeeps, SubtreeThere DEF RemoveNode
  <1>7. ASSUME NEW h \in issued, ClearChildren(h) PROVE Kept
    <2>1. Subtree(links, h.index) \ {h.index} \subseteq 0..(count - 1)
      BY SubtreeThere
    <2> QED
      BY <1>7, <2>1, ReleaseKeeps DEF ClearChildren
  <1>8. ASSUME NEW h \in issued, NEW S \in SUBSET Slot, DeepClone(h, S) PROVE Kept
    <2>1. gen' = gen /\ Fill(S, free, count) /\ live' = live \cup S
      BY <1>8 DEF DeepClone
    <2> QED
      BY <2>1, FillKeeps
  <1>9. ASSUME PrepareOrder PROVE Kept
    BY <1>9, SameKeeps DEF PrepareOrder
  <1>10. ASSUME UNCHANGED vars PROVE Kept
    BY <1>10, SameKeeps DEF vars
  <1> QED
    BY <1>1, <1>2, <1>4, <1>5, <1>6, <1>7, <1>8, <1>9, <1>10, SetTextContentKeeps, FailBuildKeeps
    DEF Next

\* In every state, no handle was given out for a free slot at its present generation.
THEOREM HandlesDated == Spec => []Past
  <1>1. Past /\ [Next]_vars => Past'
    BY StepKeeps DEF Kept
  <1> QED
    BY <1>1, StartsDated, PTL DEF Spec

\* A handle whose node was freed never becomes valid again, for any number of slots and
\* generations: free_subtree ends a generation before the slot can be taken again.
THEOREM StaleStays == Spec => StaleForever
  <1> DEFINE Stays == \A h \in issued : ~Valid(h) => ~Valid(h)'
  <1>1. Past /\ [Next]_vars => [Stays]_vars
    BY StepKeeps DEF Kept
  <1> QED
    BY <1>1, HandlesDated, PTL DEF Spec, StaleForever

-----------------------------------------------------------------------------
(* Links joined and parted.                                                *)

\* Every slot has five links.
Typed(l) == l \in [Slot -> [parent : Link, first : Link, last : Link, prev : Link, next : Link]]

\* m is l with the node c linked into p between a and b, Nil being the ends.
Joined(l, m, p, a, b, c) ==
  \A i \in Slot :
    /\ m[i].parent = IF i = c THEN p ELSE l[i].parent
    /\ m[i].first = IF i = p /\ a = Nil THEN c ELSE l[i].first
    /\ m[i].last = IF i = p /\ b = Nil THEN c ELSE l[i].last
    /\ m[i].prev = IF i = c THEN a ELSE IF i = b THEN c ELSE l[i].prev
    /\ m[i].next = IF i = c THEN b ELSE IF i = a THEN c ELSE l[i].next

\* m is l with the node c taken out from between a and b below p.
Parted(l, m, p, a, b, c) ==
  \A i \in Slot :
    /\ m[i].parent = IF i = c THEN Nil ELSE l[i].parent
    /\ m[i].first = IF i = p /\ a = Nil THEN b ELSE l[i].first
    /\ m[i].last = IF i = p /\ b = Nil THEN a ELSE l[i].last
    /\ m[i].prev = IF i = c THEN Nil ELSE IF i = b THEN a ELSE l[i].prev
    /\ m[i].next = IF i = c THEN Nil ELSE IF i = a THEN b ELSE l[i].next

\* Nil is a link and no slot.
LEMMA NilNoSlot == Nil \notin Slot /\ Slot \subseteq Link /\ Nil \in Link
  BY ArenaAssumption DEF Nil, Slot, Link

\* The steps of the five primitives: c gets its place; the link that leads to what comes after a, or
\* after the start of p, becomes v; so does the link that leads back from b, or from the end of p.
Spot(k, c, p, a, b) == [k EXCEPT ![c] = [@ EXCEPT !.parent = p, !.prev = a, !.next = b]]
Forth(k, p, a, v) ==
  IF a # Nil THEN [k EXCEPT ![a].next = v] ELSE IF p # Nil THEN [k EXCEPT ![p].first = v] ELSE k
Back(k, p, b, v) ==
  IF b # Nil THEN [k EXCEPT ![b].prev = v] ELSE IF p # Nil THEN [k EXCEPT ![p].last = v] ELSE k

\* What each of these steps does to the five links.
Spotted(k, m, c, p, a, b) ==
  \A i \in Slot : /\ m[i].parent = IF i = c THEN p ELSE k[i].parent
                  /\ m[i].prev = IF i = c THEN a ELSE k[i].prev
                  /\ m[i].next = IF i = c THEN b ELSE k[i].next
                  /\ m[i].first = k[i].first /\ m[i].last = k[i].last
Forthed(k, m, p, a, v) ==
  \A i \in Slot : /\ m[i].first = IF i = p /\ a = Nil THEN v ELSE k[i].first
                  /\ m[i].next = IF i = a THEN v ELSE k[i].next
                  /\ m[i].parent = k[i].parent /\ m[i].last = k[i].last
                  /\ m[i].prev = k[i].prev
Backed(k, m, p, b, v) ==
  \A i \in Slot : /\ m[i].last = IF i = p /\ b = Nil THEN v ELSE k[i].last
                  /\ m[i].prev = IF i = b THEN v ELSE k[i].prev
                  /\ m[i].parent = k[i].parent /\ m[i].first = k[i].first
                  /\ m[i].next = k[i].next

\* The steps do that.
LEMMA SpotFields ==
  ASSUME NEW k, Typed(k), NEW c \in Slot, NEW p \in Link, NEW a \in Link, NEW b \in Link
  PROVE  Typed(Spot(k, c, p, a, b)) /\ Spotted(k, Spot(k, c, p, a, b), c, p, a, b)
  BY DEF Typed, Spot, Spotted

\* What Forth writes, field by field.
LEMMA ForthFields ==
  ASSUME NEW k, Typed(k), NEW p \in Link, NEW a \in Link, NEW v \in Link
  PROVE  Typed(Forth(k, p, a, v)) /\ Forthed(k, Forth(k, p, a, v), p, a, v)
  <1>1. CASE a # Nil
    BY <1>1 DEF Forth, Forthed, Typed, Link
  <1>2. CASE a = Nil /\ p # Nil
    BY <1>2, NilNoSlot DEF Forth, Forthed, Typed, Link
  <1>3. CASE a = Nil /\ p = Nil
    BY <1>3, NilNoSlot DEF Forth, Forthed, Typed
  <1> QED
    BY <1>1, <1>2, <1>3

\* What Back writes, field by field.
LEMMA BackFields ==
  ASSUME NEW k, Typed(k), NEW p \in Link, NEW b \in Link, NEW v \in Link
  PROVE  Typed(Back(k, p, b, v)) /\ Backed(k, Back(k, p, b, v), p, b, v)
  <1>1. CASE b # Nil
    BY <1>1 DEF Back, Backed, Typed, Link
  <1>2. CASE b = Nil /\ p # Nil
    BY <1>2, NilNoSlot DEF Back, Backed, Typed, Link
  <1>3. CASE b = Nil /\ p = Nil
    BY <1>3, NilNoSlot DEF Back, Backed, Typed
  <1> QED
    BY <1>1, <1>2, <1>3

\* The steps of an insertion, in either order.
LEMMA Inserted ==
  ASSUME NEW l, Typed(l), NEW p \in Slot, NEW c \in Slot, NEW a \in Link, NEW b \in Link,
         c \notin {a, b}
  PROVE  /\ \E m : m = Back(Forth(Spot(l, c, p, a, b), p, a, c), p, b, c)
                   /\ Typed(m) /\ Joined(l, m, p, a, b, c)
         /\ \E m : m = Forth(Back(Spot(l, c, p, a, b), p, b, c), p, a, c)
                   /\ Typed(m) /\ Joined(l, m, p, a, b, c)
  <1>0. p \in Link /\ c \in Link /\ Nil \notin Slot
    BY NilNoSlot
  <1>1. PICK placed : placed = Spot(l, c, p, a, b)
    OBVIOUS
  <1>2. Typed(placed) /\ Spotted(l, placed, c, p, a, b)
    BY <1>0, <1>1, SpotFields
  <1>3. PICK m1, m2 : m1 = Forth(placed, p, a, c) /\ m2 = Back(m1, p, b, c)
    OBVIOUS
  <1>4. Typed(m1) /\ Forthed(placed, m1, p, a, c)
    BY <1>0, <1>2, <1>3, ForthFields
  <1>5. Typed(m2) /\ Backed(m1, m2, p, b, c)
    BY <1>0, <1>3, <1>4, BackFields
  <1>6. Joined(l, m2, p, a, b, c)
    BY <1>0, <1>2, <1>4, <1>5 DEF Spotted, Forthed, Backed, Joined
  <1>7. PICK n1, n2 : n1 = Back(placed, p, b, c) /\ n2 = Forth(n1, p, a, c)
    OBVIOUS
  <1>8. Typed(n1) /\ Backed(placed, n1, p, b, c)
    BY <1>0, <1>2, <1>7, BackFields
  <1>9. Typed(n2) /\ Forthed(n1, n2, p, a, c)
    BY <1>0, <1>7, <1>8, ForthFields
  <1>10. Joined(l, n2, p, a, b, c)
    BY <1>0, <1>2, <1>8, <1>9 DEF Spotted, Forthed, Backed, Joined
  <1> QED
    BY <1>1, <1>3, <1>5, <1>6, <1>7, <1>9, <1>10

\* The five primitives join a node to its place or part it from it.
LEMMA LinkLastJoins ==
  ASSUME NEW l, Typed(l), NEW p \in Slot, NEW c \in Slot, l[p].last # c
  PROVE  Typed(LinkLast(l, p, c)) /\ Joined(l, LinkLast(l, p, c), p, l[p].last, Nil, c)
  <1>0. l[p].last \in Link /\ Nil \notin Slot /\ Nil \in Link
    BY NilNoSlot DEF Typed
  <1>1. LinkLast(l, p, c) = Back(Forth(Spot(l, c, p, l[p].last, Nil), p, l[p].last, c), p, Nil, c)
    <2>1. CASE l[p].last = Nil
      BY <1>0, <2>1, Zenon DEF LinkLast, Forth, Back, Spot
    <2>2. CASE l[p].last # Nil
      BY <1>0, <2>2, Zenon DEF LinkLast, Forth, Back, Spot
    <2> QED BY <2>1, <2>2
  <1> QED
    BY <1>0, <1>1, Inserted

\* link_first puts c before the first child of p.
LEMMA LinkFirstJoins ==
  ASSUME NEW l, Typed(l), NEW p \in Slot, NEW c \in Slot, l[p].first # c
  PROVE  Typed(LinkFirst(l, p, c)) /\ Joined(l, LinkFirst(l, p, c), p, Nil, l[p].first, c)
  <1>0. l[p].first \in Link /\ Nil \notin Slot /\ Nil \in Link
    BY NilNoSlot DEF Typed
  <1>1. LinkFirst(l, p, c) = Forth(Back(Spot(l, c, p, Nil, l[p].first), p, l[p].first, c), p, Nil, c)
    <2>1. CASE l[p].first = Nil
      BY <1>0, <2>1, Zenon DEF LinkFirst, Forth, Back, Spot
    <2>2. CASE l[p].first # Nil
      BY <1>0, <2>2, Zenon DEF LinkFirst, Forth, Back, Spot
    <2> QED BY <2>1, <2>2
  <1> QED
    BY <1>0, <1>1, Inserted

\* link_before puts c between r and the sibling before it.
LEMMA LinkBeforeJoins ==
  ASSUME NEW l, Typed(l), NEW r \in Slot, NEW c \in Slot, r # c, l[r].parent # Nil, l[r].prev # c
  PROVE  Typed(LinkBefore(l, r, c)) /\ Joined(l, LinkBefore(l, r, c), l[r].parent, l[r].prev, r, c)
  <1> DEFINE p == l[r].parent
             a == l[r].prev
  <1>0. p \in Slot /\ p # Nil /\ a \in Link /\ r \in Link /\ Nil \notin Slot /\ Nil \in Link
    BY NilNoSlot DEF Typed, Link
  <1>1. LinkBefore(l, r, c) = Forth(Back(Spot(l, c, p, a, r), p, r, c), p, a, c)
    <2>1. CASE a = Nil
      BY <1>0, <2>1, Zenon DEF LinkBefore, Forth, Back, Spot
    <2>2. CASE a # Nil
      BY <1>0, <2>2, Zenon DEF LinkBefore, Forth, Back, Spot
    <2> QED BY <2>1, <2>2
  <1> QED
    BY <1>0, <1>1, Inserted

\* link_after puts c between r and the sibling after it.
LEMMA LinkAfterJoins ==
  ASSUME NEW l, Typed(l), NEW r \in Slot, NEW c \in Slot, r # c, l[r].parent # Nil, l[r].next # c
  PROVE  Typed(LinkAfter(l, r, c)) /\ Joined(l, LinkAfter(l, r, c), l[r].parent, r, l[r].next, c)
  <1> DEFINE p == l[r].parent
             b == l[r].next
  <1>0. p \in Slot /\ p # Nil /\ b \in Link /\ r \in Link /\ Nil \notin Slot /\ Nil \in Link
    BY NilNoSlot DEF Typed, Link
  <1>1. LinkAfter(l, r, c) = Back(Forth(Spot(l, c, p, r, b), p, r, c), p, b, c)
    <2>1. CASE b = Nil
      BY <1>0, <2>1, Zenon DEF LinkAfter, Forth, Back, Spot
    <2>2. CASE b # Nil
      BY <1>0, <2>2, Zenon DEF LinkAfter, Forth, Back, Spot
    <2> QED BY <2>1, <2>2
  <1> QED
    BY <1>0, <1>1, Inserted

\* unlink takes c out from between its siblings.
LEMMA UnlinkParts ==
  ASSUME NEW l, Typed(l), NEW c \in Slot, c \notin {l[c].prev, l[c].next}
  PROVE  Typed(Unlink(l, c)) /\ Parted(l, Unlink(l, c), l[c].parent, l[c].prev, l[c].next, c)
  <1> DEFINE p == l[c].parent
             a == l[c].prev
             b == l[c].next
  <1>0. p \in Link /\ a \in Link /\ b \in Link /\ Nil \notin Slot /\ Nil \in Link
    BY NilNoSlot DEF Typed
  <1>1. Unlink(l, c) = Spot(Back(Forth(l, p, a, b), p, b, a), c, Nil, Nil, Nil)
    BY Zenon DEF Unlink, Forth, Back, Spot
  <1> HIDE DEF p, a, b
  <1>2. PICK m1, m2, m3 : m1 = Forth(l, p, a, b) /\ m2 = Back(m1, p, b, a)
                          /\ m3 = Spot(m2, c, Nil, Nil, Nil)
    OBVIOUS
  <1>3. Typed(m1) /\ Forthed(l, m1, p, a, b)
    BY <1>0, <1>2, ForthFields
  <1>4. Typed(m2) /\ Backed(m1, m2, p, b, a)
    BY <1>0, <1>2, <1>3, BackFields
  <1>5. Typed(m3) /\ Spotted(m2, m3, c, Nil, Nil, Nil)
    BY <1>0, <1>2, <1>4, SpotFields
  <1>6. Parted(l, m3, p, a, b, c)
    BY <1>0, <1>3, <1>4, <1>5 DEF Spotted, Forthed, Backed, Parted, p, a, b
  <1> QED
    BY <1>1, <1>2, <1>5, <1>6 DEF p, a, b

-----------------------------------------------------------------------------
(* Links that are sound.                                                   *)

\* Following the link f never comes back: no set of slots is closed under it.
NoCycle(l, f) == \A W \in SUBSET Slot : W # {} => \E x \in W : l[x][f] \notin W

\* The first and the last child of i know that they are.
NearEnds(l, i) ==
  /\ l[i].first = Nil <=> l[i].last = Nil
  /\ l[i].first # Nil => l[l[i].first].parent = i /\ l[l[i].first].prev = Nil
  /\ l[i].last # Nil => l[l[i].last].parent = i /\ l[l[i].last].next = Nil

\* The nodes beside i know that they are, and so does the parent of a first or last child.
NearSides(l, i) ==
  /\ l[i].next # Nil => l[l[i].next].prev = i /\ l[l[i].next].parent = l[i].parent
  /\ l[i].prev # Nil => l[l[i].prev].next = i /\ l[l[i].prev].parent = l[i].parent
  /\ l[i].parent = Nil => l[i].prev = Nil /\ l[i].next = Nil
  /\ l[i].parent # Nil /\ l[i].prev = Nil => l[l[i].parent].first = i
  /\ l[i].parent # Nil /\ l[i].next = Nil => l[l[i].parent].last = i

\* Links of nodes lead to nodes.
Within(l, V) ==
  \A i \in V : /\ l[i].parent \in V \cup {Nil} /\ l[i].first \in V \cup {Nil}
               /\ l[i].last \in V \cup {Nil} /\ l[i].prev \in V \cup {Nil}
               /\ l[i].next \in V \cup {Nil}

\* The inductive invariant of the links: V are the nodes, X the texts among them.
Good(l, V, X) ==
  /\ Typed(l)
  /\ V \subseteq Slot /\ Root \in V /\ X \subseteq V \ {Root}
  /\ \A i \in Slot \ V : l[i] = Blank
  /\ Within(l, V)
  /\ \A i \in V : NearEnds(l, i) /\ NearSides(l, i)
  /\ \A i \in X : l[i].first = Nil
  /\ l[Root].parent = Nil
  /\ NoCycle(l, "parent") /\ NoCycle(l, "next")

\* Below p, a and b follow one another, Nil being the ends.
Between(l, V, p, a, b) ==
  /\ a \in V \cup {Nil} /\ b \in V \cup {Nil}
  /\ a # Nil => l[a].parent = p /\ l[a].next = b
  /\ b # Nil => l[b].parent = p /\ l[b].prev = a
  /\ a = Nil => l[p].first = b
  /\ b = Nil => l[p].last = a

\* A holds p and what is above it.
Above(l, A, p) == p \in A /\ A \subseteq Slot /\ \A x \in A : l[x].parent \in A \cup {Nil}

\* A node that is joined, and its new neighbours, agree.
LEMMA JoinedNear ==
  ASSUME NEW l, NEW V, NEW X, Good(l, V, X), NEW p \in V, NEW c \in V, c # p, l[c].parent = Nil,
         NEW a, NEW b, Between(l, V, p, a, b), NEW m, Joined(l, m, p, a, b, c), NEW i \in V
  PROVE  NearEnds(m, i) /\ NearSides(m, i)
  <1>0. /\ V \subseteq Slot /\ Nil \notin Slot /\ Within(l, V)
        /\ \A x \in V : NearEnds(l, x) /\ NearSides(l, x)
    BY NilNoSlot DEF Good
  <1>1. /\ \A x \in V : l[x].next # c /\ l[x].prev # c
        /\ l[c].prev = Nil /\ l[c].next = Nil /\ a # c /\ b # c
    <2>1. l[c].prev = Nil /\ l[c].next = Nil
      BY <1>0 DEF NearSides
    <2>2. ASSUME NEW x \in V PROVE l[x].next # c /\ l[x].prev # c
      BY <1>0, <2>1 DEF NearSides, Within
    <2>3. a # c /\ b # c
      BY <1>0 DEF Between
    <2> QED BY <2>1, <2>2, <2>3
  <1>2. \A x \in V : /\ l[x].first \in V \cup {Nil} /\ l[x].last \in V \cup {Nil}
                     /\ l[x].prev \in V \cup {Nil} /\ l[x].next \in V \cup {Nil}
                     /\ l[x].parent \in V \cup {Nil} /\ x # Nil
    BY <1>0 DEF Within
  <1>3. \A x \in V : l[x].first # c /\ l[x].last # c
    BY <1>0, <1>2 DEF NearEnds
  <1>4. NearEnds(m, i)
    <2>1. m[i].first = Nil <=> m[i].last = Nil
      BY <1>0, <1>1, <1>2 DEF NearEnds, Between, Joined
    <2>2. ASSUME m[i].first # Nil PROVE m[m[i].first].parent = i /\ m[m[i].first].prev = Nil
      BY <1>0, <1>1, <1>2, <1>3, <2>2 DEF NearEnds, Between, Joined
    <2>3. ASSUME m[i].last # Nil PROVE m[m[i].last].parent = i /\ m[m[i].last].next = Nil
      BY <1>0, <1>1, <1>2, <1>3, <2>3 DEF NearEnds, Between, Joined
    <2> QED BY <2>1, <2>2, <2>3 DEF NearEnds
  <1>5. NearSides(m, i)
    <2>1. ASSUME m[i].next # Nil PROVE m[m[i].next].prev = i /\ m[m[i].next].parent = m[i].parent
      BY <1>0, <1>1, <1>2, <1>3, <2>1 DEF NearSides, Between, Joined
    <2>2. ASSUME m[i].prev # Nil PROVE m[m[i].prev].next = i /\ m[m[i].prev].parent = m[i].parent
      BY <1>0, <1>1, <1>2, <1>3, <2>2 DEF NearSides, Between, Joined
    <2>3. m[i].parent = Nil => m[i].prev = Nil /\ m[i].next = Nil
      BY <1>0, <1>1, <1>2, <1>3 DEF NearSides, Between, Joined
    <2>4. m[i].parent # Nil /\ m[i].prev = Nil => m[m[i].parent].first = i
      BY <1>0, <1>1, <1>2, <1>3 DEF NearSides, Between, Joined
    <2>5. m[i].parent # Nil /\ m[i].next = Nil => m[m[i].parent].last = i
      BY <1>0, <1>1, <1>2, <1>3 DEF NearSides, Between, Joined
    <2> QED BY <2>1, <2>2, <2>3, <2>4, <2>5 DEF NearSides
  <1> QED BY <1>4, <1>5

\* Joining the root of a tree that p is not in keeps the links good.
LEMMA JoinedGood ==
  ASSUME NEW l, NEW V, NEW X, Good(l, V, X), NEW p \in V \ X,
         NEW c \in V \ {Root}, l[c].parent = Nil,
         NEW a, NEW b, Between(l, V, p, a, b), NEW A, Above(l, A, p), c \notin A,
         NEW m, Typed(m), Joined(l, m, p, a, b, c)
  PROVE  Good(m, V, X)
  <1>0. c # p /\ V \subseteq Slot /\ Nil \notin Slot /\ Root \in V /\ p \in Slot /\ c \in Slot
    BY NilNoSlot DEF Good, Above
  <1>1. \A i \in Slot \ V : m[i] = Blank
    <2> SUFFICES ASSUME NEW i \in Slot \ V PROVE m[i] = Blank
      OBVIOUS
    <2>1. i \notin {p, c, a, b} /\ l[i] = Blank
      BY <1>0 DEF Good, Between
    <2>2. /\ m[i].parent = Nil /\ m[i].first = Nil /\ m[i].last = Nil
          /\ m[i].prev = Nil /\ m[i].next = Nil
      BY <2>1 DEF Joined, Blank
    <2>3. m[i] \in [parent : Link, first : Link, last : Link, prev : Link, next : Link]
      BY DEF Typed
    <2> QED BY <2>2, <2>3 DEF Blank
  <1>2. Within(m, V)
    BY <1>0 DEF Good, Within, Joined, Between
  <1>3. \A i \in V : NearEnds(m, i) /\ NearSides(m, i)
    BY <1>0, JoinedNear
  <1>4. \A i \in X : m[i].first = Nil
    BY <1>0 DEF Good, Joined
  <1>5. m[Root].parent = Nil
    BY <1>0 DEF Good, Joined
  <1>6. NoCycle(m, "parent")
    <2> SUFFICES ASSUME NEW W \in SUBSET Slot, W # {}, \A x \in W : m[x].parent \in W PROVE FALSE
      BY DEF NoCycle
    <2>0. \A x \in W : l[x].parent = m[x].parent \/ x = c
      BY DEF Joined
    <2>1. CASE c \notin W
      BY <2>0, <2>1 DEF Good, NoCycle
    <2>2. CASE c \in W
      <3>1. p \in W
        BY <1>0, <2>2 DEF Joined
      <3>2. \A x \in W \cap A : l[x].parent \in W \cap A
        BY <1>0, <2>0 DEF Above
      <3>3. W \cap A # {}
        BY <3>1 DEF Above
      <3>4. \E x \in W \cap A : l[x]["parent"] \notin W \cap A
        BY <3>3 DEF Good, NoCycle
      <3> QED BY <3>2, <3>4
    <2> QED BY <2>1, <2>2
  <1>7. NoCycle(m, "next")
    <2> SUFFICES ASSUME NEW W \in SUBSET Slot, W # {}, \A x \in W : m[x].next \in W PROVE FALSE
      BY DEF NoCycle
    <2>0. \A x \in W : m[x].next = IF x = c THEN b ELSE IF x = a THEN c ELSE l[x].next
      BY DEF Joined
    <2>1. \A x \in Slot : l[x].next # c
      <3>1. \A x \in V : l[x].next # c
        BY <1>0 DEF Good, NearSides, Within
      <3>2. \A x \in Slot \ V : l[x].next # c
        BY <1>0 DEF Good, Blank
      <3> QED BY <3>1, <3>2
    <2>2. b # c /\ a # c /\ (a # Nil => l[a].next = b)
      BY <1>0 DEF Between
    <2>3. \A x \in W \ {c} : l[x].next \in W \ {c}
      BY <1>0, <2>0, <2>1, <2>2
    <2>4. W \ {c} # {}
      BY <1>0, <2>0, <2>2
    <2>5. \E x \in W \ {c} : l[x]["next"] \notin W \ {c}
      BY <2>4 DEF Good, NoCycle
    <2> QED BY <2>3, <2>5
  <1> QED
    BY <1>1, <1>2, <1>3, <1>4, <1>5, <1>6, <1>7 DEF Good

\* Nobody is beside itself.
LEMMA NotBeside ==
  ASSUME NEW l, NEW V, NEW X, Good(l, V, X), NEW c \in V
  PROVE  l[c].next # c /\ l[c].prev # c
  <1>1. c \in Slot /\ {c} # {} /\ c # Nil
    BY NilNoSlot DEF Good
  <1>2. \E x \in {c} : l[x]["next"] \notin {c}
    BY <1>1 DEF Good, NoCycle
  <1>3. NearSides(l, c)
    BY DEF Good
  <1> QED
    BY <1>1, <1>2, <1>3 DEF NearSides

\* The neighbours of a node that is parted agree.
LEMMA PartedNear ==
  ASSUME NEW l, NEW V, NEW X, Good(l, V, X), NEW c \in V,
         NEW m, Parted(l, m, l[c].parent, l[c].prev, l[c].next, c), NEW i \in V
  PROVE  NearEnds(m, i) /\ NearSides(m, i)
  <1> DEFINE p == l[c].parent
             a == l[c].prev
             b == l[c].next
  <1>0. /\ V \subseteq Slot /\ Nil \notin Slot
        /\ \A x \in V : NearEnds(l, x) /\ NearSides(l, x)
        /\ \A x \in V : /\ l[x].first \in V \cup {Nil} /\ l[x].last \in V \cup {Nil}
                        /\ l[x].prev \in V \cup {Nil} /\ l[x].next \in V \cup {Nil}
                        /\ l[x].parent \in V \cup {Nil} /\ x # Nil
    BY NilNoSlot DEF Good, Within
  <1>1. /\ a # c /\ b # c
        /\ a # Nil => l[a].next = c /\ l[a].parent = p
        /\ b # Nil => l[b].prev = c /\ l[b].parent = p
        /\ p = Nil => a = Nil /\ b = Nil
        /\ p # Nil /\ a = Nil => l[p].first = c
        /\ p # Nil /\ b = Nil => l[p].last = c
    BY <1>0, NotBeside DEF NearSides
  <1>2. \A x \in V : /\ l[x].next = c => x = a
                     /\ l[x].prev = c => x = b
                     /\ l[x].first = c => x = p /\ a = Nil
                     /\ l[x].last = c => x = p /\ b = Nil
    BY <1>0 DEF NearSides, NearEnds
  <1>3. a \in V \cup {Nil} /\ b \in V \cup {Nil} /\ p \in V \cup {Nil}
    BY <1>0
  <1>4. \A x \in V :
      /\ m[x].parent = IF x = c THEN Nil ELSE l[x].parent
      /\ m[x].first = IF x = p /\ a = Nil THEN b ELSE l[x].first
      /\ m[x].last = IF x = p /\ b = Nil THEN a ELSE l[x].last
      /\ m[x].prev = IF x = c THEN Nil ELSE IF x = b THEN a ELSE l[x].prev
      /\ m[x].next = IF x = c THEN Nil ELSE IF x = a THEN b ELSE l[x].next
    BY <1>0 DEF Parted
  <1> HIDE DEF a, b, p
  <1>5. NearEnds(m, i)
    <2>1. m[i].first = Nil <=> m[i].last = Nil
      BY <1>0, <1>1, <1>3, <1>4 DEF NearEnds
    <2>2. ASSUME m[i].first # Nil PROVE m[m[i].first].parent = i /\ m[m[i].first].prev = Nil
      BY <1>0, <1>1, <1>2, <1>3, <1>4, <2>2 DEF NearEnds
    <2>3. ASSUME m[i].last # Nil PROVE m[m[i].last].parent = i /\ m[m[i].last].next = Nil
      BY <1>0, <1>1, <1>2, <1>3, <1>4, <2>3 DEF NearEnds
    <2> QED BY <2>1, <2>2, <2>3 DEF NearEnds
  <1>6. NearSides(m, i)
    <2>1. ASSUME m[i].next # Nil PROVE m[m[i].next].prev = i /\ m[m[i].next].parent = m[i].parent
      BY <1>0, <1>1, <1>2, <1>3, <1>4, <2>1 DEF NearSides
    <2>2. ASSUME m[i].prev # Nil PROVE m[m[i].prev].next = i /\ m[m[i].prev].parent = m[i].parent
      BY <1>0, <1>1, <1>2, <1>3, <1>4, <2>2 DEF NearSides
    <2>3. m[i].parent = Nil => m[i].prev = Nil /\ m[i].next = Nil
      BY <1>0, <1>1, <1>2, <1>3, <1>4 DEF NearSides
    <2>4. m[i].parent # Nil /\ m[i].prev = Nil => m[m[i].parent].first = i
      BY <1>0, <1>1, <1>2, <1>3, <1>4 DEF NearSides
    <2>5. m[i].parent # Nil /\ m[i].next = Nil => m[m[i].parent].last = i
      BY <1>0, <1>1, <1>2, <1>3, <1>4 DEF NearSides
    <2> QED BY <2>1, <2>2, <2>3, <2>4, <2>5 DEF NearSides
  <1> QED BY <1>5, <1>6

\* Unlinking keeps the links good.
LEMMA UnlinkGood ==
  ASSUME NEW l, NEW V, NEW X, Good(l, V, X), NEW c \in V
  PROVE  /\ Good(Unlink(l, c), V, X)
         /\ Parted(l, Unlink(l, c), l[c].parent, l[c].prev, l[c].next, c)
  <1> DEFINE p == l[c].parent
             a == l[c].prev
             b == l[c].next
  <1>0. /\ V \subseteq Slot /\ Nil \notin Slot /\ Root \in V /\ c \in Slot
        /\ a \in V \cup {Nil} /\ b \in V \cup {Nil} /\ p \in V \cup {Nil}
        /\ Typed(l) /\ a # c /\ b # c
        /\ a # Nil => l[a].next = c
    <2>1. a # c /\ b # c
      BY NotBeside
    <2>2. NearSides(l, c)
      BY DEF Good
    <2> QED BY <2>1, <2>2, NilNoSlot DEF Good, Within, NearSides
  <1>1. PICK m : m = Unlink(l, c)
    OBVIOUS
  <1>2. Typed(m) /\ Parted(l, m, p, a, b, c)
    BY <1>0, <1>1, UnlinkParts
  <1>3. \A i \in V : NearEnds(m, i) /\ NearSides(m, i)
    BY <1>2, PartedNear
  <1>4. \A i \in Slot \ V : m[i] = Blank
    <2> SUFFICES ASSUME NEW i \in Slot \ V PROVE m[i] = Blank
      OBVIOUS
    <2>1. i \notin {p, c, a, b} /\ l[i] = Blank
      BY <1>0 DEF Good
    <2> HIDE DEF p, a, b
    <2>2. /\ m[i].parent = Nil /\ m[i].first = Nil /\ m[i].last = Nil
          /\ m[i].prev = Nil /\ m[i].next = Nil
      BY <1>2, <2>1 DEF Parted, Blank
    <2>3. m[i] \in [parent : Link, first : Link, last : Link, prev : Link, next : Link]
      BY <1>2 DEF Typed
    <2> QED BY <2>2, <2>3 DEF Blank
  <1>5. \A i \in X : l[i].first = Nil /\ i \in V
    BY DEF Good
  <1>6. p # Nil /\ a = Nil => p \notin X
    <2>1. NearSides(l, c)
      BY DEF Good
    <2> QED BY <1>0, <1>5, <2>1 DEF NearSides
  <1>7. Within(l, V) /\ l[Root].parent = Nil
    BY DEF Good
  <1> HIDE DEF p, a, b
  <1>8. Within(m, V) /\ (\A i \in X : m[i].first = Nil) /\ m[Root].parent = Nil
    <2>1. Within(m, V)
      BY <1>0, <1>2, <1>7 DEF Within, Parted
    <2>2. \A i \in X : m[i].first = Nil
      BY <1>0, <1>2, <1>5, <1>6 DEF Parted
    <2>3. m[Root].parent = Nil
      BY <1>0, <1>2, <1>7 DEF Parted
    <2> QED BY <2>1, <2>2, <2>3
  <1>9. NoCycle(m, "parent")
    <2> SUFFICES ASSUME NEW W \in SUBSET Slot, W # {}, \A x \in W : m[x].parent \in W PROVE FALSE
      BY DEF NoCycle
    <2>1. \A x \in W : l[x].parent \in W
      BY <1>0, <1>2 DEF Parted
    <2> QED BY <2>1 DEF Good, NoCycle
  <1>10. NoCycle(m, "next")
    <2> SUFFICES ASSUME NEW W \in SUBSET Slot, W # {}, \A x \in W : m[x].next \in W PROVE FALSE
      BY DEF NoCycle
    <2>0. \A x \in W : m[x].next = IF x = c THEN Nil ELSE IF x = a THEN b ELSE l[x].next
      BY <1>2 DEF Parted
    <2>1. c \notin W
      BY <1>0, <2>0
    <2>2. CASE a \notin W
      <3>1. \A x \in W : l[x].next \in W
        BY <2>0, <2>1, <2>2
      <3> QED BY <3>1 DEF Good, NoCycle
    <2>3. CASE a \in W
      <3>0. b \in W /\ l[c].next = b /\ l[a].next = c
        BY <1>0, <2>0, <2>1, <2>3 DEF b
      <3>1. \A x \in W \cup {c} : l[x].next \in W \cup {c}
        BY <2>0, <2>1, <3>0
      <3>2. \E x \in W \cup {c} : l[x]["next"] \notin W \cup {c}
        BY <1>0 DEF Good, NoCycle
      <3> QED BY <3>1, <3>2
    <2> QED BY <2>2, <2>3
  <1>11. Good(m, V, X)
    BY <1>0, <1>2, <1>3, <1>4, <1>8, <1>9, <1>10 DEF Good
  <1> QED
    BY <1>1, <1>2, <1>11 DEF p, a, b

\* A node with a child has a first one, so it is no text.
LEMMA HasFirst ==
  ASSUME NEW l, NEW V, NEW X, Good(l, V, X), NEW c \in V, l[c].parent # Nil
  PROVE  l[l[c].parent].first # Nil /\ l[c].parent \in V \ X
  <1> DEFINE p == l[c].parent
             W == {x \in V : l[x].parent = p}
  <1>1. p \in V /\ c \in W
    BY DEF Good, Within
  <1>2. l[p].first # Nil
    <2> SUFFICES ASSUME l[p].first = Nil PROVE FALSE
      OBVIOUS
    <2>1. l[p].last = Nil
      BY <1>1 DEF Good, NearEnds
    <2>2. ASSUME NEW x \in W PROVE l[x].next \in W
      <3>1. NearSides(l, x) /\ x # Nil /\ l[x].next \in V \cup {Nil}
        BY NilNoSlot DEF Good, Within
      <3>2. l[x].next # Nil
        BY <2>1, <3>1 DEF NearSides
      <3> QED BY <3>1, <3>2 DEF NearSides
    <2>3. W \in SUBSET Slot
      BY DEF Good
    <2>4. \E x \in W : l[x]["next"] \notin W
      <3> HIDE DEF W
      <3> QED BY <1>1, <2>3 DEF Good, NoCycle
    <2> QED BY <2>2, <2>4
  <1> QED
    BY <1>1, <1>2 DEF Good

\* A set of nodes that no other node is linked with can be erased.
LEMMA EraseGood ==
  ASSUME NEW l, NEW V, NEW X, Good(l, V, X), NEW S \in SUBSET V, Root \notin S,
         \A x \in S : l[x].parent \in S \cup {Nil}, \A x \in V : l[x].parent \in S => x \in S
  PROVE  Good(Erase(l, S), V \ S, X \ S)
  <1> DEFINE m == Erase(l, S)
  <1>0. /\ V \subseteq Slot /\ Nil \notin Slot
        /\ \A x \in V : /\ l[x].first \in V \cup {Nil} /\ l[x].last \in V \cup {Nil}
                        /\ l[x].prev \in V \cup {Nil} /\ l[x].next \in V \cup {Nil}
                        /\ l[x].parent \in V \cup {Nil} /\ x # Nil
    BY NilNoSlot DEF Good, Within
  <1>1. \A x \in Slot : m[x] = IF x \in S THEN Blank ELSE l[x]
    BY DEF Erase
  <1>2. Typed(m)
    <2>1. Blank \in [parent : Link, first : Link, last : Link, prev : Link, next : Link]
      BY NilNoSlot DEF Blank
    <2> QED BY <1>0, <2>1 DEF Erase, Good, Typed
  <1>3. \A x \in V \ S : /\ l[x].parent \notin S /\ l[x].first \notin S /\ l[x].last \notin S
                         /\ l[x].prev \notin S /\ l[x].next \notin S
    <2> SUFFICES ASSUME NEW x \in V \ S
                 PROVE  /\ l[x].parent \notin S /\ l[x].first \notin S /\ l[x].last \notin S
                        /\ l[x].prev \notin S /\ l[x].next \notin S
      OBVIOUS
    <2>1. NearEnds(l, x) /\ NearSides(l, x) /\ x # Nil
      BY <1>0 DEF Good
    <2>2. l[x].parent \notin S
      OBVIOUS
    <2>3. l[x].first \notin S /\ l[x].last \notin S
      BY <1>0, <2>1 DEF NearEnds
    <2>4. l[x].prev \notin S /\ l[x].next \notin S
      BY <1>0, <2>1, <2>2 DEF NearSides
    <2> QED BY <2>2, <2>3, <2>4
  <1>4. \A x \in V \ S : m[x] = l[x]
    BY <1>0, <1>1
  <1> HIDE DEF m
  <1>5. Within(m, V \ S)
    BY <1>0, <1>3, <1>4 DEF Within
  <1>6. \A x \in V \ S : NearEnds(m, x) /\ NearSides(m, x)
    <2> SUFFICES ASSUME NEW x \in V \ S PROVE NearEnds(m, x) /\ NearSides(m, x)
      OBVIOUS
    <2>1. NearEnds(l, x) /\ NearSides(l, x)
      BY DEF Good
    <2>2. m[x] = l[x]
      BY <1>4
    <2>3. /\ l[x].first # Nil => m[l[x].first] = l[l[x].first]
          /\ l[x].last # Nil => m[l[x].last] = l[l[x].last]
          /\ l[x].prev # Nil => m[l[x].prev] = l[l[x].prev]
          /\ l[x].next # Nil => m[l[x].next] = l[l[x].next]
          /\ l[x].parent # Nil => m[l[x].parent] = l[l[x].parent]
      BY <1>0, <1>3, <1>4
    <2> QED BY <2>1, <2>2, <2>3 DEF NearEnds, NearSides
  <1>7. ASSUME NEW f \in {"parent", "next"} PROVE NoCycle(m, f)
    <2> SUFFICES ASSUME NEW W \in SUBSET Slot, W # {}, \A x \in W : m[x][f] \in W PROVE FALSE
      BY DEF NoCycle
    <2>1. \A x \in W : x \notin S
      BY <1>0, <1>1 DEF Blank, m
    <2>2. \A x \in W : l[x][f] \in W
      BY <1>1, <2>1 DEF m
    <2>3. NoCycle(l, f)
      BY <1>7 DEF Good
    <2> QED BY <2>2, <2>3 DEF NoCycle
  <1>8. \A i \in Slot \ (V \ S) : m[i] = Blank
    BY <1>1 DEF Good, m
  <1>9. /\ \A i \in X \ S : m[i].first = Nil
        /\ m[Root].parent = Nil
    BY <1>4 DEF Good
  <1>10. Good(m, V \ S, X \ S)
    BY <1>0, <1>2, <1>5, <1>6, <1>7, <1>8, <1>9 DEF Good
  <1> QED
    BY <1>10 DEF m

\* A new node without links.
LEMMA AddedGood ==
  ASSUME NEW l, NEW V, NEW X, Good(l, V, X), NEW i \in Slot \ V, NEW Y \in SUBSET {i}
  PROVE  Good(l, V \cup {i}, X \cup Y)
  <1>1. l[i] = Blank
    BY DEF Good
  <1>2. NearEnds(l, i) /\ NearSides(l, i)
    BY <1>1 DEF NearEnds, NearSides, Blank
  <1>3. Within(l, V \cup {i})
    BY <1>1 DEF Good, Within, Blank
  <1>4. \A x \in X \cup Y : l[x].first = Nil
    BY <1>1 DEF Good, Blank
  <1> QED
    BY <1>2, <1>3, <1>4 DEF Good

-----------------------------------------------------------------------------
(* Walks.                                                                  *)

\* Induction over the natural numbers, for sets: the properties are written as sets.
LEMMA LeastNat ==
  ASSUME NEW T \in SUBSET Nat, T # {}
  PROVE  \E x \in T : \A y \in T : x <= y
  <1> DEFINE R == {ss \in Nat \X Nat : ss[1] < ss[2]}
  <1>1. IsWellFoundedOn(R, Nat)
    BY NatLessThanWellFounded DEF OpToRel
  <1>2. PICK x \in T : \A y \in T : ~ (<<y, x>> \in R)
    <2> HIDE DEF R
    <2> QED
      BY <1>1, WFMin, Zenon
  <1>3. ASSUME NEW y \in T PROVE x <= y
    <2>1. x \in Nat /\ y \in Nat
      OBVIOUS
    <2>2. y < x => <<y, x>> \in R
      BY <2>1
    <2> QED BY <1>2, <2>1, <2>2
  <1> QED
    BY <1>3

\* What holds of 0 and passes on to the next number holds of all.
LEMMA Induction ==
  ASSUME NEW S, 0 \in S, \A n \in Nat : n \in S => n + 1 \in S
  PROVE  Nat \subseteq S
  <1> SUFFICES ASSUME Nat \ S # {} PROVE FALSE
    OBVIOUS
  <1>1. PICK x \in Nat \ S : \A y \in Nat \ S : x <= y
    <2> DEFINE T == Nat \ S
    <2>1. T \in SUBSET Nat /\ T # {}
      OBVIOUS
    <2> HIDE DEF T
    <2>2. \E x \in T : \A y \in T : x <= y
      BY <2>1, LeastNat
    <2> QED BY <2>2 DEF T
  <1>2. x # 0
    OBVIOUS
  <1>3. x - 1 \in Nat /\ x - 1 \notin Nat \ S
    BY <1>1, <1>2
  <1> QED
    BY <1>1, <1>3

\* One step of a walk, and the walk of N steps from i.
StepOn(l, f, x) == IF x = Nil THEN Nil ELSE l[x][f]

IsWalk(at, N, l, i, f) == at = [n \in 0..N |-> IF n = 0 THEN i ELSE StepOn(l, f, at[n - 1])]

\* There is such a walk, so Steps is one.
LEMMA StepsExist ==
  ASSUME NEW l, NEW i, NEW f, NEW N \in Nat
  PROVE  \E at : IsWalk(at, N, l, i, f)
  <1> DEFINE S == {m \in Nat : \E at : IsWalk(at, m, l, i, f)}
  <1>1. 0 \in S
    <2> DEFINE g == [n \in 0..0 |-> i]
    <2>1. IsWalk(g, 0, l, i, f)
      BY DEF IsWalk
    <2> QED BY <2>1
  <1>2. ASSUME NEW m \in Nat, m \in S PROVE m + 1 \in S
    <2>1. PICK g : IsWalk(g, m, l, i, f)
      BY <1>2
    <2> DEFINE h == [n \in 0..(m + 1) |-> IF n <= m THEN g[n] ELSE StepOn(l, f, g[m])]
    <2>2. ASSUME NEW n \in 0..(m + 1) PROVE h[n] = IF n = 0 THEN i ELSE StepOn(l, f, h[n - 1])
      <3>1. CASE n <= m
        <4>1. h[n] = g[n] /\ g[n] = IF n = 0 THEN i ELSE StepOn(l, f, g[n - 1])
          BY <2>1, <3>1 DEF IsWalk
        <4>2. n # 0 => h[n - 1] = g[n - 1]
          BY <3>1
        <4> QED BY <4>1, <4>2
      <3>2. CASE n = m + 1
        BY <3>2
      <3> QED BY <3>1, <3>2
    <2>3. IsWalk(h, m + 1, l, i, f)
      BY <2>2 DEF IsWalk
    <2> QED BY <2>3
  <1>3. Nat \subseteq S
    <2> HIDE DEF S
    <2> QED BY <1>1, <1>2, Induction
  <1> QED BY <1>3

\* Steps is a walk.
LEMMA StepsAre ==
  ASSUME NEW l, NEW i, NEW f, NEW at, at = Steps(l, i, f)
  PROVE  IsWalk(at, Capacity, l, i, f)
  <1>1. Capacity \in Nat
    BY ArenaAssumption
  <1>2. \E g : IsWalk(g, Capacity, l, i, f)
    BY <1>1, StepsExist
  <1> QED
    BY <1>2 DEF Steps, StepOn, IsWalk

\* There are Capacity slots.
LEMMA SlotsCount == IsFiniteSet(Slot) /\ Cardinality(Slot) = Capacity /\ Capacity \in Nat \ {0}
  <1>1. Capacity \in Nat \ {0}
    BY ArenaAssumption
  <1>2. IsFiniteSet(0..(Capacity - 1)) /\ Cardinality(0..(Capacity - 1)) = Capacity
    BY <1>1, FS_Interval
  <1> QED
    BY <1>1, <1>2 DEF Slot

\* What a walk is good for.
Walked(at, l, i, f) ==
  /\ at \in [0..Capacity -> Link]
  /\ at[0] = i
  /\ \A n \in 1..Capacity : at[n] = StepOn(l, f, at[n - 1])

\* A walk stays among the links, and stops for good at Nil.
LEMMA WalkTyped ==
  ASSUME NEW l, Typed(l), NEW i \in Link, NEW f \in {"parent", "next", "last"},
         NEW at, IsWalk(at, Capacity, l, i, f)
  PROVE  Walked(at, l, i, f)
  <1>0. Capacity \in Nat /\ Nil \in Link
    BY SlotsCount, NilNoSlot
  <1>1. at[0] = i /\ \A n \in 1..Capacity : at[n] = StepOn(l, f, at[n - 1])
    BY <1>0 DEF IsWalk
  <1>2. \A x \in Link : StepOn(l, f, x) \in Link
    BY <1>0 DEF StepOn, Typed, Link
  <1> DEFINE S == {m \in Nat : m <= Capacity => at[m] \in Link}
  <1>3. 0 \in S
    BY <1>1
  <1>4. ASSUME NEW m \in Nat, m \in S PROVE m + 1 \in S
    <2>1. CASE m + 1 <= Capacity
      <3>1. at[m] \in Link /\ m + 1 \in 1..Capacity /\ (m + 1) - 1 = m
        BY <1>0, <1>4, <2>1
      <3>2. at[m + 1] = StepOn(l, f, at[m])
        BY <1>1, <3>1
      <3> QED BY <1>2, <3>1, <3>2
    <2> QED BY <2>1
  <1>5. Nat \subseteq S
    <2> HIDE DEF S
    <2> QED BY <1>3, <1>4, Induction
  <1>6. \A n \in 0..Capacity : at[n] \in Link
    BY <1>0, <1>5
  <1> QED
    BY <1>1, <1>6 DEF IsWalk, Walked

\* A walk that does not come back has left the slots after Capacity steps.
LEMMA WalkEnds ==
  ASSUME NEW l, Typed(l), NEW f \in {"parent", "next", "last"}, NoCycle(l, f), NEW i \in Link,
         NEW at, IsWalk(at, Capacity, l, i, f)
  PROVE  at[Capacity] = Nil
  <1>0. /\ Capacity \in Nat /\ at \in [0..Capacity -> Link]
        /\ \A n \in 1..Capacity : at[n] = StepOn(l, f, at[n - 1])
    BY SlotsCount, WalkTyped DEF Walked
  <1> SUFFICES ASSUME at[Capacity] # Nil PROVE FALSE
    OBVIOUS
  <1> DEFINE S == {m \in Nat : m <= Capacity => at[Capacity - m] # Nil}
  <1>1. 0 \in S
    BY <1>0
  <1>2. ASSUME NEW m \in Nat, m \in S PROVE m + 1 \in S
    <2>1. CASE m + 1 <= Capacity
      <3>1. at[Capacity - m] # Nil /\ Capacity - m \in 1..Capacity
            /\ (Capacity - m) - 1 = Capacity - (m + 1)
        BY <1>0, <1>2, <2>1
      <3>2. at[Capacity - m] = StepOn(l, f, at[Capacity - (m + 1)])
        BY <1>0, <3>1
      <3> QED BY <3>1, <3>2 DEF StepOn
    <2> QED BY <2>1
  <1>3. Nat \subseteq S
    <2> HIDE DEF S
    <2> QED BY <1>1, <1>2, Induction
  <1>4. ASSUME NEW n \in 0..Capacity PROVE at[n] \in Slot
    <2>1. Capacity - n \in Nat /\ Capacity - (Capacity - n) = n /\ Capacity - n <= Capacity
      BY <1>0
    <2>2. at[n] # Nil
      BY <1>3, <2>1
    <2> QED BY <1>0, <2>2 DEF Link
  <1>5. at \in [0..Capacity -> Slot]
    BY <1>0, <1>4
  <1>6. IsFiniteSet(0..Capacity) /\ Cardinality(0..Capacity) = Capacity + 1
    BY <1>0, FS_Interval
  <1>7. \E x, y \in 0..Capacity : x # y /\ at[x] = at[y]
    <2>1. IsFiniteSet(Slot) /\ Cardinality(Slot) < Cardinality(0..Capacity)
      BY <1>0, <1>6, SlotsCount
    <2> QED BY <1>5, <1>6, <2>1, FS_PigeonHole, Zenon
  <1>8. PICK a, b \in 0..Capacity : a < b /\ at[a] = at[b]
    <2>1. PICK x, y \in 0..Capacity : x # y /\ at[x] = at[y]
      BY <1>7
    <2> QED BY <2>1
  <1> DEFINE W == {at[n] : n \in a..(b - 1)}
  <1>9. W \in SUBSET Slot /\ at[a] \in W
    <2>1. a..(b - 1) \subseteq 0..Capacity /\ a \in a..(b - 1)
      BY <1>0, <1>8
    <2> QED BY <1>4, <2>1
  <1>10. ASSUME NEW x \in W PROVE l[x][f] \in W
    <2>1. PICK n \in a..(b - 1) : x = at[n]
      OBVIOUS
    <2>2. n + 1 \in 1..Capacity /\ (n + 1) - 1 = n /\ n \in 0..Capacity
      BY <1>0, <2>1
    <2>3. at[n + 1] = StepOn(l, f, x)
      BY <1>0, <2>1, <2>2
    <2>4. x # Nil
      BY <1>4, <2>1, <2>2, NilNoSlot
    <2>5. l[x][f] = at[n + 1]
      BY <2>3, <2>4 DEF StepOn
    <2>6. CASE n + 1 = b
      BY <1>8, <1>9, <2>5, <2>6
    <2>7. CASE n + 1 # b
      <3>1. n + 1 \in a..(b - 1)
        BY <2>1, <2>7
      <3> QED BY <2>5, <3>1
    <2> QED BY <2>6, <2>7
  <1> QED
    <2> HIDE DEF W
    <2> QED BY <1>9, <1>10 DEF NoCycle

\* The trail from i: i, and with a slot what its link leads to.
LEMMA TrailClosed ==
  ASSUME NEW l, Typed(l), NEW f \in {"parent", "next", "last"}, NoCycle(l, f), NEW i \in Link
  PROVE  /\ Trail(l, i, f) \subseteq Slot
         /\ i # Nil => i \in Trail(l, i, f)
         /\ \A x \in Trail(l, i, f) : l[x][f] \in Trail(l, i, f) \cup {Nil}
  <1>1. PICK at : at = Steps(l, i, f)
    OBVIOUS
  <1>2. IsWalk(at, Capacity, l, i, f)
    BY <1>1, StepsAre
  <1>3. /\ Capacity \in Nat /\ at \in [0..Capacity -> Link] /\ at[0] = i
        /\ \A n \in 1..Capacity : at[n] = StepOn(l, f, at[n - 1])
    <2>1. Walked(at, l, i, f)
      BY <1>2, WalkTyped
    <2> QED BY <2>1, SlotsCount DEF Walked
  <1>4. at[Capacity] = Nil
    BY <1>2, WalkEnds
  <1>5. Trail(l, i, f) = {at[n] : n \in 0..Capacity} \ {Nil}
    BY <1>1, <1>3 DEF Trail, ToSet
  <1>6. ASSUME NEW x \in Trail(l, i, f) PROVE l[x][f] \in Trail(l, i, f) \cup {Nil}
    <2>1. PICK n \in 0..Capacity : x = at[n] /\ x # Nil
      BY <1>5
    <2>2. n + 1 \in 1..Capacity /\ (n + 1) - 1 = n
      BY <1>3, <1>4, <2>1
    <2>3. at[n + 1] = l[x][f]
      BY <1>3, <2>1, <2>2 DEF StepOn
    <2> QED BY <1>5, <2>2, <2>3
  <1>7. i # Nil => i \in Trail(l, i, f)
    BY <1>3, <1>5
  <1>8. Trail(l, i, f) \subseteq Slot
    BY <1>3, <1>5 DEF Link
  <1> QED
    BY <1>6, <1>7, <1>8

\* The walk from the first child of x goes through children of x, each behind the one before.
LEMMA WalkOfKids ==
  ASSUME NEW l, NEW V, NEW X, Good(l, V, X), NEW x \in V,
         NEW at, Walked(at, l, l[x].first, "next")
  PROVE  \A n \in 0..Capacity :
            at[n] = Nil \/ /\ at[n] \in V /\ l[at[n]].parent = x
                           /\ l[at[n]].prev = IF n = 0 THEN Nil ELSE at[n - 1]
  <1>0. /\ V \subseteq Slot /\ Nil \notin Slot /\ l[x].first \in V \cup {Nil}
        /\ \A y \in V : NearSides(l, y) /\ l[y].next \in V \cup {Nil}
        /\ NearEnds(l, x)
        /\ Capacity \in Nat /\ at[0] = l[x].first
        /\ \A n \in 1..Capacity : at[n] = StepOn(l, "next", at[n - 1])
    BY NilNoSlot, SlotsCount DEF Good, Within, Walked
  <1> DEFINE Kid(n) == /\ at[n] \in V /\ l[at[n]].parent = x
                       /\ l[at[n]].prev = IF n = 0 THEN Nil ELSE at[n - 1]
             S == {m \in Nat : m <= Capacity => at[m] = Nil \/ Kid(m)}
  <1>1. 0 \in S
    BY <1>0 DEF NearEnds
  <1>2. ASSUME NEW m \in Nat, m \in S PROVE m + 1 \in S
    <2>1. CASE m + 1 <= Capacity
      <3>1. m + 1 \in 1..Capacity /\ (m + 1) - 1 = m /\ m <= Capacity /\ m + 1 # 0
        BY <1>0, <2>1
      <3>2. at[m + 1] = StepOn(l, "next", at[m])
        BY <1>0, <3>1
      <3>3. at[m] = Nil \/ (at[m] \in V /\ l[at[m]].parent = x)
        BY <1>2, <3>1
      <3>4. CASE at[m] = Nil
        BY <3>2, <3>4 DEF StepOn
      <3>5. CASE at[m] # Nil /\ l[at[m]].next = Nil
        BY <3>2, <3>5 DEF StepOn
      <3>6. CASE at[m] # Nil /\ l[at[m]].next # Nil
        <4>1. at[m + 1] = l[at[m]].next /\ at[m + 1] \in V
          BY <1>0, <3>2, <3>3, <3>6 DEF StepOn
        <4>2. l[at[m + 1]].parent = x /\ l[at[m + 1]].prev = at[m]
          BY <1>0, <3>3, <3>6, <4>1 DEF NearSides
        <4> QED BY <3>1, <4>1, <4>2
      <3> QED BY <3>4, <3>5, <3>6
    <2> QED BY <2>1
  <1>3. Nat \subseteq S
    <2> HIDE DEF S
    <2> QED BY <1>1, <1>2, Induction
  <1> QED
    BY <1>0, <1>3

\* The trail from the first child of x: the children of x.
LEMMA TrailOfKids ==
  ASSUME NEW l, NEW V, NEW X, Good(l, V, X), NEW x \in V
  PROVE  Trail(l, l[x].first, "next") = {y \in V : l[y].parent = x}
  <1> DEFINE first == l[x].first
  <1>0. /\ V \subseteq Slot /\ Nil \notin Slot /\ Typed(l) /\ first \in Link
        /\ x # Nil /\ NoCycle(l, "next") /\ "next" \in {"parent", "next", "last"}
        /\ \A y \in V : NearSides(l, y) /\ l[y].next \in V \cup {Nil}
        /\ NearEnds(l, x)
    BY NilNoSlot DEF Good, Within, Link
  <1>1. PICK T : T = Trail(l, first, "next")
    OBVIOUS
  <1>2. T \subseteq Slot /\ (first # Nil => first \in T) /\ \A y \in T : l[y].next \in T \cup {Nil}
    <2>1. /\ Trail(l, first, "next") \subseteq Slot
          /\ first # Nil => first \in Trail(l, first, "next")
          /\ \A y \in Trail(l, first, "next") : l[y]["next"] \in Trail(l, first, "next") \cup {Nil}
      BY <1>0, TrailClosed
    <2> QED BY <1>1, <2>1
  <1>3. \A y \in T : y \in V /\ l[y].parent = x /\ l[y].prev \in T \cup {Nil}
    <2>1. PICK at : at = Steps(l, first, "next")
      OBVIOUS
    <2>2. IsWalk(at, Capacity, l, first, "next")
      BY <2>1, StepsAre
    <2>3. Walked(at, l, first, "next")
      BY <1>0, <2>2, WalkTyped
    <2>4. T = {at[n] : n \in 0..Capacity} \ {Nil}
      BY <1>1, <2>1, <2>3 DEF Trail, ToSet, Walked
    <2>5. ASSUME NEW n \in 0..Capacity
          PROVE  at[n] = Nil \/ /\ at[n] \in V /\ l[at[n]].parent = x
                                /\ l[at[n]].prev = IF n = 0 THEN Nil ELSE at[n - 1]
      BY <2>3, WalkOfKids
    <2>6. ASSUME NEW y \in T PROVE y \in V /\ l[y].parent = x /\ l[y].prev \in T \cup {Nil}
      <3>1. PICK n \in 0..Capacity : y = at[n] /\ y # Nil
        BY <2>4
      <3>2. n # 0 => n - 1 \in 0..Capacity
        BY SlotsCount
      <3> QED BY <2>4, <2>5, <3>1, <3>2
    <2> QED BY <2>6
  <1>4. ASSUME NEW y \in V, l[y].parent = x, y \notin T PROVE FALSE
    <2> DEFINE W == {z \in V : l[z].parent = x /\ z \notin T}
    <2>1. W \in SUBSET Slot /\ y \in W
      BY <1>0, <1>4
    <2>2. ASSUME NEW z \in W PROVE l[z].next \in W
      <3>1. NearSides(l, z) /\ z \in V /\ l[z].parent = x /\ z \notin T /\ z \in Slot /\ z # Nil
        BY <1>0
      <3>2. l[z].next # Nil
        <4> SUFFICES ASSUME l[z].next = Nil PROVE FALSE
          OBVIOUS
        <4>1. l[x].last = z
          BY <1>0, <3>1 DEF NearSides
        <4>2. first # Nil
          BY <3>1, <4>1, <1>0 DEF NearEnds
        <4>3. \E t \in T : l[t]["next"] \notin T
          BY <1>0, <1>2, <4>2 DEF NoCycle
        <4>4. PICK t \in T : l[t].next = Nil
          BY <1>2, <4>3
        <4>5. l[x].last = t
          BY <1>0, <1>3, <4>4 DEF NearSides
        <4> QED BY <3>1, <4>1, <4>4, <4>5
      <3>3. l[z].next \in V /\ l[l[z].next].parent = x /\ l[l[z].next].prev = z
        BY <1>0, <3>1, <3>2 DEF NearSides
      <3>4. l[z].next \notin T
        BY <1>3, <3>1, <3>3
      <3> QED BY <3>3, <3>4
    <2>3. \E z \in W : l[z]["next"] \notin W
      <3> HIDE DEF W
      <3> QED BY <1>0, <2>1 DEF NoCycle
    <2> QED BY <2>2, <2>3
  <1> QED
    BY <1>1, <1>3, <1>4

-----------------------------------------------------------------------------
(* Subtrees.                                                               *)

\* One round of Subtree: the children of the slots G are added.  The rounds from {i}.
Wider(l, G) == G \cup UNION {Trail(l, l[x].first, "next") : x \in G}
IsReach(re, N, l, i) == re = [n \in 0..N |-> IF n = 0 THEN {i} ELSE Wider(l, re[n - 1])]

\* There are such rounds, and Subtree takes the last.
LEMMA ReachExists ==
  ASSUME NEW l, NEW i, NEW N \in Nat
  PROVE  \E re : IsReach(re, N, l, i)
  <1> DEFINE S == {m \in Nat : \E re : IsReach(re, m, l, i)}
  <1>1. 0 \in S
    <2> DEFINE g == [n \in 0..0 |-> {i}]
    <2>1. IsReach(g, 0, l, i)
      BY DEF IsReach
    <2> QED BY <2>1
  <1>2. ASSUME NEW m \in Nat, m \in S PROVE m + 1 \in S
    <2>1. PICK g : IsReach(g, m, l, i)
      BY <1>2
    <2> DEFINE h == [n \in 0..(m + 1) |-> IF n <= m THEN g[n] ELSE Wider(l, g[m])]
    <2>2. ASSUME NEW n \in 0..(m + 1) PROVE h[n] = IF n = 0 THEN {i} ELSE Wider(l, h[n - 1])
      <3>1. CASE n <= m
        <4>1. h[n] = g[n] /\ g[n] = IF n = 0 THEN {i} ELSE Wider(l, g[n - 1])
          <5>1. n \in 0..m
            BY <3>1
          <5> HIDE DEF h
          <5>2. g[n] = IF n = 0 THEN {i} ELSE Wider(l, g[n - 1])
            BY <2>1, <5>1, Zenon DEF IsReach
          <5> QED BY <3>1, <5>2 DEF h
        <4>2. n # 0 => h[n - 1] = g[n - 1]
          BY <3>1
        <4> QED BY <4>1, <4>2
      <3>2. CASE n = m + 1
        BY <3>2
      <3> QED BY <3>1, <3>2
    <2>3. IsReach(h, m + 1, l, i)
      BY <2>2 DEF IsReach
    <2> QED BY <2>3
  <1>3. Nat \subseteq S
    <2> HIDE DEF S
    <2> QED BY <1>1, <1>2, Induction
  <1> QED BY <1>3

\* Subtree is what the rounds reach.
LEMMA SubtreeReach ==
  ASSUME NEW l, NEW i
  PROVE  \E re : /\ IsReach(re, Capacity, l, i)
                 /\ Subtree(l, i) = {s \in 0..(count - 1) : s \in re[Capacity]}
  <1>1. Capacity \in Nat
    BY SlotsCount
  <1>2. \E re : IsReach(re, Capacity, l, i)
    BY <1>1, ReachExists
  <1>3. PICK re : re = CHOOSE g :
                    g = [n \in 0..Capacity |-> IF n = 0 THEN {i} ELSE Wider(l, g[n - 1])]
    OBVIOUS
  <1>4. IsReach(re, Capacity, l, i)
    BY <1>2, <1>3 DEF IsReach
  <1>5. Subtree(l, i) = {s \in 0..(count - 1) : s \in re[Capacity]}
    BY <1>3 DEF Subtree, Wider
  <1> QED BY <1>4, <1>5

\* A round adds exactly the children.
LEMMA WiderIs ==
  ASSUME NEW l, NEW V, NEW X, Good(l, V, X), NEW G \in SUBSET V
  PROVE  Wider(l, G) = G \cup {y \in V : l[y].parent \in G}
  <1>1. \A x \in G : Trail(l, l[x].first, "next") = {y \in V : l[y].parent = x}
    BY TrailOfKids
  <1> QED
    BY <1>1 DEF Wider

\* S holds h and only what is below h; what is below a slot of S is in S.
Upwards(l, V, h, S) == S \subseteq V /\ h \in S /\ \A x \in S \ {h} : l[x].parent \in S
Downwards(l, V, S) == \A y \in V : l[y].parent \in S => y \in S
Below(l, V, h, S) == Upwards(l, V, h, S) /\ Downwards(l, V, S)

\* After m rounds the subtree is complete or has m + 1 slots.
Grown(l, V, h, G, m) == Upwards(l, V, h, G) /\ (Downwards(l, V, G) \/ Cardinality(G) >= m + 1)

\* One more round.
LEMMA Grows ==
  ASSUME NEW l, NEW V, NEW X, Good(l, V, X), IsFiniteSet(V), NEW h \in V, NEW m \in Nat,
         NEW G, Grown(l, V, h, G, m), NEW H, H = Wider(l, G)
  PROVE  Grown(l, V, h, H, m + 1)
  <1>1. Upwards(l, V, h, G) /\ G \in SUBSET V
    BY DEF Grown, Upwards
  <1>2. H = G \cup {y \in V : l[y].parent \in G}
    BY <1>1, WiderIs
  <1>3. Upwards(l, V, h, H)
    BY <1>1, <1>2 DEF Upwards
  <1>4. CASE Downwards(l, V, G)
    <2>1. H = G
      BY <1>2, <1>4 DEF Downwards
    <2> QED BY <1>3, <1>4, <2>1 DEF Grown
  <1>5. CASE ~Downwards(l, V, G)
    <2>1. G \subseteq H /\ G # H /\ G \subseteq V /\ H \subseteq V
      BY <1>1, <1>2, <1>5 DEF Downwards
    <2>2. IsFiniteSet(G) /\ IsFiniteSet(H)
      BY <2>1, FS_Subset
    <2>3. Cardinality(G) <= Cardinality(H) /\ Cardinality(H) # Cardinality(G)
      BY <2>1, <2>2, FS_Subset
    <2>4. Cardinality(G) \in Nat /\ Cardinality(H) \in Nat
      BY <2>2, FS_CardinalityType
    <2>5. Cardinality(G) >= m + 1
      BY <1>5 DEF Grown
    <2>6. Cardinality(H) >= (m + 1) + 1
      BY <2>3, <2>4, <2>5
    <2> QED BY <1>3, <2>6 DEF Grown
  <1> QED BY <1>4, <1>5

\* Capacity rounds are enough: Subtree is all that is below h.
LEMMA SubtreeBelow ==
  ASSUME NEW V, NEW X, NEW l, Good(l, V, X), V \subseteq 0..(count - 1), NEW h \in V
  PROVE  Below(l, V, h, Subtree(l, h))
  <1>1. PICK re : /\ IsReach(re, Capacity, l, h)
                  /\ Subtree(l, h) = {s \in 0..(count - 1) : s \in re[Capacity]}
    BY SubtreeReach
  <1>2. Capacity \in Nat
    BY SlotsCount
  <1>3. re[0] = {h}
    <2>1. 0 \in 0..Capacity
      BY <1>2
    <2> QED BY <1>1, <2>1, Zenon DEF IsReach
  <1>4. ASSUME NEW n \in Nat, n + 1 <= Capacity PROVE re[n + 1] = Wider(l, re[n])
    <2>1. n + 1 \in 0..Capacity /\ n + 1 # 0 /\ (n + 1) - 1 = n
      BY <1>2, <1>4
    <2>2. re[n + 1] = IF n + 1 = 0 THEN {h} ELSE Wider(l, re[(n + 1) - 1])
      BY <1>1, <2>1, Zenon DEF IsReach
    <2> QED BY <2>1, <2>2
  <1>5. IsFiniteSet(V) /\ Cardinality(V) <= Capacity
    BY SlotsCount, FS_Subset DEF Good
  <1> DEFINE S == {m \in Nat : m <= Capacity => Grown(l, V, h, re[m], m)}
  <1>6. 0 \in S
    <2>1. Cardinality({h}) = 1
      BY FS_Singleton
    <2>2. Grown(l, V, h, {h}, 0)
      BY <2>1 DEF Grown, Upwards
    <2> QED BY <1>3, <2>2
  <1>7. ASSUME NEW m \in Nat, m \in S PROVE m + 1 \in S
    <2>1. CASE m + 1 <= Capacity
      <3>1. Grown(l, V, h, re[m], m)
        BY <1>2, <1>7, <2>1
      <3>2. re[m + 1] = Wider(l, re[m])
        BY <1>4, <2>1
      <3>3. Grown(l, V, h, re[m + 1], m + 1)
        BY <1>5, <3>1, <3>2, Grows
      <3> QED BY <3>3
    <2> QED BY <2>1
  <1>8. Nat \subseteq S
    <2> HIDE DEF S
    <2> QED BY <1>6, <1>7, Induction
  <1>9. PICK B : B = re[Capacity]
    OBVIOUS
  <1>10. Grown(l, V, h, B, Capacity)
    BY <1>2, <1>8, <1>9
  <1>11. Downwards(l, V, B)
    <2>1. Cardinality(B) <= Cardinality(V) /\ IsFiniteSet(B)
      BY <1>5, <1>10, FS_Subset DEF Grown, Upwards
    <2>2. Cardinality(B) \in Nat /\ Cardinality(V) \in Nat
      BY <1>5, <2>1, FS_CardinalityType
    <2>3. ~(Cardinality(B) >= Capacity + 1)
      BY <1>2, <1>5, <2>1, <2>2
    <2> QED BY <1>10, <2>3 DEF Grown
  <1>12. Subtree(l, h) = B
    BY <1>1, <1>9, <1>10 DEF Grown, Upwards
  <1> QED
    BY <1>10, <1>11, <1>12 DEF Below, Grown

-----------------------------------------------------------------------------
(* The children in order.                                                  *)

\* c are the children of i in order.
ChainOf(l, V, i, c) ==
  /\ c \in Seq(V)
  /\ \A k \in 1..Len(c) : /\ l[c[k]].parent = i
                          /\ l[c[k]].prev = IF k = 1 THEN Nil ELSE c[k - 1]
  /\ l[i].last = IF c = <<>> THEN Nil ELSE c[Len(c)]
  /\ \A y \in V : l[y].parent = i => \E k \in 1..Len(c) : c[k] = y

\* A walk ends at the first Nil.
LEMMA WalkLength ==
  ASSUME NEW l, Typed(l), NEW i \in Link, NEW f \in {"parent", "next", "last"}, NoCycle(l, f),
         NEW at, IsWalk(at, Capacity, l, i, f)
  PROVE  \E m \in 0..Capacity : /\ \A n \in 0..(m - 1) : at[n] # Nil
                                /\ \A n \in m..Capacity : at[n] = Nil
                                /\ Cardinality({n \in DOMAIN at : at[n] # Nil}) = m
  <1>1. Walked(at, l, i, f)
    BY WalkTyped
  <1>2. /\ Capacity \in Nat /\ DOMAIN at = 0..Capacity
        /\ \A n \in 1..Capacity : at[n] = StepOn(l, f, at[n - 1])
    BY <1>1, SlotsCount DEF Walked
  <1>3. at[Capacity] = Nil
    BY WalkEnds
  <1>4. PICK m \in 0..Capacity : at[m] = Nil /\ \A n \in 0..Capacity : at[n] = Nil => m <= n
    <2> DEFINE Z == {n \in 0..Capacity : at[n] = Nil}
    <2>1. Z \in SUBSET Nat /\ Z # {}
      BY <1>2, <1>3
    <2>2. \E x \in Z : \A y \in Z : x <= y
      <3> HIDE DEF Z
      <3> QED BY <2>1, LeastNat
    <2> QED BY <2>2
  <1>5. m \in Nat /\ m <= Capacity
    BY <1>2
  <1>6. ASSUME NEW n \in 0..(m - 1) PROVE at[n] # Nil /\ n \in 0..Capacity
    <2>1. n \in 0..Capacity /\ ~(m <= n)
      BY <1>2, <1>5
    <2> QED BY <1>4, <2>1
  <1>7. ASSUME NEW n \in m..Capacity PROVE at[n] = Nil /\ n \in 0..Capacity
    <2> DEFINE S == {k \in Nat : m + k <= Capacity => at[m + k] = Nil}
    <2>1. 0 \in S
      BY <1>4, <1>5
    <2>2. ASSUME NEW k \in Nat, k \in S PROVE k + 1 \in S
      <3>1. CASE m + (k + 1) <= Capacity
        <4>1. m + (k + 1) \in 1..Capacity
          BY <1>2, <1>5, <3>1
        <4>2. (m + (k + 1)) - 1 = m + k /\ m + k <= Capacity
          BY <1>2, <1>5, <3>1
        <4>3. at[m + (k + 1)] = StepOn(l, f, at[m + k]) /\ at[m + k] = Nil
          BY <1>2, <2>2, <4>1, <4>2
        <4> QED BY <4>3 DEF StepOn
      <3> QED BY <3>1
    <2>3. Nat \subseteq S
      <3> HIDE DEF S
      <3> QED BY <2>1, <2>2, Induction
    <2>4. n - m \in Nat /\ m + (n - m) = n /\ n <= Capacity /\ n \in 0..Capacity
      BY <1>2, <1>5
    <2> QED BY <2>3, <2>4
  <1>8. {n \in DOMAIN at : at[n] # Nil} = 0..(m - 1)
    <2>1. \A n \in 0..Capacity : n \in 0..(m - 1) \/ n \in m..Capacity
      BY <1>2, <1>5
    <2> HIDE DEF Nil
    <2>2. \A n \in 0..Capacity : at[n] # Nil => n \in 0..(m - 1)
      BY <1>7, <2>1
    <2> QED BY <1>2, <1>6, <2>2
  <1>9. Cardinality(0..(m - 1)) = m
    BY <1>5, FS_Interval
  <1> QED
    BY <1>6, <1>7, <1>8, <1>9

\* Chain is that.
LEMMA ChainIs ==
  ASSUME NEW l, NEW V, NEW X, Good(l, V, X), NEW i \in V
  PROVE  ChainOf(l, V, i, Chain(l, i))
  <1> DEFINE first == l[i].first
  <1>0. /\ V \subseteq Slot /\ Nil \notin Slot /\ Typed(l) /\ first \in Link
        /\ i # Nil /\ NoCycle(l, "next") /\ "next" \in {"parent", "next", "last"}
        /\ \A y \in V : NearSides(l, y) /\ l[y].next \in V \cup {Nil}
        /\ NearEnds(l, i) /\ Capacity \in Nat
    BY NilNoSlot, SlotsCount DEF Good, Within, Link
  <1>1. PICK at : at = Steps(l, first, "next")
    OBVIOUS
  <1>2. IsWalk(at, Capacity, l, first, "next")
    BY <1>1, StepsAre
  <1>3. Walked(at, l, first, "next")
    BY <1>0, <1>2, WalkTyped
  <1>4. /\ at \in [0..Capacity -> Link] /\ at[0] = first
        /\ \A n \in 1..Capacity : at[n] = StepOn(l, "next", at[n - 1])
    BY <1>3 DEF Walked
  <1>5. ASSUME NEW n \in 0..Capacity, at[n] # Nil
        PROVE  at[n] \in V /\ l[at[n]].parent = i /\ l[at[n]].prev = IF n = 0 THEN Nil ELSE at[n - 1]
    BY <1>3, <1>5, WalkOfKids
  <1>6. PICK m \in 0..Capacity : /\ \A n \in 0..(m - 1) : at[n] # Nil
                                 /\ \A n \in m..Capacity : at[n] = Nil
                                 /\ Cardinality({n \in DOMAIN at : at[n] # Nil}) = m
    BY <1>0, <1>2, WalkLength
  <1>7. m \in Nat /\ m <= Capacity
    BY <1>0
  <1>8. PICK c : c = [k \in 1..m |-> at[k - 1]]
    OBVIOUS
  <1>9. Chain(l, i) = c
    BY <1>1, <1>6, <1>8 DEF Chain
  <1>10. ASSUME NEW k \in 1..m
         PROVE  c[k] = at[k - 1] /\ k - 1 \in 0..Capacity /\ at[k - 1] # Nil
    <2>1. k - 1 \in 0..(m - 1) /\ k - 1 \in 0..Capacity
      BY <1>0, <1>7
    <2> QED BY <1>6, <1>8, <2>1
  <1>11. c \in Seq(V) /\ Len(c) = m
    <2>1. \A k \in 1..m : at[k - 1] \in V
      BY <1>5, <1>10
    <2> QED BY <1>7, <1>8, <2>1
  <1>12. ASSUME NEW k \in 1..Len(c)
         PROVE  l[c[k]].parent = i /\ l[c[k]].prev = IF k = 1 THEN Nil ELSE c[k - 1]
    <2>1. k \in 1..m /\ c[k] = at[k - 1] /\ k - 1 \in 0..Capacity /\ at[k - 1] # Nil
      BY <1>10, <1>11
    <2>2. l[c[k]].parent = i /\ l[c[k]].prev = IF k - 1 = 0 THEN Nil ELSE at[(k - 1) - 1]
      BY <1>5, <2>1
    <2>3. CASE k = 1
      BY <2>2, <2>3
    <2>4. CASE k # 1
      <3>1. k - 1 \in 1..m /\ k - 1 # 0
        BY <1>7, <2>1, <2>4
      <3>2. c[k - 1] = at[(k - 1) - 1]
        BY <1>10, <3>1
      <3> QED BY <2>2, <2>4, <3>1, <3>2
    <2> QED BY <2>3, <2>4
  <1>13. l[i].last = IF c = <<>> THEN Nil ELSE c[Len(c)]
    <2>1. CASE m = 0
      <3>1. 0 \in m..Capacity
        BY <1>0, <2>1
      <3>2. first = Nil
        BY <1>4, <1>6, <3>1
      <3>3. l[i].last = Nil
        BY <1>0, <3>2 DEF NearEnds
      <3> QED BY <1>11, <2>1, <3>3
    <2>2. CASE m # 0
      <3>1. m \in 1..m /\ m \in 1..Capacity /\ m \in m..Capacity
        BY <1>0, <1>7, <2>2
      <3>2. c[m] = at[m - 1] /\ m - 1 \in 0..Capacity /\ at[m - 1] # Nil
        BY <1>10, <3>1
      <3>3. at[m - 1] \in V /\ l[at[m - 1]].parent = i
        BY <1>5, <3>2
      <3>4. at[m] = Nil /\ at[m] = StepOn(l, "next", at[m - 1])
        BY <1>4, <1>6, <3>1
      <3>5. l[at[m - 1]].next = Nil
        BY <3>2, <3>4 DEF StepOn
      <3>6. l[i].last = at[m - 1]
        BY <1>0, <3>3, <3>5 DEF NearSides
      <3>7. c # <<>>
        BY <1>11, <2>2
      <3> QED BY <1>11, <3>2, <3>6, <3>7
    <2> QED BY <2>1, <2>2
  <1>14. ASSUME NEW y \in V, l[y].parent = i PROVE \E k \in 1..Len(c) : c[k] = y
    <2>1. y \in Trail(l, first, "next")
      BY <1>14, TrailOfKids
    <2>2. PICK n \in 0..Capacity : y = at[n] /\ y # Nil
      BY <1>1, <1>4, <2>1 DEF Trail, ToSet
    <2>3. n \in 0..(m - 1)
      <3>1. n \in 0..(m - 1) \/ n \in m..Capacity
        BY <1>0, <1>7
      <3> QED BY <1>6, <2>2, <3>1
    <2>4. n + 1 \in 1..m /\ (n + 1) - 1 = n
      BY <1>7, <2>3
    <2>5. c[n + 1] = y
      BY <1>10, <2>2, <2>4
    <2> QED BY <1>11, <2>4, <2>5
  <1> QED
    BY <1>9, <1>11, <1>12, <1>13, <1>14 DEF ChainOf

-----------------------------------------------------------------------------
(* Lists of nodes.                                                         *)

\* The loops of LinkAll and UnlinkAll.
IsLinking(after, N, l, how, at, c) ==
  after = [k \in 0..N |-> IF k = 0 THEN l ELSE LinkTo(after[k - 1], how, at[k], c[k])]
IsUnlinking(after, N, l, c) ==
  after = [k \in 0..N |-> IF k = 0 THEN l ELSE Unlink(after[k - 1], c[k])]

\* There are such loops.
LEMMA LinkingExists ==
  ASSUME NEW l, NEW how, NEW at, NEW c, NEW N \in Nat
  PROVE  \E g : IsLinking(g, N, l, how, at, c)
  <1> DEFINE S == {m \in Nat : \E g : IsLinking(g, m, l, how, at, c)}
  <1>1. 0 \in S
    <2> DEFINE g == [n \in 0..0 |-> l]
    <2>1. IsLinking(g, 0, l, how, at, c)
      BY DEF IsLinking
    <2> QED BY <2>1
  <1>2. ASSUME NEW m \in Nat, m \in S PROVE m + 1 \in S
    <2>1. PICK g : IsLinking(g, m, l, how, at, c)
      BY <1>2
    <2> DEFINE h == [n \in 0..(m + 1) |->
                   IF n <= m THEN g[n] ELSE LinkTo(g[m], how, at[m + 1], c[m + 1])]
    <2>2. ASSUME NEW n \in 0..(m + 1)
          PROVE  h[n] = IF n = 0 THEN l ELSE LinkTo(h[n - 1], how, at[n], c[n])
      <3>1. CASE n <= m
        <4>1. h[n] = g[n] /\ g[n] = IF n = 0 THEN l ELSE LinkTo(g[n - 1], how, at[n], c[n])
          <5>1. n \in 0..m
            BY <3>1
          <5> HIDE DEF h
          <5>2. g[n] = IF n = 0 THEN l ELSE LinkTo(g[n - 1], how, at[n], c[n])
            BY <2>1, <5>1, Zenon DEF IsLinking
          <5> QED BY <3>1, <5>2 DEF h
        <4>2. n # 0 => h[n - 1] = g[n - 1]
          BY <3>1
        <4> QED BY <4>1, <4>2
      <3>2. CASE n = m + 1
        BY <3>2
      <3> QED BY <3>1, <3>2
    <2>3. IsLinking(h, m + 1, l, how, at, c)
      BY <2>2 DEF IsLinking
    <2> QED BY <2>3
  <1>3. Nat \subseteq S
    <2> HIDE DEF S
    <2> QED BY <1>1, <1>2, Induction
  <1> QED BY <1>3

\* The states of a loop of unlinks.
LEMMA UnlinkingExists ==
  ASSUME NEW l, NEW c, NEW N \in Nat
  PROVE  \E g : IsUnlinking(g, N, l, c)
  <1> DEFINE S == {m \in Nat : \E g : IsUnlinking(g, m, l, c)}
  <1>1. 0 \in S
    <2> DEFINE g == [n \in 0..0 |-> l]
    <2>1. IsUnlinking(g, 0, l, c)
      BY DEF IsUnlinking
    <2> QED BY <2>1
  <1>2. ASSUME NEW m \in Nat, m \in S PROVE m + 1 \in S
    <2>1. PICK g : IsUnlinking(g, m, l, c)
      BY <1>2
    <2> DEFINE h == [n \in 0..(m + 1) |-> IF n <= m THEN g[n] ELSE Unlink(g[m], c[m + 1])]
    <2>2. ASSUME NEW n \in 0..(m + 1)
          PROVE  h[n] = IF n = 0 THEN l ELSE Unlink(h[n - 1], c[n])
      <3>1. CASE n <= m
        <4>1. h[n] = g[n] /\ g[n] = IF n = 0 THEN l ELSE Unlink(g[n - 1], c[n])
          <5>1. n \in 0..m
            BY <3>1
          <5> HIDE DEF h
          <5>2. g[n] = IF n = 0 THEN l ELSE Unlink(g[n - 1], c[n])
            BY <2>1, <5>1, Zenon DEF IsUnlinking
          <5> QED BY <3>1, <5>2 DEF h
        <4>2. n # 0 => h[n - 1] = g[n - 1]
          BY <3>1
        <4> QED BY <4>1, <4>2
      <3>2. CASE n = m + 1
        BY <3>2
      <3> QED BY <3>1, <3>2
    <2>3. IsUnlinking(h, m + 1, l, c)
      BY <2>2 DEF IsUnlinking
    <2> QED BY <2>3
  <1>3. Nat \subseteq S
    <2> HIDE DEF S
    <2> QED BY <1>1, <1>2, Induction
  <1> QED BY <1>3

\* What the loops leave is the last of a run, each links made from those before.
LEMMA LinkAllRuns ==
  ASSUME NEW l, NEW how, NEW at, NEW c, Len(c) \in Nat
  PROVE  \E after : /\ LinkAll(l, how, at, c) = after[Len(c)] /\ after[0] = l
                    /\ \A k \in 1..Len(c) : after[k] = LinkTo(after[k - 1], how, at[k], c[k])
  <1>1. PICK after : after = CHOOSE g : IsLinking(g, Len(c), l, how, at, c)
    OBVIOUS
  <1>2. IsLinking(after, Len(c), l, how, at, c)
    BY <1>1, LinkingExists
  <1>3. LinkAll(l, how, at, c) = after[Len(c)]
    BY <1>1, Zenon DEF LinkAll, IsLinking
  <1>4. after[0] = l
    <2>1. 0 \in 0..Len(c)
      OBVIOUS
    <2> QED BY <1>2, <2>1, Zenon DEF IsLinking
  <1>5. ASSUME NEW k \in 1..Len(c) PROVE after[k] = LinkTo(after[k - 1], how, at[k], c[k])
    <2>1. k \in 0..Len(c) /\ k # 0
      OBVIOUS
    <2>2. after[k] = IF k = 0 THEN l ELSE LinkTo(after[k - 1], how, at[k], c[k])
      BY <1>2, <2>1, Zenon DEF IsLinking
    <2> QED BY <2>1, <2>2
  <1> QED BY <1>3, <1>4, <1>5

\* UnlinkAll is the last state of its loop.
LEMMA UnlinkAllRuns ==
  ASSUME NEW l, NEW c, Len(c) \in Nat
  PROVE  \E after : /\ UnlinkAll(l, c) = after[Len(c)] /\ after[0] = l
                    /\ \A k \in 1..Len(c) : after[k] = Unlink(after[k - 1], c[k])
  <1>1. PICK after : after = CHOOSE g : IsUnlinking(g, Len(c), l, c)
    OBVIOUS
  <1>2. IsUnlinking(after, Len(c), l, c)
    BY <1>1, UnlinkingExists
  <1>3. UnlinkAll(l, c) = after[Len(c)]
    BY <1>1, Zenon DEF UnlinkAll, IsUnlinking
  <1>4. after[0] = l
    <2>1. 0 \in 0..Len(c)
      OBVIOUS
    <2> QED BY <1>2, <2>1, Zenon DEF IsUnlinking
  <1>5. ASSUME NEW k \in 1..Len(c) PROVE after[k] = Unlink(after[k - 1], c[k])
    <2>1. k \in 0..Len(c) /\ k # 0
      OBVIOUS
    <2>2. after[k] = IF k = 0 THEN l ELSE Unlink(after[k - 1], c[k])
      BY <1>2, <2>1, Zenon DEF IsUnlinking
    <2> QED BY <2>1, <2>2
  <1> QED BY <1>3, <1>4, <1>5

\* at is where a node is put below p: p itself, or a child of p beside which it goes.
Place(l, V, p, how, at) ==
  \/ how \in {"last", "first"} /\ at = p
  \/ how \in {"before", "after"} /\ at \in V /\ l[at].parent = p

\* Put in such a place, a root is joined.
LEMMA LinkToJoins ==
  ASSUME NEW l, NEW V, NEW X, Good(l, V, X), NEW p \in V, NEW c \in V, c # p, l[c].parent = Nil,
         NEW how, NEW at, Place(l, V, p, how, at)
  PROVE  /\ Typed(LinkTo(l, how, at, c))
         /\ \E a, b : Between(l, V, p, a, b) /\ Joined(l, LinkTo(l, how, at, c), p, a, b, c)
  <1>0. /\ V \subseteq Slot /\ Nil \notin Slot /\ Typed(l) /\ p # Nil
        /\ NearEnds(l, p) /\ l[p].first \in V \cup {Nil} /\ l[p].last \in V \cup {Nil}
        /\ \A y \in V : NearSides(l, y) /\ l[y].next \in V \cup {Nil} /\ l[y].prev \in V \cup {Nil}
        /\ l[p].first # c /\ l[p].last # c
        /\ \A y \in V : l[y].prev # c /\ l[y].next # c
    <2>1. /\ V \subseteq Slot /\ Nil \notin Slot /\ Typed(l) /\ p # Nil /\ c # Nil
          /\ NearEnds(l, p) /\ l[p].first \in V \cup {Nil} /\ l[p].last \in V \cup {Nil}
          /\ \A y \in V : NearSides(l, y) /\ l[y].next \in V \cup {Nil} /\ l[y].prev \in V \cup {Nil}
      BY NilNoSlot DEF Good, Within
    <2>2. l[c].prev = Nil /\ l[c].next = Nil
      BY <2>1 DEF NearSides
    <2>3. l[p].first # c /\ l[p].last # c
      BY <2>1 DEF NearEnds
    <2>4. \A y \in V : l[y].prev # c /\ l[y].next # c
      BY <2>1, <2>2, NilNoSlot DEF NearSides
    <2> QED BY <2>1, <2>3, <2>4
  <1>1. CASE how = "last" /\ at = p
    <2>1. LinkTo(l, how, at, c) = LinkLast(l, p, c)
      BY <1>1 DEF LinkTo
    <2>2. Between(l, V, p, l[p].last, Nil)
      BY <1>0 DEF Between, NearEnds
    <2> QED BY <1>0, <2>1, <2>2, LinkLastJoins
  <1>2. CASE how = "first" /\ at = p
    <2>1. LinkTo(l, how, at, c) = LinkFirst(l, p, c)
      BY <1>2 DEF LinkTo
    <2>2. Between(l, V, p, Nil, l[p].first)
      BY <1>0 DEF Between, NearEnds
    <2> QED BY <1>0, <2>1, <2>2, LinkFirstJoins
  <1>3. CASE how = "before" /\ at \in V /\ l[at].parent = p
    <2>1. LinkTo(l, how, at, c) = LinkBefore(l, at, c)
      BY <1>3 DEF LinkTo
    <2>2. Between(l, V, p, l[at].prev, at)
      BY <1>0, <1>3 DEF Between, NearSides
    <2>3. at # c
      BY <1>0, <1>3
    <2> QED BY <1>0, <1>3, <2>1, <2>2, <2>3, LinkBeforeJoins
  <1>4. CASE how = "after" /\ at \in V /\ l[at].parent = p
    <2>1. LinkTo(l, how, at, c) = LinkAfter(l, at, c)
      BY <1>4 DEF LinkTo
    <2>2. Between(l, V, p, at, l[at].next)
      BY <1>0, <1>4 DEF Between, NearSides
    <2>3. at # c
      BY <1>0, <1>4
    <2> QED BY <1>0, <1>4, <2>1, <2>2, <2>3, LinkAfterJoins
  <1> QED BY <1>1, <1>2, <1>3, <1>4 DEF Place

\* The slots c can go below p: roots of trees that p is not in.
Fit(l, V, X, A, p, c) ==
  /\ p \in V \ X /\ Above(l, A, p)
  /\ c \in Seq(V \ {Root})
  /\ \A k \in 1..Len(c) : l[c[k]].parent = Nil /\ c[k] \notin A
  /\ \A j, k \in 1..Len(c) : c[j] = c[k] => j = k

\* m is l with the first k slots of c linked below p.
Stage(l, m, V, X, A, p, c, k) ==
  /\ Good(m, V, X) /\ Above(m, A, p)
  /\ \A j \in 1..Len(c) : m[c[j]].parent = IF j <= k THEN p ELSE Nil
  /\ \A y \in V : (\A j \in 1..Len(c) : y # c[j]) => m[y].parent = l[y].parent

\* One slot more.
LEMMA LinkToStage ==
  ASSUME NEW l, NEW V, NEW X, NEW A, NEW p, NEW c, Fit(l, V, X, A, p, c),
         NEW m, NEW k \in Nat, k + 1 \in 1..Len(c), Stage(l, m, V, X, A, p, c, k),
         NEW how, NEW at, Place(m, V, p, how, at)
  PROVE  Stage(l, LinkTo(m, how, at, c[k + 1]), V, X, A, p, c, k + 1)
  <1>1. PICK x, n : x = c[k + 1] /\ n = LinkTo(m, how, at, x)
    OBVIOUS
  <1>2. /\ Good(m, V, X) /\ p \in V \ X /\ x \in V \ {Root} /\ x \notin A /\ x # p
        /\ m[x].parent = Nil
        /\ Above(m, A, p) /\ V \subseteq Slot /\ A \subseteq Slot /\ Len(c) \in Nat
    <2>1. Good(m, V, X) /\ p \in V \ X /\ Above(m, A, p) /\ c \in Seq(V \ {Root})
      BY DEF Stage, Fit
    <2>2. x \in V \ {Root} /\ x \notin A
      BY <1>1, <2>1 DEF Fit
    <2>3. ~(k + 1 <= k)
      OBVIOUS
    <2>4. m[x].parent = Nil
      BY <1>1, <2>3 DEF Stage
    <2>5. V \subseteq Slot
      BY <2>1 DEF Good
    <2> QED BY <2>1, <2>2, <2>4, <2>5 DEF Above
  <1>3. Typed(n) /\ \E a, b : Between(m, V, p, a, b) /\ Joined(m, n, p, a, b, x)
    BY <1>1, <1>2, LinkToJoins
  <1>4. PICK a, b : Between(m, V, p, a, b) /\ Joined(m, n, p, a, b, x)
    BY <1>3
  <1>5. Good(n, V, X)
    BY <1>2, <1>3, <1>4, JoinedGood
  <1>6. \A y \in Slot : n[y].parent = IF y = x THEN p ELSE m[y].parent
    BY <1>4 DEF Joined
  <1>7. Above(n, A, p)
    BY <1>2, <1>6 DEF Above
  <1>8. \A j \in 1..Len(c) : n[c[j]].parent = IF j <= k + 1 THEN p ELSE Nil
    <2> SUFFICES ASSUME NEW j \in 1..Len(c) PROVE n[c[j]].parent = IF j <= k + 1 THEN p ELSE Nil
      OBVIOUS
    <2>1. c[j] \in Slot /\ (c[j] = x => j = k + 1)
      BY <1>1, <1>2 DEF Fit
    <2>2. m[c[j]].parent = IF j <= k THEN p ELSE Nil
      BY DEF Stage
    <2>3. n[c[j]].parent = IF c[j] = x THEN p ELSE m[c[j]].parent
      BY <1>6, <2>1
    <2>4. CASE j = k + 1
      BY <1>1, <2>3, <2>4
    <2>5. CASE j # k + 1
      <3>1. j <= k + 1 <=> j <= k
        BY <2>5
      <3> QED BY <2>1, <2>2, <2>3, <2>5, <3>1
    <2> QED BY <2>4, <2>5
  <1>9. \A y \in V : (\A j \in 1..Len(c) : y # c[j]) => n[y].parent = l[y].parent
    <2> SUFFICES ASSUME NEW y \in V, \A j \in 1..Len(c) : y # c[j] PROVE n[y].parent = l[y].parent
      OBVIOUS
    <2>1. y # x /\ y \in Slot
      BY <1>1, <1>2
    <2> QED BY <1>6, <2>1 DEF Stage
  <1> QED
    BY <1>1, <1>5, <1>7, <1>8, <1>9 DEF Stage

\* Where the slots of c go, for each way.
Aim(l, V, p, how, at, c) ==
  \/ how \in {"last", "first"} /\ \A k \in 1..Len(c) : at[k] = p
  \/ how = "before" /\ \A k \in 1..Len(c) : at[k] \in V /\ l[at[k]].parent = p
  \/ how = "after" /\ \A k \in 1..Len(c) : IF k = 1 THEN at[k] \in V /\ l[at[k]].parent = p
                                                    ELSE at[k] = c[k - 1]

\* A whole list, in any of the ways, is linked below p.
Staged(after, l, V, X, A, p, how, at, c) ==
  /\ LinkAll(l, how, at, c) = after[Len(c)] /\ after[0] = l
  /\ \A k \in 1..Len(c) : after[k] = LinkTo(after[k - 1], how, at[k], c[k])
  /\ \A k \in 0..Len(c) : Stage(l, after[k], V, X, A, p, c, k)

\* The loop of a batch passes through its stages.
LEMMA LinkAllStages ==
  ASSUME NEW l, NEW V, NEW X, Good(l, V, X), NEW A, NEW p, NEW c, Fit(l, V, X, A, p, c),
         NEW how, NEW at, Aim(l, V, p, how, at, c)
  PROVE  \E after : Staged(after, l, V, X, A, p, how, at, c)
  <1>0. Len(c) \in Nat /\ c \in Seq(V) /\ p # Nil
    <2>1. c \in Seq(V \ {Root}) /\ p \in Slot
      BY DEF Fit, Good
    <2> QED BY <2>1, NilNoSlot
  <1>1. PICK after : /\ LinkAll(l, how, at, c) = after[Len(c)] /\ after[0] = l
                     /\ \A k \in 1..Len(c) : after[k] = LinkTo(after[k - 1], how, at[k], c[k])
    BY <1>0, LinkAllRuns
  <1> DEFINE S == {k \in Nat : k <= Len(c) => Stage(l, after[k], V, X, A, p, c, k)}
  <1>2. 0 \in S
    <2>1. \A j \in 1..Len(c) : ~(j <= 0)
      BY <1>0
    <2>2. Stage(l, l, V, X, A, p, c, 0)
      BY <2>1 DEF Stage, Fit
    <2> QED BY <1>1, <2>2
  <1>3. ASSUME NEW k \in Nat, k \in S PROVE k + 1 \in S
    <2>1. CASE k + 1 <= Len(c)
      <3>1. k + 1 \in 1..Len(c) /\ (k + 1) - 1 = k /\ k <= Len(c)
        BY <1>0, <2>1
      <3>2. PICK m : m = after[k]
        OBVIOUS
      <3>3. Stage(l, m, V, X, A, p, c, k)
        BY <1>3, <3>1, <3>2
      <3>4. \A y \in V : l[y].parent = p => m[y].parent = p
        <4> SUFFICES ASSUME NEW y \in V, l[y].parent = p PROVE m[y].parent = p
          OBVIOUS
        <4>1. \A j \in 1..Len(c) : y # c[j]
          BY <1>0 DEF Fit
        <4> QED BY <3>3, <4>1 DEF Stage
      <3>5. Place(m, V, p, how, at[k + 1])
        <4>1. CASE how \in {"last", "first"} /\ \A j \in 1..Len(c) : at[j] = p
          BY <3>1, <4>1 DEF Place
        <4>2. CASE how = "before" /\ \A j \in 1..Len(c) : at[j] \in V /\ l[at[j]].parent = p
          BY <3>1, <3>4, <4>2 DEF Place
        <4>3. CASE how = "after" /\ \A j \in 1..Len(c) :
                                     IF j = 1 THEN at[j] \in V /\ l[at[j]].parent = p
                                                                 ELSE at[j] = c[j - 1]
          <5>1. CASE k = 0
            <6>1. at[k + 1] \in V /\ l[at[k + 1]].parent = p
              BY <3>1, <4>3, <5>1
            <6> QED BY <3>4, <4>3, <6>1 DEF Place
          <5>2. CASE k # 0
            <6>1. k + 1 # 1 /\ k \in 1..Len(c) /\ k <= k
              BY <1>0, <3>1, <5>2
            <6>2. at[k + 1] = c[k]
              BY <3>1, <4>3, <6>1
            <6>3. c[k] \in V /\ m[c[k]].parent = p
              BY <1>0, <3>3, <6>1 DEF Stage
            <6> QED BY <4>3, <6>2, <6>3 DEF Place
          <5> QED BY <5>1, <5>2
        <4> QED BY <4>1, <4>2, <4>3 DEF Aim
      <3>6. after[k + 1] = LinkTo(m, how, at[k + 1], c[k + 1])
        BY <1>1, <3>1, <3>2
      <3>7. Stage(l, after[k + 1], V, X, A, p, c, k + 1)
        BY <3>1, <3>3, <3>5, <3>6, LinkToStage
      <3> QED BY <3>7
    <2> QED BY <2>1
  <1>4. Nat \subseteq S
    <2> HIDE DEF S
    <2> QED BY <1>2, <1>3, Induction
  <1>5. \A k \in 0..Len(c) : Stage(l, after[k], V, X, A, p, c, k)
    BY <1>0, <1>4
  <1> QED BY <1>1, <1>5 DEF Staged

\* After the loop the batch is below p and all links are good.
LEMMA LinkAllGood ==
  ASSUME NEW l, NEW V, NEW X, Good(l, V, X), NEW A, NEW p, NEW c, Fit(l, V, X, A, p, c),
         NEW how, NEW at, Aim(l, V, p, how, at, c)
  PROVE  Stage(l, LinkAll(l, how, at, c), V, X, A, p, c, Len(c))
  <1>1. PICK after : Staged(after, l, V, X, A, p, how, at, c)
    BY LinkAllStages
  <1>2. Len(c) \in 0..Len(c)
    <2>1. c \in Seq(V \ {Root})
      BY DEF Fit
    <2> QED BY <2>1
  <1> QED BY <1>1, <1>2 DEF Staged

\* Every slot of a trail but the first is linked to from the trail, and only one leads nowhere.
LEMMA TrailLinked ==
  ASSUME NEW l, Typed(l), NEW f \in {"parent", "next", "last"}, NoCycle(l, f), NEW i \in Link,
         NEW x \in Trail(l, i, f)
  PROVE  /\ x # i => \E y \in Trail(l, i, f) : l[y][f] = x
         /\ \A y \in Trail(l, i, f) : l[x][f] = Nil /\ l[y][f] = Nil => x = y
  <1>1. PICK at : at = Steps(l, i, f)
    OBVIOUS
  <1>2. IsWalk(at, Capacity, l, i, f)
    BY <1>1, StepsAre
  <1>3. /\ Capacity \in Nat /\ at \in [0..Capacity -> Link] /\ at[0] = i
        /\ \A n \in 1..Capacity : at[n] = StepOn(l, f, at[n - 1])
    <2>1. Walked(at, l, i, f)
      BY <1>2, WalkTyped
    <2> QED BY <2>1, SlotsCount DEF Walked
  <1>4. Trail(l, i, f) = {at[n] : n \in 0..Capacity} \ {Nil}
    BY <1>1, <1>3 DEF Trail, ToSet
  <1>5. PICK m \in 0..Capacity : /\ \A n \in 0..(m - 1) : at[n] # Nil
                                 /\ \A n \in m..Capacity : at[n] = Nil
                                 /\ Cardinality({n \in DOMAIN at : at[n] # Nil}) = m
    BY <1>2, WalkLength
  <1>6. m \in Nat /\ m <= Capacity
    BY <1>3
  <1>7. ASSUME x # i PROVE \E y \in Trail(l, i, f) : l[y][f] = x
    <2>1. PICK n \in 0..Capacity : x = at[n] /\ x # Nil
      BY <1>4
    <2>2. n \in 1..Capacity /\ n - 1 \in 0..Capacity
      BY <1>3, <1>7, <2>1
    <2>3. x = StepOn(l, f, at[n - 1])
      BY <1>3, <2>1, <2>2
    <2>4. at[n - 1] # Nil /\ l[at[n - 1]][f] = x
      BY <2>1, <2>3 DEF StepOn
    <2> QED BY <1>4, <2>2, <2>4
  <1>8. ASSUME NEW y \in Trail(l, i, f), l[y][f] = Nil PROVE m - 1 \in 0..Capacity /\ y = at[m - 1]
    <2>1. PICK n \in 0..Capacity : y = at[n] /\ y # Nil
      BY <1>4
    <2>2. ~(n \in m..Capacity)
      BY <1>5, <2>1
    <2>3. n < m /\ n + 1 \in 1..Capacity /\ (n + 1) - 1 = n /\ n \in Nat
      BY <1>3, <1>6, <2>2
    <2>4. at[n + 1] = StepOn(l, f, at[n])
      BY <1>3, <2>3
    <2>5. at[n + 1] = Nil
      BY <1>8, <2>1, <2>4 DEF StepOn
    <2>6. ~(n + 1 \in 0..(m - 1))
      BY <1>5, <2>5
    <2>7. n = m - 1
      BY <1>6, <2>3, <2>6
    <2> QED BY <2>1, <2>7
  <1> QED
    BY <1>7, <1>8

\* check_batch finds exactly that: the slots of the list are roots, and p is in no tree of theirs.
LEMMA BatchFits ==
  ASSUME Good(links, live, texts), NEW p \in live \ texts, NEW list \in Batches, BatchOK(p, list)
  PROVE  Fit(links, live, texts, Trail(links, p, "parent"), p, Slots(list))
  <1> DEFINE A == Trail(links, p, "parent")
             c == Slots(list)
  <1>0. /\ p \in Slot /\ p # Nil /\ p \in Link /\ Typed(links) /\ NoCycle(links, "parent")
        /\ "parent" \in {"parent", "next", "last"} /\ live \subseteq Slot
    BY NilNoSlot DEF Good
  <1>1. Above(links, A, p)
    <2>1. /\ A \subseteq Slot
          /\ p # Nil => p \in A
          /\ \A x \in A : links[x]["parent"] \in A \cup {Nil}
      BY <1>0, TrailClosed
    <2> QED BY <1>0, <2>1 DEF Above
  <1>2. PICK n \in Nat : list \in [1..n -> issued]
    <2>1. PICK n \in 0..MaxBatch : list \in [1..n -> issued]
      BY DEF Batches
    <2> QED BY <2>1, ArenaAssumption
  <1>3. DOMAIN c = 1..n /\ \A k \in 1..n : c[k] = list[k].index
    BY <1>2 DEF Slots
  <1>4. ASSUME NEW k \in 1..n
        PROVE  c[k] \in live \ {Root} /\ links[c[k]].parent = Nil /\ c[k] # p
    <2>1. list[k] \in ToSet(list)
      BY <1>2 DEF ToSet
    <2>2. /\ Valid(list[k]) /\ list[k].index \notin {Root, p} /\ links[list[k].index].parent = Nil
      BY <2>1 DEF BatchOK
    <2> QED BY <1>3, <2>2 DEF Valid
  <1>5. c \in Seq(live \ {Root}) /\ Len(c) = n
    BY <1>2, <1>3, <1>4 DEF Slots
  <1>6. \A j, k \in 1..Len(c) : c[j] = c[k] => j = k
    BY <1>3, <1>5 DEF BatchOK, IsInjective
  <1>7. ASSUME NEW k \in 1..Len(c), c[k] \in A PROVE FALSE
    <2>1. PICK x : x = c[k]
      OBVIOUS
    <2>2. x \in A /\ x \in live /\ links[x]["parent"] = Nil /\ x # p
      BY <1>4, <1>5, <1>7, <2>1
    <2>3. PICK y \in A : links[y]["parent"] = x
      BY <1>0, <2>2, TrailLinked
    <2>4. y \in live
      <3>1. x # Nil /\ y \in Slot
        BY <1>0, <1>1, <2>2, NilNoSlot DEF Above
      <3>2. y \notin live => links[y] = Blank
        BY <3>1 DEF Good
      <3> QED BY <2>3, <3>1, <3>2 DEF Blank
    <2>5. links[x].first # Nil
      <3>1. links[y].parent = x /\ x # Nil
        BY <1>0, <2>2, <2>3, NilNoSlot
      <3> QED BY <2>4, <3>1, HasFirst
    <2>6. RootOf(links, p) \notin ToSet(c)
      <3>1. x \in ToSet(c)
        BY <1>3, <1>5, <2>1 DEF ToSet
      <3> QED BY <2>5, <3>1 DEF BatchOK
    <2>7. PICK r : r = RootOf(links, p)
      OBVIOUS
    <2>8. r \in A /\ links[r]["parent"] = Nil
      <3>1. \E z \in A : links[z].parent = Nil
        BY <2>2
      <3> QED BY <2>7, <3>1 DEF RootOf
    <2>9. x = r
      BY <1>0, <2>2, <2>8, TrailLinked
    <2> QED BY <1>3, <1>5, <2>1, <2>6, <2>7, <2>9 DEF ToSet
  <1>8. \A k \in 1..Len(c) : links[c[k]].parent = Nil /\ c[k] \notin A
    BY <1>4, <1>5, <1>7
  <1> QED
    BY <1>1, <1>5, <1>6, <1>8 DEF Fit

\* The order of the list does not matter.
LEMMA ReverseFits ==
  ASSUME NEW l, NEW V, NEW X, NEW A, NEW p, NEW c, Fit(l, V, X, A, p, c)
  PROVE  Fit(l, V, X, A, p, Reverse(c)) /\ Len(Reverse(c)) = Len(c)
  <1> DEFINE d == Reverse(c)
  <1>0. c \in Seq(V \ {Root}) /\ Len(c) \in Nat
    BY DEF Fit
  <1>1. \A k \in 1..Len(c) : (Len(c) - k) + 1 \in 1..Len(c) /\ d[k] = c[(Len(c) - k) + 1]
    BY <1>0 DEF Reverse
  <1>2. d \in Seq(V \ {Root}) /\ Len(d) = Len(c)
    <2>1. \A k \in 1..Len(c) : d[k] \in V \ {Root}
      BY <1>0, <1>1
    <2> QED BY <1>0, <2>1 DEF Reverse
  <1>3. \A k \in 1..Len(d) : l[d[k]].parent = Nil /\ d[k] \notin A
    BY <1>1, <1>2 DEF Fit
  <1>4. ASSUME NEW j \in 1..Len(d), NEW k \in 1..Len(d), d[j] = d[k] PROVE j = k
    <2>1. (Len(c) - j) + 1 = (Len(c) - k) + 1
      BY <1>1, <1>2, <1>4 DEF Fit
    <2> QED BY <1>0, <2>1
  <1> QED
    BY <1>2, <1>3, <1>4 DEF Fit

\* m is l with the first k slots of c unlinked.
Freed(l, m, V, X, c, k) ==
  /\ Good(m, V, X)
  /\ \A y \in V : m[y].parent = IF \E j \in 1..k : c[j] = y THEN Nil ELSE l[y].parent

\* All of them are unlinked.
LEMMA UnlinkAllGood ==
  ASSUME NEW l, NEW V, NEW X, Good(l, V, X), NEW c \in Seq(V)
  PROVE  Freed(l, UnlinkAll(l, c), V, X, c, Len(c))
  <1>0. Len(c) \in Nat /\ V \subseteq Slot
    BY DEF Good
  <1>1. PICK after : /\ UnlinkAll(l, c) = after[Len(c)] /\ after[0] = l
                     /\ \A k \in 1..Len(c) : after[k] = Unlink(after[k - 1], c[k])
    BY <1>0, UnlinkAllRuns
  <1> DEFINE S == {k \in Nat : k <= Len(c) => Freed(l, after[k], V, X, c, k)}
  <1>2. 0 \in S
    <2>1. Freed(l, l, V, X, c, 0)
      BY DEF Freed
    <2> QED BY <1>1, <2>1
  <1>3. ASSUME NEW k \in Nat, k \in S PROVE k + 1 \in S
    <2>1. CASE k + 1 <= Len(c)
      <3>1. k + 1 \in 1..Len(c) /\ (k + 1) - 1 = k /\ k <= Len(c)
        BY <1>0, <2>1
      <3>2. PICK m, x, n : m = after[k] /\ x = c[k + 1] /\ n = Unlink(m, x)
        OBVIOUS
      <3>3. Freed(l, m, V, X, c, k) /\ x \in V
        BY <1>3, <3>1, <3>2
      <3>4. Good(n, V, X) /\ Parted(m, n, m[x].parent, m[x].prev, m[x].next, x)
        BY <3>2, <3>3, UnlinkGood DEF Freed
      <3>5. \A y \in V : n[y].parent = IF y = x THEN Nil ELSE m[y].parent
        BY <1>0, <3>4 DEF Parted
      <3>6. \A y \in V : (\E j \in 1..(k + 1) : c[j] = y) <=> y = x \/ \E j \in 1..k : c[j] = y
        <4>1. \A j \in 1..(k + 1) : j = k + 1 \/ j \in 1..k
          OBVIOUS
        <4>2. k + 1 \in 1..(k + 1) /\ 1..k \subseteq 1..(k + 1)
          OBVIOUS
        <4> QED BY <3>2, <4>1, <4>2
      <3>7. \A y \in V : n[y].parent = IF \E j \in 1..(k + 1) : c[j] = y THEN Nil ELSE l[y].parent
        BY <3>3, <3>5, <3>6 DEF Freed
      <3>8. after[k + 1] = n
        BY <1>1, <3>1, <3>2
      <3>9. Freed(l, n, V, X, c, k + 1)
        BY <3>4, <3>7 DEF Freed
      <3> QED BY <3>8, <3>9
    <2> QED BY <2>1
  <1>4. Nat \subseteq S
    <2> HIDE DEF S
    <2> QED BY <1>2, <1>3, Induction
  <1> QED
    BY <1>0, <1>1, <1>4

\* The parent of h is not below h.
LEMMA NotBelowItself ==
  ASSUME NEW l, NEW V, NEW X, Good(l, V, X), NEW h \in V, NEW S, Below(l, V, h, S)
  PROVE  l[h].parent \notin S
  <1>1. S \in SUBSET Slot /\ S # {}
    BY DEF Below, Upwards, Good
  <1>2. \E x \in S : l[x]["parent"] \notin S
    BY <1>1 DEF Good, NoCycle
  <1> QED BY <1>2 DEF Below, Upwards

\* What is below h goes, h stays.
LEMMA ClearGood ==
  ASSUME NEW l, NEW V, NEW X, Good(l, V, X), NEW h \in V, NEW S, Below(l, V, h, S)
  PROVE  /\ Good(Erase(UnlinkAll(l, Chain(l, h)), S \ {h}), V \ (S \ {h}), X \ (S \ {h}))
         /\ S \ {h} \subseteq V
  <1>1. PICK c : c = Chain(l, h)
    OBVIOUS
  <1>2. ChainOf(l, V, h, c)
    BY <1>1, ChainIs
  <1>3. c \in Seq(V) /\ Len(c) \in Nat
    BY <1>2 DEF ChainOf
  <1>4. PICK m : m = UnlinkAll(l, c)
    OBVIOUS
  <1>5. Freed(l, m, V, X, c, Len(c))
    BY <1>3, <1>4, UnlinkAllGood
  <1>6. \A y \in V : m[y].parent = IF l[y].parent = h THEN Nil ELSE l[y].parent
    <2> SUFFICES ASSUME NEW y \in V PROVE m[y].parent = IF l[y].parent = h THEN Nil ELSE l[y].parent
      OBVIOUS
    <2>1. (\E j \in 1..Len(c) : c[j] = y) <=> l[y].parent = h
      BY <1>2 DEF ChainOf
    <2> QED BY <1>5, <2>1 DEF Freed
  <1> DEFINE T == S \ {h}
  <1>7. T \in SUBSET V /\ Nil \notin V /\ S \subseteq V
    BY NilNoSlot DEF Below, Upwards, Good
  <1>8. Root \notin T
    <2>1. l[Root].parent = Nil
      BY DEF Good
    <2> QED BY <1>7, <2>1 DEF Below, Upwards
  <1>9. \A x \in T : m[x].parent \in T \cup {Nil}
    BY <1>6, <1>7 DEF Below, Upwards
  <1>10. \A x \in V : m[x].parent \in T => x \in T
    <2>1. l[h].parent \notin S
      BY NotBelowItself
    <2> QED BY <1>6, <1>7, <2>1 DEF Below, Downwards
  <1>11. Good(Erase(m, T), V \ T, X \ T)
    <2> HIDE DEF T
    <2> QED BY <1>5, <1>7, <1>8, <1>9, <1>10, EraseGood DEF Freed
  <1> QED
    BY <1>1, <1>4, <1>7, <1>11

\* h goes and all below it.
LEMMA RemoveGood ==
  ASSUME NEW l, NEW V, NEW X, Good(l, V, X), NEW h \in V \ {Root}, NEW S, Below(l, V, h, S),
         NEW m, m = IF l[h].parent # Nil THEN Unlink(l, h) ELSE l
  PROVE  Good(Erase(m, S), V \ S, X \ S) /\ S \subseteq V
  <1>1. S \in SUBSET V /\ Nil \notin V /\ V \subseteq Slot
    BY NilNoSlot DEF Below, Upwards, Good
  <1>2. Good(m, V, X) /\ \A y \in V : m[y].parent = IF y = h THEN Nil ELSE l[y].parent
    <2>1. CASE l[h].parent = Nil
      BY <2>1
    <2>2. CASE l[h].parent # Nil
      <3>1. m = Unlink(l, h)
        BY <2>2
      <3>2. Good(m, V, X) /\ Parted(l, m, l[h].parent, l[h].prev, l[h].next, h)
        BY <3>1, UnlinkGood
      <3> QED BY <1>1, <3>2 DEF Parted
    <2> QED BY <2>1, <2>2
  <1>3. Root \notin S
    <2>1. l[Root].parent = Nil
      BY DEF Good
    <2> QED BY <1>1, <2>1 DEF Below, Upwards
  <1>4. \A x \in S : m[x].parent \in S \cup {Nil}
    BY <1>1, <1>2 DEF Below, Upwards
  <1>5. \A x \in V : m[x].parent \in S => x \in S
    BY <1>1, <1>2 DEF Below, Downwards
  <1> QED
    BY <1>1, <1>2, <1>3, <1>4, <1>5, EraseGood

\* A new node becomes the last child of p.
LEMMA AppendGood ==
  ASSUME NEW l, NEW V, NEW X, Good(l, V, X), NEW p \in V \ X,
         NEW i \in Slot \ V, NEW Y \in SUBSET {i}
  PROVE  Good(LinkLast(l, p, i), V \cup {i}, X \cup Y)
  <1> DEFINE V2 == V \cup {i}
             X2 == X \cup Y
             m == LinkTo(l, "last", p, i)
  <1>1. Good(l, V2, X2)
    BY AddedGood
  <1>2. /\ p \in V2 \ X2 /\ i \in V2 \ {Root} /\ i # p /\ l[i].parent = Nil
        /\ Place(l, V2, p, "last", p)
    <2>1. l[i] = Blank /\ Root \in V
      BY DEF Good
    <2> QED BY <2>1 DEF Blank, Place
  <1>3. Above(l, V, p) /\ i \notin V
    BY DEF Good, Within, Above
  <1> HIDE DEF V2, X2
  <1>4. Typed(m) /\ \E a, b : Between(l, V2, p, a, b) /\ Joined(l, m, p, a, b, i)
    BY <1>1, <1>2, LinkToJoins
  <1>5. Good(m, V2, X2)
    BY <1>1, <1>2, <1>3, <1>4, JoinedGood
  <1>6. m = LinkLast(l, p, i)
    BY DEF LinkTo
  <1> QED
    BY <1>5, <1>6 DEF V2, X2

-----------------------------------------------------------------------------
(* Copies.                                                                 *)

\* deep_clone.  The links of the copy of x: those of x, within the copy.
Fields == {"parent", "first", "last", "prev", "next"}
CopyOf(l, h, from, copy, x) ==
  [f \in DOMAIN Blank |->
     IF x = h /\ f \in {"parent", "prev", "next"} THEN Nil
     ELSE IF l[x][f] \in from THEN copy[l[x][f]] ELSE Nil]

\* m is l with a copy of the slots from in the slots S.
Copied(l, m, h, from, S, copy) ==
  /\ Typed(m)
  /\ copy \in [from -> S]
  /\ \A x, y \in from : copy[x] = copy[y] => x = y
  /\ \A i \in S : \E x \in from : copy[x] = i
  /\ \A i \in Slot \ S : m[i] = l[i]
  /\ \A x \in from : m[copy[x]] = CopyOf(l, h, from, copy, x)

\* One field of a copy.
LEMMA CopyFields ==
  ASSUME NEW l, NEW h, NEW from, NEW copy, NEW x
  PROVE  \A f \in Fields : CopyOf(l, h, from, copy, x)[f] =
                           IF x = h /\ f \in {"parent", "prev", "next"} THEN Nil
                           ELSE IF l[x][f] \in from THEN copy[l[x][f]] ELSE Nil
  <1>1. DOMAIN Blank = Fields
    BY DEF Blank, Fields
  <1> QED BY <1>1 DEF CopyOf

\* A copy has five links.
LEMMA CopyTyped ==
  ASSUME NEW l, NEW h, NEW from \in SUBSET Slot, NEW copy \in [from -> Slot], NEW x \in Slot
  PROVE  CopyOf(l, h, from, copy, x) \in
           [parent : Link, first : Link, last : Link, prev : Link, next : Link]
  <1>1. DOMAIN Blank = Fields
    BY DEF Blank, Fields
  <1>2. \A f \in Fields : (IF x = h /\ f \in {"parent", "prev", "next"} THEN Nil
                           ELSE IF l[x][f] \in from THEN copy[l[x][f]] ELSE Nil) \in Link
    BY NilNoSlot
  <1>3. CopyOf(l, h, from, copy, x) \in [Fields -> Link]
    BY <1>1, <1>2, Zenon DEF CopyOf
  <1>4. PICK r \in [Fields -> Link] : r = CopyOf(l, h, from, copy, x)
    BY <1>3
  <1>5. r \in [parent : Link, first : Link, last : Link, prev : Link, next : Link]
    BY Zenon DEF Fields
  <1> QED BY <1>4, <1>5

\* The copy of y, when it has one.
Image(from, copy, y) == IF y \in from THEN copy[y] ELSE Nil

\* The copies are linked like the slots they are copies of, in a tree of their own.
Mirrored(l, m, h, from, copy) ==
  \A x \in from :
    /\ m[copy[x]].parent = IF x = h THEN Nil ELSE Image(from, copy, l[x].parent)
    /\ m[copy[x]].prev = IF x = h THEN Nil ELSE Image(from, copy, l[x].prev)
    /\ m[copy[x]].next = IF x = h THEN Nil ELSE Image(from, copy, l[x].next)
    /\ m[copy[x]].first = Image(from, copy, l[x].first)
    /\ m[copy[x]].last = Image(from, copy, l[x].last)

\* The fields of the copies, one by one.
LEMMA CopiedMirrors ==
  ASSUME NEW l, NEW m, NEW h, NEW from, NEW S, NEW copy, Copied(l, m, h, from, S, copy)
  PROVE  Mirrored(l, m, h, from, copy)
  <1> SUFFICES ASSUME NEW x \in from
               PROVE
      /\ m[copy[x]].parent = IF x = h THEN Nil ELSE Image(from, copy, l[x].parent)
      /\ m[copy[x]].prev = IF x = h THEN Nil ELSE Image(from, copy, l[x].prev)
      /\ m[copy[x]].next = IF x = h THEN Nil ELSE Image(from, copy, l[x].next)
      /\ m[copy[x]].first = Image(from, copy, l[x].first)
      /\ m[copy[x]].last = Image(from, copy, l[x].last)
    BY DEF Mirrored
  <1>1. PICK r : r = CopyOf(l, h, from, copy, x)
    OBVIOUS
  <1>2. \A f \in Fields : r[f] = IF x = h /\ f \in {"parent", "prev", "next"} THEN Nil
                                 ELSE IF l[x][f] \in from THEN copy[l[x][f]] ELSE Nil
    BY <1>1, CopyFields
  <1>3. m[copy[x]] = r
    BY <1>1 DEF Copied
  <1>4. /\ r.parent = IF x = h THEN Nil ELSE Image(from, copy, l[x].parent)
        /\ r.prev = IF x = h THEN Nil ELSE Image(from, copy, l[x].prev)
        /\ r.next = IF x = h THEN Nil ELSE Image(from, copy, l[x].next)
        /\ r.first = Image(from, copy, l[x].first)
        /\ r.last = Image(from, copy, l[x].last)
    BY <1>2 DEF Fields, Image
  <1> QED
    BY <1>3, <1>4

\* What the slots of a subtree are linked to, the root's own place apart.
Closed(l, h, from) ==
  \A x \in from :
    /\ l[x].first \in from \cup {Nil} /\ l[x].last \in from \cup {Nil}
    /\ l[x].first # h /\ l[x].last # h /\ x # Nil
    /\ x # h => /\ l[x].parent \in from
                /\ l[x].prev \in from \cup {Nil} /\ l[x].next \in from \cup {Nil}
                /\ l[x].prev # h /\ l[x].next # h
    /\ NearEnds(l, x) /\ NearSides(l, x)

\* The links of a subtree stay in it.
LEMMA SubtreeClosed ==
  ASSUME NEW l, NEW V, NEW X, Good(l, V, X), NEW h \in V, NEW from, Below(l, V, h, from)
  PROVE  Closed(l, h, from)
  <1>0. /\ from \subseteq V /\ l[h].parent \notin from
        /\ \A x \in from \ {h} : l[x].parent \in from
        /\ \A y \in V : l[y].parent \in from => y \in from
    BY NotBelowItself DEF Below, Upwards, Downwards
  <1>1. SUFFICES ASSUME NEW x \in from
        PROVE  /\ l[x].first \in from \cup {Nil} /\ l[x].last \in from \cup {Nil}
               /\ l[x].first # h /\ l[x].last # h /\ x # Nil
               /\ x # h => /\ l[x].parent \in from
                           /\ l[x].prev \in from \cup {Nil} /\ l[x].next \in from \cup {Nil}
                           /\ l[x].prev # h /\ l[x].next # h
               /\ NearEnds(l, x) /\ NearSides(l, x)
    BY DEF Closed
  <1>2. /\ x \in V /\ x # Nil /\ h # Nil /\ NearEnds(l, x) /\ NearSides(l, x)
        /\ l[x].first \in V \cup {Nil} /\ l[x].last \in V \cup {Nil}
        /\ l[x].prev \in V \cup {Nil} /\ l[x].next \in V \cup {Nil}
    BY <1>0, NilNoSlot DEF Good, Within
  <1>3. l[x].first \in from \cup {Nil} /\ l[x].last \in from \cup {Nil}
    BY <1>0, <1>2 DEF NearEnds
  <1>4. l[x].first # h /\ l[x].last # h
    BY <1>0, <1>2 DEF NearEnds
  <1>5. ASSUME x # h
        PROVE  /\ l[x].parent \in from
               /\ l[x].prev \in from \cup {Nil} /\ l[x].next \in from \cup {Nil}
               /\ l[x].prev # h /\ l[x].next # h
    BY <1>0, <1>2, <1>5 DEF NearSides
  <1> QED BY <1>2, <1>3, <1>4, <1>5

\* Copies agree with their neighbours because the originals do.
LEMMA CopyNear ==
  ASSUME NEW l, NEW m, NEW h, NEW from, NEW S, NEW copy \in [from -> S],
         Nil \notin S, Nil \notin from,
         h \in from, Closed(l, h, from), Mirrored(l, m, h, from, copy), NEW x \in from
  PROVE  NearEnds(m, copy[x]) /\ NearSides(m, copy[x])
  <1>0. /\ \A y \in from : copy[y] # Nil
        /\ l[x].first \in from \cup {Nil} /\ l[x].last \in from \cup {Nil}
        /\ l[x].first # h /\ l[x].last # h
        /\ x # h => /\ l[x].parent \in from
                    /\ l[x].prev \in from \cup {Nil} /\ l[x].next \in from \cup {Nil}
                    /\ l[x].prev # h /\ l[x].next # h
        /\ NearEnds(l, x) /\ NearSides(l, x)
    BY DEF Closed
  <1>1. /\ m[copy[x]].first = Nil <=> l[x].first = Nil
        /\ m[copy[x]].last = Nil <=> l[x].last = Nil
        /\ l[x].first # Nil => m[copy[x]].first = copy[l[x].first]
        /\ l[x].last # Nil => m[copy[x]].last = copy[l[x].last]
    BY <1>0 DEF Mirrored, Image
  <1>2. NearEnds(m, copy[x])
    <2>1. m[copy[x]].first = Nil <=> m[copy[x]].last = Nil
      BY <1>0, <1>1 DEF NearEnds
    <2>2. ASSUME l[x].first # Nil
          PROVE  m[copy[l[x].first]].parent = copy[x] /\ m[copy[l[x].first]].prev = Nil
      <3>1. PICK y : y = l[x].first
        OBVIOUS
      <3>2. y \in from /\ y # h /\ l[y].parent = x /\ l[y].prev = Nil
        BY <1>0, <2>2, <3>1 DEF NearEnds
      <3>3. m[copy[y]].parent = copy[x] /\ m[copy[y]].prev = Nil
        BY <3>2 DEF Mirrored, Image
      <3> QED BY <3>1, <3>3
    <2>3. ASSUME l[x].last # Nil
          PROVE  m[copy[l[x].last]].parent = copy[x] /\ m[copy[l[x].last]].next = Nil
      <3>1. PICK y : y = l[x].last
        OBVIOUS
      <3>2. y \in from /\ y # h /\ l[y].parent = x /\ l[y].next = Nil
        BY <1>0, <2>3, <3>1 DEF NearEnds
      <3>3. m[copy[y]].parent = copy[x] /\ m[copy[y]].next = Nil
        BY <3>2 DEF Mirrored, Image
      <3> QED BY <3>1, <3>3
    <2> QED BY <1>1, <2>1, <2>2, <2>3 DEF NearEnds
  <1>3. CASE x = h
    <2>1. m[copy[x]].parent = Nil /\ m[copy[x]].prev = Nil /\ m[copy[x]].next = Nil
      BY <1>3 DEF Mirrored
    <2> QED BY <1>2, <2>1 DEF NearSides
  <1>4. CASE x # h
    <2>1. PICK p : p = l[x].parent
      OBVIOUS
    <2>2. p \in from /\ m[copy[x]].parent = copy[p] /\ copy[p] # Nil
      BY <1>0, <1>4, <2>1 DEF Mirrored, Image
    <2>3. /\ m[copy[x]].next = Nil <=> l[x].next = Nil
          /\ m[copy[x]].prev = Nil <=> l[x].prev = Nil
          /\ l[x].next # Nil => m[copy[x]].next = copy[l[x].next]
          /\ l[x].prev # Nil => m[copy[x]].prev = copy[l[x].prev]
      BY <1>0, <1>4 DEF Mirrored, Image
    <2>4. ASSUME l[x].next # Nil
          PROVE  m[copy[l[x].next]].prev = copy[x] /\ m[copy[l[x].next]].parent = copy[p]
      <3>1. PICK y : y = l[x].next
        OBVIOUS
      <3>2. y \in from /\ y # h /\ l[y].prev = x /\ l[y].parent = p
        BY <1>0, <1>4, <2>1, <2>4, <3>1 DEF NearSides
      <3>3. m[copy[y]].prev = copy[x] /\ m[copy[y]].parent = copy[p]
        BY <2>2, <3>2 DEF Mirrored, Image
      <3> QED BY <3>1, <3>3
    <2>5. ASSUME l[x].prev # Nil
          PROVE  m[copy[l[x].prev]].next = copy[x] /\ m[copy[l[x].prev]].parent = copy[p]
      <3>1. PICK y : y = l[x].prev
        OBVIOUS
      <3>2. y \in from /\ y # h /\ l[y].next = x /\ l[y].parent = p
        BY <1>0, <1>4, <2>1, <2>5, <3>1 DEF NearSides
      <3>3. m[copy[y]].next = copy[x] /\ m[copy[y]].parent = copy[p]
        BY <2>2, <3>2 DEF Mirrored, Image
      <3> QED BY <3>1, <3>3
    <2>6. l[x].prev = Nil => m[copy[p]].first = copy[x]
      <3>1. p # Nil
        BY <2>2
      <3>2. l[x].prev = Nil => l[p].first = x
        BY <1>0, <2>1, <3>1 DEF NearSides
      <3> QED BY <2>2, <3>2 DEF Mirrored, Image
    <2>7. l[x].next = Nil => m[copy[p]].last = copy[x]
      <3>1. p # Nil
        BY <2>2
      <3>2. l[x].next = Nil => l[p].last = x
        BY <1>0, <2>1, <3>1 DEF NearSides
      <3> QED BY <2>2, <3>2 DEF Mirrored, Image
    <2>8. NearSides(m, copy[x])
      BY <2>2, <2>3, <2>4, <2>5, <2>6, <2>7 DEF NearSides
    <2> QED BY <1>2, <2>8
  <1> QED BY <1>3, <1>4

\* Y are copies of slots of X.
Twins(Y, X, copy) == \A y \in Y : \E x \in X : y = copy[x]

\* A copy of a subtree in slots without nodes is one more tree.
LEMMA CopyGood ==
  ASSUME NEW l, NEW V, NEW X, Good(l, V, X), NEW h \in V, NEW from, Below(l, V, h, from),
         NEW S \in SUBSET (Slot \ V), NEW m, NEW copy, Copied(l, m, h, from, S, copy),
         NEW Y, Twins(Y, from \cap X, copy)
  PROVE  Good(m, V \cup S, X \cup Y)
  <1>0. /\ V \subseteq Slot /\ Nil \notin Slot /\ from \subseteq V /\ h \in from
        /\ Typed(m) /\ copy \in [from -> S] /\ Root \in V
        /\ \A i \in S : \E x \in from : copy[x] = i
        /\ \A i \in Slot \ S : m[i] = l[i]
    BY NilNoSlot DEF Good, Below, Upwards, Copied
  <1>1. Closed(l, h, from) /\ Mirrored(l, m, h, from, copy)
    BY SubtreeClosed, CopiedMirrors
  <1>2. \A i \in S : NearEnds(m, i) /\ NearSides(m, i)
    <2> SUFFICES ASSUME NEW i \in S PROVE NearEnds(m, i) /\ NearSides(m, i)
      OBVIOUS
    <2>1. PICK x \in from : copy[x] = i
      BY <1>0
    <2>2. Nil \notin S /\ Nil \notin from
      BY <1>0
    <2>3. NearEnds(m, copy[x]) /\ NearSides(m, copy[x])
      BY <1>0, <1>1, <2>2, CopyNear
    <2> QED BY <2>1, <2>3
  <1>3. \A i \in S : /\ m[i].parent \in S \cup {Nil} /\ m[i].first \in S \cup {Nil}
                     /\ m[i].last \in S \cup {Nil} /\ m[i].prev \in S \cup {Nil}
                     /\ m[i].next \in S \cup {Nil}
    <2> SUFFICES ASSUME NEW i \in S
                 PROVE /\ m[i].parent \in S \cup {Nil} /\ m[i].first \in S \cup {Nil}
                       /\ m[i].last \in S \cup {Nil} /\ m[i].prev \in S \cup {Nil}
                       /\ m[i].next \in S \cup {Nil}
      OBVIOUS
    <2>1. PICK x \in from : copy[x] = i
      BY <1>0
    <2>2. \A y : Image(from, copy, y) \in S \cup {Nil}
      BY <1>0 DEF Image
    <2> QED BY <1>1, <2>1, <2>2 DEF Mirrored
  <1>4. \A i \in V : m[i] = l[i] /\ i \notin S
    BY <1>0
  <1>5. \A i \in V : /\ l[i].parent \in V \cup {Nil} /\ l[i].first \in V \cup {Nil}
                     /\ l[i].last \in V \cup {Nil} /\ l[i].prev \in V \cup {Nil}
                     /\ l[i].next \in V \cup {Nil} /\ NearEnds(l, i) /\ NearSides(l, i)
    BY DEF Good, Within
  <1>6. Within(m, V \cup S)
    BY <1>3, <1>4, <1>5 DEF Within
  <1>7. \A i \in V : NearEnds(m, i) /\ NearSides(m, i)
    <2> SUFFICES ASSUME NEW i \in V PROVE NearEnds(m, i) /\ NearSides(m, i)
      OBVIOUS
    <2>1. m[i] = l[i] /\ NearEnds(l, i) /\ NearSides(l, i)
      BY <1>4, <1>5
    <2>2. /\ l[i].first # Nil => m[l[i].first] = l[l[i].first]
          /\ l[i].last # Nil => m[l[i].last] = l[l[i].last]
          /\ l[i].prev # Nil => m[l[i].prev] = l[l[i].prev]
          /\ l[i].next # Nil => m[l[i].next] = l[l[i].next]
          /\ l[i].parent # Nil => m[l[i].parent] = l[l[i].parent]
      BY <1>4, <1>5
    <2> QED BY <2>1, <2>2 DEF NearEnds, NearSides
  <1>8. \A i \in Slot \ (V \cup S) : m[i] = Blank
    BY <1>0 DEF Good
  <1>9. ASSUME NEW f \in {"parent", "next"} PROVE NoCycle(m, f)
    <2> SUFFICES ASSUME NEW W \in SUBSET Slot, W # {}, \A x \in W : m[x][f] \in W PROVE FALSE
      BY DEF NoCycle
    <2>0. NoCycle(l, f)
      BY <1>9 DEF Good
    <2>1. \A x \in Slot \ S : l[x][f] \notin S
      <3>1. \A x \in V : l[x].parent \notin S /\ l[x].next \notin S
        BY <1>0, <1>5
      <3>2. \A x \in Slot \ V : l[x].parent \notin S /\ l[x].next \notin S
        BY <1>0 DEF Good, Blank
      <3> QED BY <1>9, <3>1, <3>2
    <2>2. CASE W \subseteq S
      <3> DEFINE U == {x \in from : copy[x] \in W}
      <3>1. U \in SUBSET Slot /\ U # {}
        BY <1>0, <2>2
      <3>2. ASSUME NEW x \in U PROVE l[x][f] \in U
        <4>1. m[copy[x]][f] \in W /\ m[copy[x]][f] # Nil
          BY <1>0
        <4>2. m[copy[x]][f] = IF x = h THEN Nil ELSE Image(from, copy, l[x][f])
          BY <1>1, <1>9 DEF Mirrored
        <4> QED BY <4>1, <4>2 DEF Image
      <3> HIDE DEF U
      <3> QED BY <2>0, <3>1, <3>2 DEF NoCycle
    <2>3. CASE ~(W \subseteq S)
      <3>1. W \ S # {} /\ W \ S \in SUBSET Slot
        BY <2>3
      <3>2. \A x \in W \ S : l[x][f] \in W \ S
        <4> SUFFICES ASSUME NEW x \in W \ S PROVE l[x][f] \in W \ S
          OBVIOUS
        <4>1. m[x] = l[x]
          BY <1>0
        <4> QED BY <2>1, <4>1
      <3> QED BY <2>0, <3>1, <3>2 DEF NoCycle
    <2> QED BY <2>2, <2>3
  <1>10. \A i \in X \cup Y : m[i].first = Nil
    <2>1. \A i \in X : i \in V /\ l[i].first = Nil
      BY DEF Good
    <2>2. \A i \in X : m[i].first = Nil
      BY <1>4, <2>1
    <2>3. \A x \in from \cap X : m[copy[x]].first = Nil
      <3>1. Nil \notin from
        BY <1>0
      <3> QED BY <1>1, <2>1, <3>1 DEF Mirrored, Image
    <2> QED BY <2>2, <2>3 DEF Twins
  <1>11. Y \subseteq S /\ X \subseteq V \ {Root} /\ m[Root].parent = Nil /\ Root \notin S
    BY <1>0 DEF Good, Twins
  <1> QED
    BY <1>0, <1>2, <1>6, <1>7, <1>8, <1>9, <1>10, <1>11 DEF Good

-----------------------------------------------------------------------------
(* Slots, and the calls.                                                   *)

\* Of n slots, L hold nodes and fr are free.
Places(n, L, fr) ==
  /\ n \in 1..Capacity /\ L \subseteq 0..(n - 1) /\ fr \subseteq (0..(n - 1)) \ L

\* The inductive invariant.
Linked == Good(links, live, texts) /\ Places(count, live, free)

\* Slots that are taken held no node.
LEMMA FilledPlaces ==
  ASSUME NEW n, NEW L, NEW fr, Places(n, L, fr), NEW S \in SUBSET Slot, CanAlloc(S, fr, n)
  PROVE  /\ Places(n + Cardinality(S \ fr), L \cup S, fr \ S)
         /\ S \subseteq Slot \ L /\ S \subseteq 0..((n + Cardinality(S \ fr)) - 1)
  <1> DEFINE new == S \ fr
             k == Cardinality(new)
  <1>0. /\ Capacity \in Nat /\ n \in Nat /\ n >= 1 /\ n <= Capacity
        /\ L \subseteq 0..(n - 1) /\ fr \subseteq (0..(n - 1)) \ L
    BY SlotsCount DEF Places
  <1>1. IsFiniteSet(new) /\ k \in Nat
    BY SlotsCount, FS_Subset, FS_CardinalityType
  <1>2. new = n..(n + k - 1) /\ new \subseteq Slot
    BY DEF CanAlloc
  <1> HIDE DEF new, k
  <1>3. n + k <= Capacity
    <2>1. CASE k = 0
      BY <1>0, <2>1
    <2>2. CASE k # 0
      <3>1. n + k - 1 \in new
        BY <1>0, <1>1, <1>2, <2>2
      <3> QED BY <1>0, <1>1, <1>2, <3>1 DEF Slot
    <2> QED BY <2>1, <2>2
  <1>4. \A i \in S : i \in fr \/ i \in new
    BY DEF new
  <1>5. \A i \in 0..(n - 1) : i \in 0..((n + k) - 1) /\ i \notin new
    BY <1>0, <1>1, <1>2
  <1>6. \A i \in new : i \in 0..((n + k) - 1) /\ i \notin L
    BY <1>0, <1>1, <1>2, <1>5
  <1>7. \A i \in S : i \in 0..((n + k) - 1) /\ i \notin L
    BY <1>0, <1>4, <1>5, <1>6
  <1>8. L \cup S \subseteq 0..((n + k) - 1)
    BY <1>0, <1>5, <1>7
  <1>9. fr \ S \subseteq (0..((n + k) - 1)) \ (L \cup S)
    BY <1>0, <1>5
  <1>10. n + k \in 1..Capacity
    BY <1>0, <1>1, <1>3
  <1> QED
    BY <1>7, <1>8, <1>9, <1>10 DEF Places, k, new

\* The same for one slot.
LEMMA FilledOne ==
  ASSUME NEW n, NEW L, NEW fr, Places(n, L, fr), NEW i \in Slot, CanAlloc({i}, fr, n)
  PROVE  Places(n + Cardinality({i} \ fr), L \cup {i}, fr \ {i}) /\ i \in Slot \ L
  <1>1. PICK S : S = {i}
    OBVIOUS
  <1>2. S \in SUBSET Slot /\ CanAlloc(S, fr, n)
    BY <1>1
  <1>3. Places(n + Cardinality(S \ fr), L \cup S, fr \ S) /\ S \subseteq Slot \ L
    BY <1>2, FilledPlaces
  <1> QED BY <1>1, <1>3

\* Slots that are freed.
LEMMA FreedPlaces ==
  ASSUME Linked, NEW S \in SUBSET live
  PROVE  Places(count, live \ S, Recycled(S))
  BY DEF Linked, Places, Recycled

\* Init: the root alone.
LEMMA StartsLinked ==
  ASSUME Init
  PROVE  Linked
  <1>0. Capacity \in Nat \ {0} /\ Root \in Slot /\ Nil \notin Slot /\ Nil \in Link
    BY SlotsCount, NilNoSlot DEF Root, Slot
  <1>1. \A i \in Slot : links[i] = Blank
    BY DEF Init
  <1>2. Typed(links)
    <2>1. Blank \in [parent : Link, first : Link, last : Link, prev : Link, next : Link]
      BY <1>0 DEF Blank
    <2> QED BY <2>1 DEF Init, Typed
  <1>3. Within(links, live)
    BY <1>0, <1>1 DEF Init, Within, Blank
  <1>4. \A i \in live : NearEnds(links, i) /\ NearSides(links, i)
    BY <1>0, <1>1 DEF Init, NearEnds, NearSides, Blank
  <1>5. ASSUME NEW f \in {"parent", "next"} PROVE NoCycle(links, f)
    <2>1. \A i \in Slot : links[i][f] = Nil
      BY <1>1, <1>5 DEF Blank
    <2> QED BY <1>0, <2>1 DEF NoCycle
  <1>6. Good(links, live, texts)
    BY <1>0, <1>1, <1>2, <1>3, <1>4, <1>5 DEF Init, Good, Blank
  <1>7. Places(count, live, free)
    BY <1>0 DEF Init, Places, Root
  <1> QED
    BY <1>6, <1>7 DEF Linked

\* A list that check_batch lets pass keeps the links good, and moves no other node.
LEMMA BatchGood ==
  ASSUME Linked, NEW p \in live \ texts, NEW list \in Batches, BatchOK(p, list),
         NEW how, NEW at, NEW c, c = Slots(list) \/ c = Reverse(Slots(list)),
         Aim(links, live, p, how, at, c)
  PROVE  /\ Good(LinkAll(links, how, at, c), live, texts)
         /\ \A y \in live :
               links[y].parent # Nil => LinkAll(links, how, at, c)[y].parent = links[y].parent
  <1>1. PICK A : A = Trail(links, p, "parent")
    OBVIOUS
  <1>2. Fit(links, live, texts, A, p, c)
    BY <1>1, BatchFits, ReverseFits DEF Linked
  <1>3. Stage(links, LinkAll(links, how, at, c), live, texts, A, p, c, Len(c))
    BY <1>2, LinkAllGood DEF Linked
  <1>4. \A y \in live : links[y].parent # Nil => \A j \in 1..Len(c) : y # c[j]
    BY <1>2 DEF Fit
  <1> QED
    BY <1>3, <1>4 DEF Stage

\* The slots a list names.
LEMMA ListSlots ==
  ASSUME NEW list \in Batches
  PROVE  /\ DOMAIN list = 1..Len(Slots(list)) /\ Len(Slots(list)) \in Nat
         /\ Len(Reverse(Slots(list))) = Len(Slots(list))
         /\ \A k \in 1..Len(Slots(list)) : Slots(list)[k] = list[k].index
  <1>1. PICK n \in Nat : list \in [1..n -> issued]
    <2>1. PICK n \in 0..MaxBatch : list \in [1..n -> issued]
      BY DEF Batches
    <2> QED BY <2>1, ArenaAssumption
  <1>2. DOMAIN list = 1..n
    BY <1>1
  <1>3. Len(Slots(list)) = n
    BY <1>1, <1>2 DEF Slots
  <1>4. Len(Reverse(Slots(list))) = n
    BY <1>1, <1>3 DEF Reverse
  <1> QED
    BY <1>1, <1>2, <1>3, <1>4 DEF Slots

\* Each call keeps the invariant.
LEMMA RelinkLinks ==
  ASSUME Linked, NEW l, Good(l, live, texts), Relink(l)
  PROVE  Linked'
  BY DEF Linked, Relink

\* What the guards of the calls say.
LEMMA ContainerHolds ==
  ASSUME Linked, NEW h, Container(h)
  PROVE  h.index \in live \ texts
  BY DEF Container, Valid

\* An attached node has a parent that holds children.
LEMMA AttachedHolds ==
  ASSUME Linked, NEW h, Attached(h)
  PROVE  /\ h.index \in live \ {Root}
         /\ links[h.index].parent # Nil /\ links[h.index].parent \in live \ texts
  <1>1. h.index \in live /\ links[h.index].parent # Nil /\ h.index # Root
    BY DEF Attached, Valid
  <1> QED
    BY <1>1, HasFirst DEF Linked

\* The calls that take a list.
LEMMA BatchCallsLink ==
  ASSUME Linked, NEW h, NEW list \in Batches,
         \/ AppendChildren(h, list) \/ PrependChildren(h, list) \/ InsertBefore(h, list)
         \/ InsertAfter(h, list) \/ ReplaceWith(h, list)
  PROVE  Linked'
  <1>0. PICK c : c = Slots(list)
    OBVIOUS
  <1>1. /\ DOMAIN list = 1..Len(c) /\ Len(c) \in Nat /\ Len(Reverse(c)) = Len(c)
        /\ \A k \in 1..Len(c) : c[k] = list[k].index
    BY <1>0, ListSlots
  <1>2. CASE AppendChildren(h, list)
    <2>1. PICK at : at = [k \in DOMAIN list |-> h.index]
      OBVIOUS
    <2>2. h.index \in live \ texts /\ BatchOK(h.index, list) /\ Relink(LinkAll(links, "last", at, c))
      BY <1>0, <1>2, <2>1, ContainerHolds DEF AppendChildren
    <2>3. Aim(links, live, h.index, "last", at, c)
      BY <1>1, <2>1 DEF Aim
    <2> QED BY <1>0, <2>2, <2>3, BatchGood, RelinkLinks
  <1>3. CASE PrependChildren(h, list)
    <2>1. PICK at, d : at = [k \in DOMAIN list |-> h.index] /\ d = Reverse(c)
      OBVIOUS
    <2>2. h.index \in live \ texts /\ BatchOK(h.index, list)
          /\ Relink(LinkAll(links, "first", at, d))
      BY <1>0, <1>3, <2>1, ContainerHolds DEF PrependChildren
    <2>3. Aim(links, live, h.index, "first", at, d)
      BY <1>1, <2>1 DEF Aim
    <2> QED BY <1>0, <2>1, <2>2, <2>3, BatchGood, RelinkLinks
  <1>4. CASE InsertBefore(h, list)
    <2>1. PICK at, p : at = [k \in DOMAIN list |-> h.index] /\ p = links[h.index].parent
      OBVIOUS
    <2>2. /\ h.index \in live /\ p \in live \ texts /\ BatchOK(p, list)
          /\ Relink(LinkAll(links, "before", at, c))
      BY <1>0, <1>4, <2>1, AttachedHolds DEF InsertBefore
    <2>3. Aim(links, live, p, "before", at, c)
      BY <1>1, <2>1, <2>2 DEF Aim
    <2> QED BY <1>0, <2>2, <2>3, BatchGood, RelinkLinks
  <1>5. CASE InsertAfter(h, list)
    <2>1. PICK at, p : /\ at = [k \in DOMAIN list |-> IF k = 1 THEN h.index ELSE list[k - 1].index]
                       /\ p = links[h.index].parent
      OBVIOUS
    <2>2. /\ h.index \in live /\ p \in live \ texts /\ BatchOK(p, list)
          /\ Relink(LinkAll(links, "after", at, c))
      BY <1>0, <1>5, <2>1, AttachedHolds DEF InsertAfter
    <2>3. \A k \in 1..Len(c) : k # 1 => k - 1 \in 1..Len(c) /\ c[k - 1] = list[k - 1].index
      <3> SUFFICES ASSUME NEW k \in 1..Len(c), k # 1
                   PROVE  k - 1 \in 1..Len(c) /\ c[k - 1] = list[k - 1].index
        OBVIOUS
      <3>1. k - 1 \in 1..Len(c)
        BY <1>1
      <3> QED BY <1>1, <3>1
    <2>4. Aim(links, live, p, "after", at, c)
      BY <1>1, <2>1, <2>2, <2>3 DEF Aim
    <2> QED BY <1>0, <2>2, <2>4, BatchGood, RelinkLinks
  <1>6. CASE ReplaceWith(h, list)
    <2>1. PICK at, p, l : /\ at = [k \in DOMAIN list |-> h.index] /\ p = links[h.index].parent
                          /\ l = LinkAll(links, "before", at, c)
      OBVIOUS
    <2>2. /\ h.index \in live /\ p \in live \ texts /\ BatchOK(p, list)
          /\ Relink(Unlink(l, h.index))
      BY <1>0, <1>6, <2>1, AttachedHolds DEF ReplaceWith
    <2>3. Aim(links, live, p, "before", at, c)
      BY <1>1, <2>1, <2>2 DEF Aim
    <2>4. Good(l, live, texts)
      BY <1>0, <2>1, <2>2, <2>3, BatchGood
    <2>5. Good(Unlink(l, h.index), live, texts)
      BY <2>2, <2>4, UnlinkGood
    <2> QED BY <2>2, <2>5, RelinkLinks
  <1> QED
    BY <1>2, <1>3, <1>4, <1>5, <1>6

\* A detached node keeps its subtree.
LEMMA DetachLinks ==
  ASSUME Linked, NEW h, Detach(h)
  PROVE  Linked'
  <1>1. h.index \in live /\ Relink(Unlink(links, h.index))
    BY AttachedHolds DEF Detach
  <1>2. Good(Unlink(links, h.index), live, texts)
    BY <1>1, UnlinkGood DEF Linked
  <1> QED BY <1>1, <1>2, RelinkLinks

\* The calls that free slots.
LEMMA ReleaseLinks ==
  ASSUME Linked, NEW l, NEW S \in SUBSET live, Good(Erase(l, S), live \ S, texts \ S), Release(l, S)
  PROVE  Linked'
  <1>1. Places(count, live \ S, Recycled(S))
    BY FreedPlaces
  <1> QED BY <1>1 DEF Linked, Release

\* A removed node takes its subtree with it.
LEMMA RemoveNodeLinks ==
  ASSUME Linked, NEW h, RemoveNode(h)
  PROVE  Linked'
  <1>1. PICK i, S, m : /\ i = h.index /\ S = Subtree(links, h.index)
                       /\ m = IF Attached(h) THEN Unlink(links, h.index) ELSE links
    OBVIOUS
  <1>2. i \in live \ {Root} /\ Release(m, S) /\ live \subseteq 0..(count - 1)
    BY <1>1 DEF RemoveNode, Valid, Linked, Places
  <1>3. m = IF links[i].parent # Nil THEN Unlink(links, i) ELSE links
    BY <1>1, <1>2 DEF Attached, RemoveNode
  <1>4. Below(links, live, i, S)
    BY <1>1, <1>2, SubtreeBelow DEF Linked
  <1>5. Good(Erase(m, S), live \ S, texts \ S) /\ S \subseteq live
    BY <1>2, <1>3, <1>4, RemoveGood DEF Linked
  <1> QED BY <1>2, <1>5, ReleaseLinks

\* The children of a node go with all below them.
LEMMA ClearChildrenLinks ==
  ASSUME Linked, NEW h, ClearChildren(h)
  PROVE  Linked'
  <1>1. PICK i, S, T, m : /\ i = h.index /\ S = Subtree(links, h.index) /\ T = S \ {i}
                          /\ m = UnlinkAll(links, Chain(links, h.index))
    OBVIOUS
  <1>2. i \in live /\ Release(m, T) /\ live \subseteq 0..(count - 1)
    BY <1>1 DEF ClearChildren, Container, Valid, Linked, Places
  <1>3. Below(links, live, i, S)
    BY <1>1, <1>2, SubtreeBelow DEF Linked
  <1>4. Good(Erase(m, T), live \ T, texts \ T) /\ T \subseteq live
    <2>1. /\ Good(Erase(UnlinkAll(links, Chain(links, i)), S \ {i}),
                  live \ (S \ {i}), texts \ (S \ {i}))
          /\ S \ {i} \subseteq live
      BY <1>2, <1>3, ClearGood DEF Linked
    <2> QED BY <1>1, <2>1
  <1> QED BY <1>2, <1>4, ReleaseLinks

\* A node that is created takes one slot without a node.
LEMMA CreateLinks ==
  ASSUME Linked, NEW i \in Slot, NEW text \in BOOLEAN, Create(i, text)
  PROVE  Linked'
  <1>1. CanAlloc({i}, free, count) /\ Places(count, live, free)
    BY DEF Create, Fill, Linked
  <1>2. Places(count + Cardinality({i} \ free), live \cup {i}, free \ {i}) /\ i \in Slot \ live
    BY <1>1, FilledOne
  <1>3. PICK Y : Y = IF text THEN {i} ELSE {}
    OBVIOUS
  <1>4. Good(links, live \cup {i}, texts \cup Y)
    BY <1>2, <1>3, AddedGood DEF Linked
  <1> QED BY <1>2, <1>3, <1>4 DEF Create, Fill, Linked

\* A node that is created as a last child.
LEMMA AppendNewLinks ==
  ASSUME Linked, NEW h, NEW i \in Slot, NEW text \in BOOLEAN, AppendNew(h, i, text)
  PROVE  Linked'
  <1>1. CanAlloc({i}, free, count) /\ Places(count, live, free) /\ h.index \in live \ texts
    BY ContainerHolds DEF AppendNew, Fill, Linked
  <1>2. Places(count + Cardinality({i} \ free), live \cup {i}, free \ {i}) /\ i \in Slot \ live
    BY <1>1, FilledOne
  <1>3. PICK Y : Y = IF text THEN {i} ELSE {}
    OBVIOUS
  <1>4. Good(LinkLast(links, h.index, i), live \cup {i}, texts \cup Y)
    BY <1>1, <1>2, <1>3, AppendGood DEF Linked
  <1> QED BY <1>2, <1>3, <1>4 DEF AppendNew, Fill, Linked

\* Children go, one text comes, maybe in a slot of theirs.
LEMMA SetTextContentLinks ==
  ASSUME Linked, NEW h, NEW i \in Slot, SetTextContent(h, i)
  PROVE  Linked'
  <1>1. PICK j, S, T, m : /\ j = h.index /\ S = Subtree(links, h.index) /\ T = S \ {j}
                          /\ m = Erase(UnlinkAll(links, Chain(links, h.index)), T)
    OBVIOUS
  <1>2. /\ Container(h) /\ Fill({i}, Recycled(T), count)
        /\ live' = (live \ T) \cup {i} /\ texts' = (texts \ T) \cup {i}
        /\ links' = LinkLast(m, j, i)
    BY <1>1 DEF SetTextContent
  <1>3. j \in live \ texts /\ live \subseteq 0..(count - 1)
    BY <1>1, <1>2, ContainerHolds DEF Linked, Places
  <1>4. Below(links, live, j, S)
    BY <1>1, <1>3, SubtreeBelow DEF Linked
  <1>5. Good(m, live \ T, texts \ T) /\ T \subseteq live /\ j \notin T
    <2>1. /\ Good(Erase(UnlinkAll(links, Chain(links, j)), S \ {j}),
                  live \ (S \ {j}), texts \ (S \ {j}))
          /\ S \ {j} \subseteq live
      BY <1>3, <1>4, ClearGood DEF Linked
    <2> QED BY <1>1, <2>1
  <1>6. Places(count, live \ T, Recycled(T))
    BY <1>5, FreedPlaces
  <1>7. /\ Places(count + Cardinality({i} \ Recycled(T)), (live \ T) \cup {i}, Recycled(T) \ {i})
        /\ i \in Slot \ (live \ T)
    BY <1>2, <1>6, FilledOne DEF Fill
  <1>8. Good(LinkLast(m, j, i), (live \ T) \cup {i}, (texts \ T) \cup {i})
    BY <1>3, <1>5, <1>7, AppendGood
  <1> QED BY <1>2, <1>7, <1>8 DEF Fill, Linked

\* The copy takes slots without nodes, one for each slot of the subtree.
Cloned(m, i, S, copy) ==
  /\ i \in live \ {Root} /\ S \in SUBSET (Slot \ live) /\ Below(links, live, i, Subtree(links, i))
  /\ Copied(links, m, i, Subtree(links, i), S, copy)
  /\ live' = live \cup S /\ texts' = texts \cup {copy[x] : x \in Subtree(links, i) \cap texts}

\* deep_clone gives every slot of the subtree one of S for its copy.
LEMMA DeepCloneCopies ==
  ASSUME Linked, NEW h, NEW S \in SUBSET Slot, DeepClone(h, S), NEW m, m = links'
  PROVE  \E copy : Cloned(m, h.index, S, copy)
  <1> DEFINE i == h.index
             from == Subtree(links, h.index)
  <1>2. /\ i \in live \ {Root} /\ live \subseteq 0..(count - 1) /\ CanAlloc(S, free, count)
        /\ Places(count, live, free)
    BY DEF DeepClone, Valid, Linked, Places, Fill
  <1>3. Below(links, live, i, from)
    BY <1>2, SubtreeBelow DEF Linked
  <1>4. S \in SUBSET (Slot \ live)
    BY <1>2, FilledPlaces
  <1>5. PICK copy \in Bijection(from, S) :
          /\ live' = live \cup S /\ texts' = texts \cup {copy[x] : x \in from \cap texts}
          /\ links' = [k \in Slot |->
                        IF k \in S THEN CopyOf(links, i, from, copy, CHOOSE x \in from : copy[x] = k)
                                   ELSE links[k]]
    BY DEF DeepClone, CopyOf
  <1> HIDE DEF i, from
  <1>6. /\ copy \in [from -> S] /\ \A x, y \in from : copy[x] = copy[y] => x = y
        /\ \A k \in S : \E x \in from : copy[x] = k
    <2>1. copy \in Injection(from, S) /\ copy \in Surjection(from, S)
      BY DEF Bijection
    <2>2. copy \in [from -> S] /\ DOMAIN copy = from
      BY <2>1 DEF Injection
    <2> QED BY <2>1, <2>2 DEF Injection, Surjection, IsInjective
  <1>7. m = links'
    OBVIOUS
  <1>8. \A k \in Slot \ S : m[k] = links[k]
    BY <1>5, <1>7
  <1>9. ASSUME NEW x \in from PROVE m[copy[x]] = CopyOf(links, i, from, copy, x)
    <2>1. copy[x] \in S /\ copy[x] \in Slot
      BY <1>6
    <2>2. PICK z : z = CHOOSE y \in from : copy[y] = copy[x]
      OBVIOUS
    <2>3. z \in from /\ copy[z] = copy[x]
      BY <2>2
    <2>4. z = x
      BY <1>6, <2>3
    <2>5. m[copy[x]] = CopyOf(links, i, from, copy, z)
      BY <1>5, <1>7, <2>1, <2>2
    <2> QED BY <2>4, <2>5
  <1>10. Typed(m)
    <2>1. from \in SUBSET Slot /\ copy \in [from -> Slot]
      BY <1>3, <1>6 DEF Below, Upwards, Linked, Good
    <2>2. \A k \in S : m[k] \in
                           [parent : Link, first : Link, last : Link, prev : Link, next : Link]
      <3> SUFFICES ASSUME NEW k \in S
                   PROVE  m[k] \in
                              [parent : Link, first : Link, last : Link, prev : Link, next : Link]
        OBVIOUS
      <3>1. PICK x \in from : copy[x] = k
        BY <1>6
      <3>2. m[k] = CopyOf(links, i, from, copy, x)
        BY <1>9, <3>1
      <3> QED BY <2>1, <3>2, CopyTyped
    <2>3. Typed(links)
      BY DEF Linked, Good
    <2>4. \A k \in Slot : m[k] \in
                              [parent : Link, first : Link, last : Link, prev : Link, next : Link]
      BY <1>8, <2>2, <2>3 DEF Typed
    <2>5. DOMAIN m = Slot /\ m = [k \in Slot |-> m[k]]
      BY <1>5, <1>7
    <2> QED BY <2>4, <2>5 DEF Typed
  <1>11. Copied(links, m, i, from, S, copy)
    BY <1>6, <1>8, <1>9, <1>10 DEF Copied
  <1>12. live' = live \cup S /\ texts' = texts \cup {copy[x] : x \in from \cap texts}
    BY <1>5
  <1>13. Cloned(m, i, S, copy)
    BY <1>2, <1>3, <1>4, <1>11, <1>12 DEF Cloned, from, i
  <1> QED BY <1>13 DEF i

\* A copy is a good tree beside the others.
LEMMA DeepCloneLinks ==
  ASSUME Linked, NEW h, NEW S \in SUBSET Slot, DeepClone(h, S)
  PROVE  Linked'
  <1>1. PICK m, i, from : m = links' /\ i = h.index /\ from = Subtree(links, i)
    OBVIOUS
  <1>2. PICK copy : Cloned(m, i, S, copy)
    BY <1>1, DeepCloneCopies
  <1>3. /\ Below(links, live, i, from) /\ Copied(links, m, i, from, S, copy) /\ i \in live
        /\ S \in SUBSET (Slot \ live)
        /\ live' = live \cup S /\ texts' = texts \cup {copy[x] : x \in from \cap texts}
    BY <1>1, <1>2 DEF Cloned
  <1>4. /\ Places(count + Cardinality(S \ free), live \cup S, free \ S)
        /\ Fill(S, free, count)
    BY FilledPlaces DEF DeepClone, Fill, Linked
  <1>5. PICK Y : Y = {copy[x] : x \in from \cap texts}
    OBVIOUS
  <1>6. Good(m, live \cup S, texts \cup Y)
    <2>1. Good(links, live, texts) /\ i \in live
      BY <1>3 DEF Linked
    <2>2. S \in SUBSET (Slot \ live)
      BY <1>3
    <2>3. \A y \in Y : \E x \in from \cap texts : y = copy[x]
      BY <1>5
    <2>4. PICK l, V, X, j, D : l = links /\ V = live /\ X = texts /\ j = i /\ D = from
      OBVIOUS
    <2>5. /\ Good(l, V, X) /\ j \in V /\ Below(l, V, j, D) /\ S \in SUBSET (Slot \ V)
          /\ Copied(l, m, j, D, S, copy) /\ Twins(Y, D \cap X, copy)
      BY <1>3, <2>1, <2>2, <2>3, <2>4 DEF Twins
    <2>6. Good(m, V \cup S, X \cup Y)
      BY <2>5, CopyGood
    <2> QED BY <2>4, <2>6
  <1> QED
    BY <1>1, <1>3, <1>4, <1>5, <1>6 DEF Linked, Fill

\* Slots are taken and freed again: no node changes.
LEMMA FailBuildLinks ==
  ASSUME Linked, NEW S \in SUBSET Slot, FailBuild(S)
  PROVE  Linked'
  <1>1. CanAlloc(S, free, count) /\ Places(count, live, free)
    BY DEF FailBuild, Linked
  <1>2. /\ Places(count + Cardinality(S \ free), live \cup S, free \ S)
        /\ S \subseteq Slot \ live /\ S \subseteq 0..((count + Cardinality(S \ free)) - 1)
    BY <1>1, FilledPlaces
  <1>3. PICK n : n = count + Cardinality(S \ free)
    OBVIOUS
  <1>4. Places(n, live, (free \ S) \cup {i \in S : gen[i] < MaxGeneration})
    BY <1>2, <1>3 DEF Places
  <1> QED
    BY <1>3, <1>4 DEF FailBuild, Linked

\* Every step.
LEMMA StepLinks ==
  ASSUME Linked, [Next]_vars
  PROVE  Linked'
  <1>1. CASE PrepareOrder
    BY <1>1 DEF PrepareOrder, Linked
  <1>2. CASE UNCHANGED vars
    BY <1>2 DEF vars, Linked
  <1> QED
    BY <1>1, <1>2, CreateLinks, AppendNewLinks, BatchCallsLink, DetachLinks, RemoveNodeLinks,
       ClearChildrenLinks, SetTextContentLinks, DeepCloneLinks, FailBuildLinks
    DEF Next

\* Every node is below a root.
LEMMA BelowARoot ==
  ASSUME Linked, NEW i \in live
  PROVE  \E r \in live : links[r].parent = Nil /\ i \in Subtree(links, r)
  <1> DEFINE W == {x \in live : ~ \E r \in live : links[r].parent = Nil /\ x \in Subtree(links, r)}
  <1>0. live \subseteq Slot /\ live \subseteq 0..(count - 1) /\ Within(links, live)
    BY DEF Linked, Good, Places
  <1>1. ASSUME NEW r \in live PROVE Below(links, live, r, Subtree(links, r))
    BY <1>0, SubtreeBelow DEF Linked
  <1>2. ASSUME NEW x \in W PROVE links[x].parent \in W
    <2>1. links[x].parent # Nil
      <3>1. x \in Subtree(links, x)
        BY <1>1 DEF Below, Upwards
      <3> QED BY <3>1
    <2>2. links[x].parent \in live
      BY <1>0, <2>1 DEF Within
    <2>3. \A r \in live : links[x].parent \in Subtree(links, r) => x \in Subtree(links, r)
      BY <1>1 DEF Below, Downwards
    <2> QED BY <2>2, <2>3
  <1>3. W = {}
    <2>1. W \in SUBSET Slot
      BY <1>0
    <2>2. W # {} => \E x \in W : links[x]["parent"] \notin W
      <3> HIDE DEF W
      <3> QED BY <2>1 DEF Linked, Good, NoCycle
    <2> QED BY <1>2, <2>2
  <1> QED BY <1>3

\* The invariant says what check_integrity verifies.
LEMMA LinkedSound ==
  ASSUME Linked
  PROVE  SoundLinks
  <1>1. /\ Root \in live /\ links[Root].parent = Nil
        /\ \A i \in Slot \ live : links[i] = Blank
        /\ \A t \in texts : links[t].first = Nil
    BY DEF Linked, Good
  <1>2. ASSUME NEW i \in live
        PROVE  LET chain == <<Nil>> \o Chain(links, i)
               IN  /\ links[i].last = chain[Len(chain)]
                   /\ links[i].parent = Nil => links[i].prev = Nil /\ links[i].next = Nil
                   /\ \A k \in 2..Len(chain) :
                        /\ chain[k] \in live /\ links[chain[k]].parent = i
                        /\ links[chain[k]].prev = chain[k - 1]
    <2>0. PICK chain : chain = <<Nil>> \o Chain(links, i)
      OBVIOUS
    <2>1. PICK c : c = Chain(links, i)
      OBVIOUS
    <2>2. ChainOf(links, live, i, c)
      BY <2>1, ChainIs DEF Linked
    <2>3. c \in Seq(live) /\ Len(c) \in Nat
      BY <2>2 DEF ChainOf
    <2>4. /\ Len(chain) = Len(c) + 1 /\ chain[1] = Nil
          /\ \A k \in 2..Len(chain) : k - 1 \in 1..Len(c) /\ chain[k] = c[k - 1]
      BY <2>0, <2>1, <2>3
    <2>5. links[i].last = chain[Len(chain)]
      <3>1. CASE c = <<>>
        BY <2>2, <2>4, <3>1 DEF ChainOf
      <3>2. CASE c # <<>>
        <4>1. Len(chain) \in 2..Len(chain) /\ Len(chain) - 1 = Len(c)
          BY <2>3, <2>4, <3>2
        <4>2. chain[Len(chain)] = c[Len(c)]
          BY <2>4, <4>1
        <4> QED BY <2>2, <3>2, <4>2 DEF ChainOf
      <3> QED BY <3>1, <3>2
    <2>6. ASSUME NEW k \in 2..Len(chain)
          PROVE  /\ chain[k] \in live /\ links[chain[k]].parent = i
                 /\ links[chain[k]].prev = chain[k - 1]
      <3>1. k - 1 \in 1..Len(c) /\ chain[k] = c[k - 1]
        BY <2>4
      <3>2. /\ chain[k] \in live /\ links[chain[k]].parent = i
            /\ links[chain[k]].prev = IF k - 1 = 1 THEN Nil ELSE c[(k - 1) - 1]
        BY <2>2, <2>3, <3>1 DEF ChainOf
      <3>3. CASE k = 2
        BY <2>4, <3>2, <3>3
      <3>4. CASE k # 2
        <4>1. k - 1 \in 2..Len(chain) /\ k - 1 # 1
          BY <2>3, <2>4, <3>4
        <4>2. chain[k - 1] = c[(k - 1) - 1]
          BY <2>4, <4>1
        <4> QED BY <3>2, <4>1, <4>2
      <3> QED BY <3>3, <3>4
    <2>7. links[i].parent = Nil => links[i].prev = Nil /\ links[i].next = Nil
      BY DEF Linked, Good, NearSides
    <2> QED BY <2>0, <2>5, <2>6, <2>7
  <1>3. \A i \in live : \E r \in live : links[r].parent = Nil /\ i \in Subtree(links, r)
    BY BelowARoot
  <1> QED
    BY <1>1, <1>2, <1>3, Zenon DEF SoundLinks

\* For any capacity and lists of any length, every call leaves an ordered forest: neighbours agree,
\* each node is below one root, and a slot without a node is linked to nothing (arena.rs:1684).
THEOREM LinksStaySound == Spec => []SoundLinks
  <1>1. Init => Linked
    BY StartsLinked
  <1>2. Linked /\ [Next]_vars => Linked'
    BY StepLinks
  <1>3. Linked => SoundLinks
    BY LinkedSound
  <1> QED
    BY <1>1, <1>2, <1>3, PTL DEF Spec

-----------------------------------------------------------------------------
(* The numbering.                                                          *)

\* C is a climb from x: up to top through last children, top being the first that is none.
Climb(l, V, x, top, C) ==
  /\ C \subseteq V /\ x \in C /\ top \in C
  /\ \A c \in C \ {top} : l[c].next = Nil /\ l[c].parent \in C
  /\ \A c \in C \ {x} : \E d \in C : l[d].parent = c /\ l[d].next = Nil

\* y comes after x: its first child, or the sibling after where a climb from x ends.
After(l, V, x, y) ==
  \/ l[x].first = y
  \/ /\ l[x].first = Nil
     /\ \E top \in V : l[top].next = y /\ \E C : Climb(l, V, x, top, C)

\* The walk up from x.
LEMMA WalkUp ==
  ASSUME NEW l, NEW V, NEW X, Good(l, V, X), NEW x \in V, NEW up, Walked(up, l, x, "parent")
  PROVE  \A n \in 0..Capacity : up[n] \in V \cup {Nil}
  <1>0. /\ V \subseteq Slot /\ Nil \notin Slot /\ \A y \in V : l[y].parent \in V \cup {Nil}
        /\ Capacity \in Nat /\ up[0] = x
        /\ \A n \in 1..Capacity : up[n] = StepOn(l, "parent", up[n - 1])
    BY NilNoSlot, SlotsCount DEF Good, Within, Walked
  <1> DEFINE S == {m \in Nat : m <= Capacity => up[m] \in V \cup {Nil}}
  <1>1. 0 \in S
    BY <1>0
  <1>2. ASSUME NEW m \in Nat, m \in S PROVE m + 1 \in S
    <2>1. CASE m + 1 <= Capacity
      <3>1. m + 1 \in 1..Capacity /\ (m + 1) - 1 = m /\ m <= Capacity
        BY <1>0, <2>1
      <3>2. up[m + 1] = StepOn(l, "parent", up[m]) /\ up[m] \in V \cup {Nil}
        BY <1>0, <1>2, <3>1
      <3>3. CASE up[m] = Nil
        BY <3>2, <3>3 DEF StepOn
      <3>4. CASE up[m] # Nil
        <4>1. up[m + 1] = l[up[m]].parent /\ up[m] \in V
          BY <3>2, <3>4 DEF StepOn
        <4> QED BY <1>0, <4>1
      <3> QED BY <3>3, <3>4
    <2> QED BY <2>1
  <1>3. Nat \subseteq S
    <2> HIDE DEF S
    <2> QED BY <1>1, <1>2, Induction
  <1> QED
    BY <1>0, <1>3

\* What Advance yields comes after.
LEMMA AdvanceIs ==
  ASSUME NEW l, NEW V, NEW X, Good(l, V, X), NEW x \in V,
         NEW y, y = Advance(l, Nil, x), y # Nil
  PROVE  After(l, V, x, y) /\ y \in V
  <1>0. /\ V \subseteq Slot /\ Nil \notin Slot /\ Typed(l) /\ x # Nil /\ x \in Link
        /\ NoCycle(l, "parent") /\ "parent" \in {"parent", "next", "last"}
        /\ \A z \in V : l[z].next \in V \cup {Nil} /\ l[z].first \in V \cup {Nil}
    BY NilNoSlot DEF Good, Within, Link
  <1> DEFINE steps == Steps(l, x, "parent")
             ends == {n \in DOMAIN steps : steps[n] = Nil \/ steps[n] = Nil \/ l[steps[n]].next # Nil}
             least == CHOOSE n \in ends : \A m \in ends : n <= m
  <1>13. Advance(l, Nil, x) = IF l[x].first # Nil THEN l[x].first
                             ELSE IF steps[least] = Nil \/ steps[least] = Nil THEN Nil
                             ELSE l[steps[least]].next
    BY DEF Advance
  <1>1. PICK up : up = steps
    OBVIOUS
  <1>2. IsWalk(up, Capacity, l, x, "parent")
    BY <1>1, StepsAre
  <1>3. Walked(up, l, x, "parent")
    BY <1>0, <1>2, WalkTyped
  <1>4. /\ Capacity \in Nat /\ DOMAIN up = 0..Capacity /\ up[0] = x
        /\ \A n \in 1..Capacity : up[n] = StepOn(l, "parent", up[n - 1])
    BY <1>3, SlotsCount DEF Walked
  <1>5. \A n \in 0..Capacity : up[n] \in V \cup {Nil}
    BY <1>3, WalkUp
  <1>6. PICK stops : stops = ends
    OBVIOUS
  <1>14. stops = {n \in 0..Capacity : up[n] = Nil \/ l[up[n]].next # Nil}
    BY <1>1, <1>4, <1>6
  <1>7. \E k \in stops : \A m \in stops : k <= m
    <2>1. up[Capacity] = Nil
      BY <1>0, <1>2, WalkEnds
    <2>2. Capacity \in stops /\ stops \in SUBSET Nat
      BY <1>4, <1>14, <2>1
    <2> QED BY <2>2, LeastNat
  <1>8. PICK k : k = least
    OBVIOUS
  <1>9. k \in stops /\ \A m \in stops : k <= m
    <2> HIDE DEF steps, ends
    <2> QED BY <1>6, <1>7, <1>8
  <1>10. y = IF l[x].first # Nil THEN l[x].first ELSE IF up[k] = Nil THEN Nil ELSE l[up[k]].next
    <2> HIDE DEF steps, ends, least
    <2> QED BY <1>13, <1>1, <1>8
  <1>11. CASE l[x].first # Nil
    BY <1>0, <1>10, <1>11 DEF After
  <1>12. CASE l[x].first = Nil
    <2>1. up[k] \in V /\ l[up[k]].next = y /\ k \in 0..Capacity
      BY <1>4, <1>5, <1>14, <1>9, <1>10, <1>12
    <2> DEFINE C == {up[n] : n \in 0..k}
    <2>2. k \in Nat /\ k <= Capacity /\ 0 \in 0..k /\ k \in 0..k
      BY <1>4, <2>1
    <2>3. ASSUME NEW n \in 0..k, n # k
          PROVE  /\ up[n] \in V /\ l[up[n]].next = Nil /\ n + 1 \in 0..k
                 /\ up[n + 1] = l[up[n]].parent
      <3>1. n \in 0..Capacity /\ n + 1 \in 1..Capacity /\ n + 1 \in 0..k /\ ~(k <= n)
            /\ (n + 1) - 1 = n
        <4>1. n \in Nat /\ n < k /\ Capacity \in Nat
          BY <1>4, <2>2, <2>3
        <4> QED BY <2>2, <4>1
      <3>2. n \notin stops
        BY <1>9, <3>1
      <3>3. up[n] # Nil /\ l[up[n]].next = Nil
        BY <1>4, <1>14, <3>1, <3>2
      <3>4. up[n + 1] = StepOn(l, "parent", up[n])
        BY <1>4, <3>1
      <3>5. up[n + 1] = l[up[n]].parent
        BY <3>3, <3>4 DEF StepOn
      <3> QED BY <1>5, <3>1, <3>3, <3>5
    <2>4. \A n \in 0..k : up[n] \in V
      BY <2>1, <2>3
    <2>5. ASSUME NEW c \in C \ {up[k]} PROVE l[c].next = Nil /\ l[c].parent \in C
      <3>1. PICK n \in 0..k : c = up[n]
        OBVIOUS
      <3>2. n # k
        BY <2>5, <3>1
      <3> QED BY <2>3, <3>1, <3>2
    <2>6. ASSUME NEW c \in C \ {x} PROVE \E d \in C : l[d].parent = c /\ l[d].next = Nil
      <3>1. PICK n \in 0..k : c = up[n]
        OBVIOUS
      <3>2. n # 0
        BY <1>4, <2>6, <3>1
      <3>3. n - 1 \in 0..k /\ n - 1 # k /\ (n - 1) + 1 = n
        BY <2>2, <3>2
      <3>4. l[up[n - 1]].next = Nil /\ up[n] = l[up[n - 1]].parent
        BY <2>3, <3>3
      <3>5. up[n - 1] \in C
        BY <3>3
      <3> QED BY <3>1, <3>4, <3>5
    <2>7. x \in C /\ up[k] \in C /\ C \subseteq V
      BY <1>4, <2>2, <2>4
    <2>8. Climb(l, V, x, up[k], C)
      <3> HIDE DEF C
      <3> QED BY <2>5, <2>6, <2>7 DEF Climb
    <2>9. After(l, V, x, y)
      <3> HIDE DEF C
      <3> QED BY <1>12, <2>1, <2>8 DEF After
    <2> QED BY <1>0, <2>1, <2>9, <1>10, <1>12
  <1> QED
    BY <1>11, <1>12

\* A climb to top comes from one slot only.
LEMMA ClimbOnce ==
  ASSUME NEW l, NEW V, NEW X, Good(l, V, X), NEW x \in V, NEW z \in V, NEW top \in V,
         l[x].first = Nil, l[z].first = Nil,
         NEW C, Climb(l, V, x, top, C), NEW D, Climb(l, V, z, top, D)
  PROVE  x = z
  <1>0. /\ V \subseteq Slot /\ Nil \notin Slot /\ NoCycle(l, "parent")
        /\ \A y \in V : NearSides(l, y) /\ y # Nil
    BY NilNoSlot DEF Good
  <1>1. /\ C \subseteq V /\ x \in C /\ top \in C
        /\ \A c \in C \ {top} : l[c].next = Nil /\ l[c].parent \in C
        /\ \A c \in C \ {x} : \E d \in C : l[d].parent = c /\ l[d].next = Nil
    BY DEF Climb
  <1>2. /\ D \subseteq V /\ z \in D /\ top \in D
        /\ \A c \in D \ {top} : l[c].next = Nil /\ l[c].parent \in D
        /\ \A c \in D \ {z} : \E d \in D : l[d].parent = c /\ l[d].next = Nil
    BY DEF Climb
  <1>3. \A c \in V : l[c].parent # Nil => l[l[c].parent].first # Nil
    BY HasFirst
  <1> DEFINE W == {c \in C : c \notin D}
  <1>4. CASE W = {}
    <2>1. x \in D
      BY <1>1, <1>4
    <2> SUFFICES ASSUME x # z PROVE FALSE
      OBVIOUS
    <2>2. PICK d \in D : l[d].parent = x
      BY <1>2, <2>1
    <2> QED BY <1>0, <1>2, <1>3, <2>2
  <1>5. CASE W # {}
    <2>1. W \in SUBSET Slot
      BY <1>0, <1>1
    <2>2. \E c \in W : l[c]["parent"] \notin W
      <3> HIDE DEF W
      <3> QED BY <1>0, <1>5, <2>1 DEF NoCycle
    <2>3. PICK c \in W : l[c].parent \notin W
      BY <2>2
    <2>4. c \in C \ {top} /\ c \notin D /\ c \in V
      BY <1>1, <1>2, <2>3
    <2>5. l[c].next = Nil /\ l[c].parent \in C /\ l[c].parent \in D
      BY <1>1, <2>3, <2>4
    <2>6. l[c].parent \in V /\ l[c].parent # Nil
      BY <1>0, <1>1, <2>5
    <2>7. l[c].parent # z
      BY <1>3, <2>4, <2>6
    <2>8. PICK d \in D : l[d].parent = l[c].parent /\ l[d].next = Nil
      BY <1>2, <2>5, <2>7
    <2>9. d = c
      <3>1. NearSides(l, d) /\ NearSides(l, c)
        BY <1>0, <1>2, <2>4, <2>8
      <3> QED BY <2>5, <2>6, <2>8, <3>1 DEF NearSides
    <2> QED BY <2>4, <2>8, <2>9
  <1> QED
    BY <1>4, <1>5

\* A slot comes after one other only, and after none when it has no parent.
LEMMA AfterOnce ==
  ASSUME NEW l, NEW V, NEW X, Good(l, V, X), NEW x \in V, NEW z \in V, NEW y \in V,
         After(l, V, x, y), After(l, V, z, y)
  PROVE  x = z /\ l[y].parent # Nil
  <1>0. /\ V \subseteq Slot /\ Nil \notin Slot /\ y # Nil /\ x # Nil /\ z # Nil
        /\ \A c \in V : NearEnds(l, c) /\ NearSides(l, c) /\ c # Nil
    BY NilNoSlot DEF Good
  <1>1. ASSUME NEW c \in V, l[c].first = y PROVE l[y].parent = c /\ l[y].prev = Nil
    BY <1>0, <1>1 DEF NearEnds
  <1>2. ASSUME NEW top \in V, l[top].next = y PROVE l[y].prev = top /\ l[y].parent # Nil
    <2>1. l[y].prev = top /\ NearSides(l, y)
      BY <1>0, <1>2 DEF NearSides
    <2> QED BY <1>0, <2>1 DEF NearSides
  <1>3. CASE l[x].first = y
    BY <1>0, <1>1, <1>2, <1>3 DEF After
  <1>4. CASE l[x].first # y
    <2>1. PICK top \in V : l[x].first = Nil /\ l[top].next = y /\ \E C : Climb(l, V, x, top, C)
      BY <1>4 DEF After
    <2>2. l[y].prev = top /\ l[y].parent # Nil /\ top # Nil
      BY <1>0, <1>2, <2>1
    <2>3. l[z].first # y
      BY <1>1, <2>2
    <2>4. PICK up \in V : l[z].first = Nil /\ l[up].next = y /\ \E D : Climb(l, V, z, up, D)
      BY <2>3 DEF After
    <2>5. up = top
      BY <1>2, <2>2, <2>4
    <2> QED BY <2>1, <2>2, <2>4, <2>5, ClimbOnce
  <1> QED
    BY <1>3, <1>4

\* The walk of PreOrder from i.
Ahead(l, x) == IF x = Nil THEN Nil ELSE Advance(l, Nil, x)
IsTour(at, N, l, i) == at = [n \in 0..N |-> IF n = 0 THEN i ELSE Ahead(l, at[n - 1])]

\* The states of a pre order walk.
LEMMA TourExists ==
  ASSUME NEW l, NEW i, NEW N \in Nat
  PROVE  \E at : IsTour(at, N, l, i)
  <1> DEFINE S == {m \in Nat : \E at : IsTour(at, m, l, i)}
  <1>1. 0 \in S
    <2> DEFINE g == [n \in 0..0 |-> i]
    <2>1. IsTour(g, 0, l, i)
      BY DEF IsTour
    <2> QED BY <2>1
  <1>2. ASSUME NEW m \in Nat, m \in S PROVE m + 1 \in S
    <2>1. PICK g : IsTour(g, m, l, i)
      BY <1>2
    <2> DEFINE h == [n \in 0..(m + 1) |-> IF n <= m THEN g[n] ELSE Ahead(l, g[m])]
    <2>2. ASSUME NEW n \in 0..(m + 1) PROVE h[n] = IF n = 0 THEN i ELSE Ahead(l, h[n - 1])
      <3>1. CASE n <= m
        <4>1. h[n] = g[n] /\ g[n] = IF n = 0 THEN i ELSE Ahead(l, g[n - 1])
          BY <2>1, <3>1 DEF IsTour
        <4>2. n # 0 => h[n - 1] = g[n - 1]
          BY <3>1
        <4> QED BY <4>1, <4>2
      <3>2. CASE n = m + 1
        BY <3>2
      <3> QED BY <3>1, <3>2
    <2>3. IsTour(h, m + 1, l, i)
      BY <2>2 DEF IsTour
    <2> QED BY <2>3
  <1>3. Nat \subseteq S
    <2> HIDE DEF S
    <2> QED BY <1>1, <1>2, Induction
  <1> QED BY <1>3

\* PreOrder is the tour until it leaves the nodes.
Toured(at, l, i, walk) ==
  /\ IsTour(at, Capacity, l, i)
  /\ walk = [k \in 1..Cardinality({n \in DOMAIN at : at[n] # Nil}) |-> at[k - 1]]

\* PreOrder is such a walk, up to its end.
LEMMA PreOrderTour ==
  ASSUME NEW l, NEW i
  PROVE  \E at : Toured(at, l, i, PreOrder(l, i))
  <1>1. Capacity \in Nat
    BY SlotsCount
  <1>2. \E g : g = [n \in 0..Capacity |-> IF n = 0 THEN i ELSE Ahead(l, g[n - 1])]
    <2>1. PICK g : IsTour(g, Capacity, l, i)
      BY <1>1, TourExists
    <2> QED BY <2>1 DEF IsTour
  <1> DEFINE at[n \in 0..Capacity] ==
               IF n = 0 THEN i ELSE LET x == at[n - 1] IN IF x = Nil THEN Nil ELSE Advance(l, Nil, x)
  <1>3. IsTour(at, Capacity, l, i)
    BY <1>2 DEF IsTour, Ahead
  <1>4. PreOrder(l, i) = [k \in 1..Cardinality({n \in DOMAIN at : at[n] # Nil}) |-> at[k - 1]]
    BY DEF PreOrder
  <1> QED
    <2> HIDE DEF at
    <2> QED BY <1>3, <1>4 DEF Toured

\* A tour from the root of a tree visits no node twice.
Touring(at, l, V) ==
  /\ at \in [0..Capacity -> V \cup {Nil}]
  /\ \A m, n \in 0..Capacity : at[m] = at[n] /\ at[m] # Nil => m = n

\* The walk from a root visits no slot twice.
LEMMA TourOnce ==
  ASSUME NEW l, NEW V, NEW X, Good(l, V, X), NEW i \in V, l[i].parent = Nil,
         NEW at, IsTour(at, Capacity, l, i)
  PROVE  Touring(at, l, V)
  <1>0. /\ Capacity \in Nat /\ DOMAIN at = 0..Capacity /\ at[0] = i /\ Nil \notin V
        /\ \A n \in 1..Capacity : at[n] = Ahead(l, at[n - 1])
    <2>1. Capacity \in Nat /\ Nil \notin V
      BY SlotsCount, NilNoSlot DEF Good
    <2>2. DOMAIN at = 0..Capacity /\ \A n \in 0..Capacity : at[n] = IF n = 0 THEN i ELSE Ahead(l, at[n - 1])
      BY DEF IsTour
    <2> QED BY <2>1, <2>2
  <1>1. ASSUME NEW x \in V, Ahead(l, x) # Nil
        PROVE  Ahead(l, x) \in V /\ After(l, V, x, Ahead(l, x))
    <2>1. x # Nil /\ Ahead(l, x) = Advance(l, Nil, x)
      BY <1>0 DEF Ahead
    <2> QED BY <1>1, <2>1, AdvanceIs
  <1> DEFINE T == {m \in Nat : m <= Capacity => at[m] \in V \cup {Nil}}
  <1>2. 0 \in T
    BY <1>0
  <1>3. ASSUME NEW m \in Nat, m \in T PROVE m + 1 \in T
    <2>1. CASE m + 1 <= Capacity
      <3>1. m + 1 \in 1..Capacity /\ (m + 1) - 1 = m /\ m <= Capacity
        BY <1>0, <2>1
      <3>2. at[m + 1] = Ahead(l, at[m]) /\ at[m] \in V \cup {Nil}
        BY <1>0, <1>3, <3>1
      <3>3. CASE at[m] = Nil
        BY <3>2, <3>3 DEF Ahead
      <3>4. CASE at[m] # Nil
        BY <1>1, <3>2, <3>4
      <3> QED BY <3>3, <3>4
    <2> QED BY <2>1
  <1>4. Nat \subseteq T
    <2> HIDE DEF T
    <2> QED BY <1>2, <1>3, Induction
  <1>5. \A n \in 0..Capacity : at[n] \in V \cup {Nil}
    BY <1>0, <1>4
  <1>6. ASSUME NEW n \in 1..Capacity, at[n] # Nil
        PROVE  /\ n - 1 \in 0..Capacity /\ at[n - 1] \in V /\ at[n] \in V
               /\ After(l, V, at[n - 1], at[n])
    <2>1. n - 1 \in 0..Capacity
      BY <1>0
    <2>2. at[n] = Ahead(l, at[n - 1])
      BY <1>0
    <2>3. at[n - 1] # Nil
      BY <1>6, <2>2 DEF Ahead
    <2>4. at[n - 1] \in V
      BY <1>5, <2>1, <2>3
    <2> QED BY <1>1, <1>6, <2>1, <2>2, <2>4
  <1> DEFINE S == {m \in Nat : \A n \in 0..Capacity :
                      m < n /\ at[m] # Nil => at[m] # at[n]}
  <1>7. 0 \in S
    <2> SUFFICES ASSUME NEW n \in 0..Capacity, 0 < n, at[n] = i PROVE FALSE
      BY <1>0
    <2>1. n \in 1..Capacity /\ at[n] # Nil
      BY <1>0
    <2>2. at[n - 1] \in V /\ After(l, V, at[n - 1], at[n])
      BY <1>6, <2>1
    <2> QED BY <2>2, AfterOnce
  <1>8. ASSUME NEW m \in Nat, m \in S PROVE m + 1 \in S
    <2> SUFFICES ASSUME NEW n \in 0..Capacity, m + 1 < n, at[m + 1] # Nil, at[m + 1] = at[n]
                 PROVE  FALSE
      OBVIOUS
    <2>1. m + 1 \in 1..Capacity /\ n \in 1..Capacity /\ (m + 1) - 1 = m /\ m < n - 1
      BY <1>0
    <2>2. at[m] \in V /\ After(l, V, at[m], at[m + 1]) /\ at[m + 1] \in V
      BY <1>6, <2>1
    <2>3. at[n - 1] \in V /\ After(l, V, at[n - 1], at[n]) /\ n - 1 \in 0..Capacity
      BY <1>6, <2>1
    <2>4. at[m] = at[n - 1]
      BY <2>2, <2>3, AfterOnce
    <2>5. at[m] # Nil
      BY <1>0, <2>2
    <2> QED BY <1>8, <2>1, <2>3, <2>4, <2>5
  <1>9. Nat \subseteq S
    <2> HIDE DEF S
    <2> QED BY <1>7, <1>8, Induction
  <1>10. ASSUME NEW m \in 0..Capacity, NEW n \in 0..Capacity, at[m] = at[n], at[m] # Nil, m # n
         PROVE  FALSE
    <2>1. m \in S /\ n \in S /\ m \in Nat /\ n \in Nat
      BY <1>9
    <2>2. CASE m < n
      BY <1>10, <2>1, <2>2
    <2>3. CASE n < m
      BY <1>10, <2>1, <2>3
    <2> QED BY <1>10, <2>1, <2>2, <2>3
  <1>11. at \in [0..Capacity -> V \cup {Nil}]
    BY <1>5 DEF IsTour
  <1> QED
    BY <1>10, <1>11 DEF Touring

\* So there are no more numbers than slots.
LEMMA NumberingTyped ==
  ASSUME NEW l, NEW V, NEW X, Good(l, V, X)
  PROVE  Numbering(l) \in [Slot -> Link]
  <1>0. Root \in V /\ l[Root].parent = Nil /\ V \subseteq Slot /\ Nil \notin Slot
        /\ Slot \subseteq Link /\ Nil \in Link
    BY NilNoSlot DEF Good
  <1>1. PICK at : Toured(at, l, Root, PreOrder(l, Root))
    BY PreOrderTour
  <1>2. at \in [0..Capacity -> V \cup {Nil}]
        /\ \A m, n \in 0..Capacity : at[m] = at[n] /\ at[m] # Nil => m = n
    BY <1>0, <1>1, TourOnce DEF Touring, Toured
  <1>3. Capacity \in Nat /\ IsFiniteSet(Slot) /\ Cardinality(Slot) = Capacity
    BY SlotsCount
  <1> DEFINE N == {n \in 0..Capacity : at[n] # Nil}
             K == Cardinality(N)
             walk == PreOrder(l, Root)
  <1>4. K \in Nat /\ K <= Capacity
    <2> DEFINE g == [n \in N |-> at[n]]
    <2>1. g \in [N -> Slot] /\ \A m, n \in N : g[m] = g[n] => m = n
      BY <1>0, <1>2
    <2>2. g \in Injection(N, Slot)
      BY <2>1 DEF Injection, IsInjective
    <2>3. IsFiniteSet(N)
      <3>1. IsFiniteSet(0..Capacity)
        BY <1>3, FS_Interval
      <3>2. N \in SUBSET (0..Capacity)
        OBVIOUS
      <3> QED BY <3>1, <3>2, FS_Subset
    <2> HIDE DEF N, g
    <2>4. Cardinality(N) <= Cardinality(Slot)
      BY <1>3, <2>2, <2>3, FS_Injection, Zenon
    <2> QED BY <1>3, <2>3, <2>4, FS_CardinalityType
  <1>5. DOMAIN walk = 1..K /\ DOMAIN at = 0..Capacity
    BY <1>1, <1>2 DEF Toured
  <1>6. ASSUME NEW i \in Slot PROVE Numbering(l)[i] \in Link
    <2>1. CASE i \in ToSet(walk)
      <3>1. \E k \in DOMAIN walk : walk[k] = i
        BY <2>1 DEF ToSet
      <3>2. PICK k : k = CHOOSE j \in DOMAIN walk : walk[j] = i
        OBVIOUS
      <3>3. k \in 1..K
        <4> HIDE DEF walk, K
        <4> QED BY <1>5, <3>1, <3>2
      <3>4. k - 1 \in Slot
        BY <1>3, <1>4, <3>3 DEF Slot
      <3>5. Numbering(l)[i] = k - 1
        BY <2>1, <3>2 DEF Numbering
      <3> QED BY <1>0, <3>4, <3>5
    <2>2. CASE i \notin ToSet(walk)
      BY <1>0, <2>2 DEF Numbering
    <2> QED BY <2>1, <2>2
  <1>7. Numbering(l) = [i \in Slot |-> Numbering(l)[i]]
    BY DEF Numbering
  <1> QED
    BY <1>6, <1>7

\* The other variables.
Rest ==
  /\ gen \in [Slot -> 0..MaxGeneration] /\ issued \subseteq Handles
  /\ \A a, b \in order : a = b
  /\ \A table \in order : table \in [Slot -> Link]

\* Every step keeps what is neither links nor places.
LEMMA StepRest ==
  ASSUME Linked, Rest, [Next]_vars
  PROVE  Rest'
  <1>0. MaxGeneration \in Nat /\ gen \in [Slot -> 0..MaxGeneration]
    BY ArenaAssumption DEF Rest
  <1>1. ASSUME NEW S PROVE Bump(S) \in [Slot -> 0..MaxGeneration]
    <2>1. \A i \in Slot : (IF i \in S /\ gen[i] < MaxGeneration THEN gen[i] + 1 ELSE gen[i])
                          \in 0..MaxGeneration
      BY <1>0
    <2> QED BY <2>1 DEF Bump
  <1>2. ASSUME NEW S \in SUBSET Slot, NEW fr, NEW n, Fill(S, fr, n),
               gen' \in [Slot -> 0..MaxGeneration]
        PROVE  issued' \subseteq Handles
    BY <1>2 DEF Fill, Rest, Handles
  <1>3. CASE \E i \in Slot, text \in BOOLEAN : Create(i, text)
    <2>1. PICK i \in Slot, text \in BOOLEAN : Create(i, text)
      BY <1>3
    <2>2. gen' = gen /\ order' = order /\ issued' \subseteq Handles
      BY <1>0, <1>2, <2>1 DEF Create
    <2> QED BY <2>2 DEF Rest
  <1>4. CASE \E p \in issued, i \in Slot, text \in BOOLEAN : AppendNew(p, i, text)
    <2>1. PICK p \in issued, i \in Slot, text \in BOOLEAN : AppendNew(p, i, text)
      BY <1>4
    <2>2. gen' = gen /\ order' = {} /\ issued' \subseteq Handles
      BY <1>0, <1>2, <2>1 DEF AppendNew
    <2> QED BY <2>2 DEF Rest
  <1>5. ASSUME NEW l, Relink(l) PROVE Rest'
    BY <1>5 DEF Relink, Rest
  <1>6. ASSUME NEW l, NEW S, Release(l, S) PROVE Rest'
    BY <1>1, <1>6 DEF Release, Rest
  <1>7. CASE \E h \in issued, list \in Batches :
               \/ AppendChildren(h, list) \/ PrependChildren(h, list) \/ InsertBefore(h, list)
               \/ InsertAfter(h, list) \/ ReplaceWith(h, list)
    BY <1>5, <1>7 DEF AppendChildren, PrependChildren, InsertBefore, InsertAfter, ReplaceWith
  <1>8. CASE \E h \in issued : Detach(h) \/ RemoveNode(h) \/ ClearChildren(h)
    BY <1>5, <1>6, <1>8 DEF Detach, RemoveNode, ClearChildren
  <1>9. CASE \E h \in issued, i \in Slot : SetTextContent(h, i)
    <2>1. PICK h \in issued, i \in Slot : SetTextContent(h, i)
      BY <1>9
    <2>2. gen' = Bump(Subtree(links, h.index) \ {h.index}) /\ order' = {}
          /\ Fill({i}, Recycled(Subtree(links, h.index) \ {h.index}), count)
      BY <2>1 DEF SetTextContent
    <2>3. gen' \in [Slot -> 0..MaxGeneration] /\ {i} \in SUBSET Slot
      BY <1>1, <2>2
    <2>4. issued' \subseteq Handles
      BY <1>2, <2>2, <2>3
    <2> QED BY <2>2, <2>3, <2>4 DEF Rest
  <1>10. CASE \E h \in issued, S \in SUBSET Slot : DeepClone(h, S)
    <2>1. PICK h \in issued, S \in SUBSET Slot : DeepClone(h, S)
      BY <1>10
    <2>2. gen' = gen /\ (order' = order \/ order' = {}) /\ Fill(S, free, count)
      BY <2>1 DEF DeepClone
    <2>3. issued' \subseteq Handles
      BY <1>0, <1>2, <2>2
    <2> QED BY <2>2, <2>3 DEF Rest
  <1>11. CASE \E S \in SUBSET Slot : FailBuild(S)
    BY <1>1, <1>11 DEF FailBuild, Rest
  <1>12. CASE PrepareOrder
    <2>1. Numbering(links) \in [Slot -> Link]
      BY NumberingTyped DEF Linked
    <2> QED BY <1>12, <2>1 DEF PrepareOrder, Rest
  <1>13. CASE UNCHANGED vars
    BY <1>13 DEF vars, Rest
  <1> QED
    BY <1>3, <1>4, <1>7, <1>8, <1>9, <1>10, <1>11, <1>12, <1>13 DEF Next

\* The types hold for any capacity, and of the cached numbering too: a walk in document order meets
\* every slot once at most, so that it has no more numbers than there are slots.
THEOREM TypeCorrect == Spec => []ArenaTypeOK
  <1>1. Init => Linked /\ Rest
    <2>1. Root \in Slot /\ 0 \in 0..MaxGeneration
      BY ArenaAssumption DEF Root, Slot
    <2>2. Init => Rest
      BY <2>1 DEF Init, Rest, Handles
    <2> QED BY <2>2, StartsLinked
  <1>2. Linked /\ Rest /\ [Next]_vars => (Linked /\ Rest)'
    BY StepLinks, StepRest
  <1>3. Linked /\ Rest => ArenaTypeOK
    BY DEF Linked, Rest, ArenaTypeOK, Good, Typed, Places
  <1> QED
    BY <1>1, <1>2, <1>3, PTL DEF Spec

-----------------------------------------------------------------------------
(* Chains that change.                                                     *)

\* Children are in their chain once, and there is one chain.
LEMMA ChainInjective ==
  ASSUME NEW l, NEW V, Nil \notin V, NEW i, NEW c, ChainOf(l, V, i, c)
  PROVE  \A j, k \in 1..Len(c) : c[j] = c[k] => j = k
  <1>0. /\ c \in Seq(V) /\ Len(c) \in Nat
        /\ \A k \in 1..Len(c) : c[k] \in V /\ l[c[k]].prev = IF k = 1 THEN Nil ELSE c[k - 1]
    BY DEF ChainOf
  <1> DEFINE S == {n \in Nat : n + 1 \in 1..Len(c) =>
                     \A k \in 1..Len(c) : c[n + 1] = c[k] => k = n + 1}
  <1>1. 0 \in S
    <2> SUFFICES ASSUME 1 \in 1..Len(c), NEW k \in 1..Len(c), c[1] = c[k], k # 1 PROVE FALSE
      OBVIOUS
    <2>1. l[c[1]].prev = Nil /\ l[c[k]].prev = c[k - 1] /\ k - 1 \in 1..Len(c)
      BY <1>0
    <2> QED BY <1>0, <2>1
  <1>2. ASSUME NEW n \in Nat, n \in S PROVE n + 1 \in S
    <2> SUFFICES ASSUME (n + 1) + 1 \in 1..Len(c), NEW k \in 1..Len(c), c[(n + 1) + 1] = c[k]
                 PROVE  k = (n + 1) + 1
      OBVIOUS
    <2>1. n + 1 \in 1..Len(c) /\ ((n + 1) + 1) - 1 = n + 1 /\ (n + 1) + 1 # 1
      BY <1>0
    <2>2. l[c[k]].prev = c[n + 1] /\ c[n + 1] \in V
      BY <1>0, <2>1
    <2>3. k # 1
      BY <1>0, <2>2
    <2>4. k - 1 \in 1..Len(c) /\ l[c[k]].prev = c[k - 1]
      BY <1>0, <2>3
    <2>5. k - 1 = n + 1
      BY <1>2, <2>1, <2>2, <2>4
    <2> QED BY <2>5
  <1>3. Nat \subseteq S
    <2> HIDE DEF S
    <2> QED BY <1>1, <1>2, Induction
  <1> SUFFICES ASSUME NEW j \in 1..Len(c), NEW k \in 1..Len(c), c[j] = c[k] PROVE j = k
    OBVIOUS
  <1>4. j - 1 \in Nat /\ (j - 1) + 1 = j
    BY <1>0
  <1>5. j - 1 \in S
    BY <1>3, <1>4
  <1> QED BY <1>4, <1>5

\* Of two chains, each begins like the other.
LEMMA ChainSame ==
  ASSUME NEW l, NEW V, Nil \notin V, NEW i, NEW c, ChainOf(l, V, i, c), NEW d, ChainOf(l, V, i, d)
  PROVE  \A n \in 1..Len(c) : n <= Len(d) /\ c[n] = d[n]
  <1>0. /\ Len(c) \in Nat /\ Len(d) \in Nat
        /\ \A k \in 1..Len(c) : /\ c[k] \in V /\ l[c[k]].parent = i
                                /\ l[c[k]].prev = IF k = 1 THEN Nil ELSE c[k - 1]
        /\ \A k \in 1..Len(d) : d[k] \in V /\ l[d[k]].prev = IF k = 1 THEN Nil ELSE d[k - 1]
        /\ \A y \in V : l[y].parent = i => \E k \in 1..Len(d) : d[k] = y
    BY DEF ChainOf
  <1>1. \A j, k \in 1..Len(d) : d[j] = d[k] => j = k
    BY ChainInjective
  <1> DEFINE S == {n \in Nat : n + 1 \in 1..Len(c) => n + 1 <= Len(d) /\ c[n + 1] = d[n + 1]}
  <1>2. 0 \in S
    <2> SUFFICES ASSUME 1 \in 1..Len(c) PROVE 1 <= Len(d) /\ c[1] = d[1]
      OBVIOUS
    <2>1. PICK k \in 1..Len(d) : d[k] = c[1]
      BY <1>0
    <2>2. l[d[k]].prev = Nil
      BY <1>0, <2>1
    <2>3. k = 1
      <3> SUFFICES ASSUME k # 1 PROVE FALSE
        OBVIOUS
      <3>1. k - 1 \in 1..Len(d) /\ d[k - 1] = Nil
        BY <1>0, <2>2
      <3> QED BY <1>0, <3>1
    <2> QED BY <1>0, <2>1, <2>3
  <1>3. ASSUME NEW n \in Nat, n \in S PROVE n + 1 \in S
    <2> SUFFICES ASSUME (n + 1) + 1 \in 1..Len(c)
                 PROVE  (n + 1) + 1 <= Len(d) /\ c[(n + 1) + 1] = d[(n + 1) + 1]
      OBVIOUS
    <2>1. n + 1 \in 1..Len(c) /\ ((n + 1) + 1) - 1 = n + 1 /\ (n + 1) + 1 # 1
      BY <1>0
    <2>2. n + 1 \in 1..Len(d) /\ c[n + 1] = d[n + 1]
      BY <1>0, <1>3, <2>1
    <2>3. PICK k \in 1..Len(d) : d[k] = c[(n + 1) + 1]
      BY <1>0
    <2>4. l[d[k]].prev = d[n + 1] /\ d[n + 1] \in V
      BY <1>0, <2>1, <2>2, <2>3
    <2>5. k # 1
      BY <1>0, <2>4
    <2>6. k - 1 \in 1..Len(d) /\ d[k - 1] = d[n + 1]
      BY <1>0, <2>4, <2>5
    <2>7. k - 1 = n + 1
      BY <1>1, <2>2, <2>6
    <2>8. k = (n + 1) + 1
      BY <2>7
    <2> QED BY <1>0, <2>3, <2>8
  <1>4. Nat \subseteq S
    <2> HIDE DEF S
    <2> QED BY <1>2, <1>3, Induction
  <1> SUFFICES ASSUME NEW n \in 1..Len(c) PROVE n <= Len(d) /\ c[n] = d[n]
    OBVIOUS
  <1>5. n - 1 \in Nat /\ (n - 1) + 1 = n
    BY <1>0
  <1>6. n - 1 \in S
    BY <1>4, <1>5
  <1> QED BY <1>5, <1>6

\* There is one chain of a slot.
LEMMA ChainUnique ==
  ASSUME NEW l, NEW V, Nil \notin V, NEW i, NEW c, ChainOf(l, V, i, c), NEW d, ChainOf(l, V, i, d)
  PROVE  c = d
  <1>1. /\ \A n \in 1..Len(c) : n <= Len(d) /\ c[n] = d[n]
        /\ \A n \in 1..Len(d) : n <= Len(c) /\ d[n] = c[n]
    <2>1. \A n \in 1..Len(c) : n <= Len(d) /\ c[n] = d[n]
      BY ChainSame
    <2>2. \A n \in 1..Len(d) : n <= Len(c) /\ d[n] = c[n]
      BY ChainSame
    <2> QED BY <2>1, <2>2
  <1>2. c \in Seq(V) /\ d \in Seq(V) /\ Len(c) \in Nat /\ Len(d) \in Nat
    BY DEF ChainOf
  <1>3. Len(c) = Len(d)
    <2>1. Len(c) <= Len(d)
      BY <1>1, <1>2
    <2>2. Len(d) <= Len(c)
      BY <1>1, <1>2
    <2> QED BY <1>2, <2>1, <2>2
  <1>4. \A n \in 1..Len(c) : c[n] = d[n]
    BY <1>1
  <1> QED BY <1>2, <1>3, <1>4, SeqEqual

\* The only chain there is.
LEMMA ChainEquals ==
  ASSUME NEW l, NEW V, NEW X, Good(l, V, X), NEW i \in V, NEW c, ChainOf(l, V, i, c)
  PROVE  Chain(l, i) = c
  BY ChainIs, ChainUnique, NilNoSlot DEF Good

\* What the links say of a chain.
Sides(l, V, p, s) ==
  /\ l[p].first = IF Len(s) = 0 THEN Nil ELSE s[1]
  /\ l[p].last = IF Len(s) = 0 THEN Nil ELSE s[Len(s)]
  /\ \A k \in 1..Len(s) : /\ s[k] \in V /\ l[s[k]].parent = p
                          /\ l[s[k]].prev = IF k = 1 THEN Nil ELSE s[k - 1]
                          /\ l[s[k]].next = IF k = Len(s) THEN Nil ELSE s[k + 1]

\* The neighbours in a chain.
LEMMA ChainSides ==
  ASSUME NEW l, NEW V, NEW X, Good(l, V, X), NEW p \in V, NEW s, ChainOf(l, V, p, s)
  PROVE  Sides(l, V, p, s)
  <1>0. /\ s \in Seq(V) /\ Len(s) \in Nat /\ Nil \notin V
        /\ \A k \in 1..Len(s) : /\ s[k] \in V /\ l[s[k]].parent = p
                                /\ l[s[k]].prev = IF k = 1 THEN Nil ELSE s[k - 1]
        /\ \A y \in V : NearSides(l, y) /\ NearEnds(l, y)
    BY NilNoSlot DEF ChainOf, Good
  <1>1. l[p].last = IF Len(s) = 0 THEN Nil ELSE s[Len(s)]
    <2>1. s = <<>> <=> Len(s) = 0
      BY <1>0
    <2> QED BY <2>1 DEF ChainOf
  <1>2. l[p].first = IF Len(s) = 0 THEN Nil ELSE s[1]
    <2>1. CASE Len(s) = 0
      BY <1>0, <1>1, <2>1 DEF NearEnds
    <2>2. CASE Len(s) # 0
      <3>1. 1 \in 1..Len(s)
        BY <1>0, <2>2
      <3>2. s[1] \in V /\ l[s[1]].parent = p /\ l[s[1]].prev = Nil /\ p # Nil
        BY <1>0, <3>1
      <3> QED BY <1>0, <2>2, <3>2 DEF NearSides
    <2> QED BY <2>1, <2>2
  <1>3. ASSUME NEW k \in 1..Len(s)
        PROVE  l[s[k]].next = IF k = Len(s) THEN Nil ELSE s[k + 1]
    <2>1. CASE k = Len(s)
      <3>1. l[p].last = s[k] /\ s[k] # Nil
        BY <1>0, <1>1, <2>1
      <3> QED BY <1>0, <2>1, <3>1 DEF NearEnds
    <2>2. CASE k # Len(s)
      <3>1. k + 1 \in 1..Len(s) /\ k + 1 # 1 /\ (k + 1) - 1 = k
        BY <1>0, <2>2
      <3>2. l[s[k + 1]].prev = s[k] /\ s[k] # Nil /\ s[k + 1] \in V
        BY <1>0, <3>1
      <3> QED BY <1>0, <2>2, <3>2 DEF NearSides
    <2> QED BY <2>1, <2>2
  <1> QED BY <1>0, <1>1, <1>2, <1>3 DEF Sides

\* s with c put behind its first n; s without its n-th.
Put(s, n, c) == [k \in 1..(Len(s) + 1) |-> IF k <= n THEN s[k] ELSE IF k = n + 1 THEN c ELSE s[k - 1]]
Taken(s, n) == [k \in 1..(Len(s) - 1) |-> IF k < n THEN s[k] ELSE s[k + 1]]

PutOf(d, V, s, n, c) ==
  /\ d \in Seq(V) /\ Len(d) = Len(s) + 1
  /\ \A k \in 1..n : d[k] = s[k]
  /\ d[n + 1] = c
  /\ \A k \in (n + 2)..(Len(s) + 1) : d[k] = s[k - 1]

\* Put, place by place.
LEMMA PutFacts ==
  ASSUME NEW V, NEW s \in Seq(V), NEW c \in V, NEW n \in 0..Len(s)
  PROVE  PutOf(Put(s, n, c), V, s, n, c)
  <1>0. Len(s) \in Nat /\ n \in Nat /\ n <= Len(s) /\ \A k \in 1..Len(s) : s[k] \in V
    OBVIOUS
  <1> DEFINE d == Put(s, n, c)
  <1>1. \A k \in 1..(Len(s) + 1) :
           d[k] = IF k <= n THEN s[k] ELSE IF k = n + 1 THEN c ELSE s[k - 1]
    BY DEF Put
  <1>2. DOMAIN d = 1..(Len(s) + 1)
    BY DEF Put
  <1>3. ASSUME NEW k \in 1..(Len(s) + 1) PROVE d[k] \in V
    <2>1. k \in 1..Len(s) \/ k - 1 \in 1..Len(s) \/ k = n + 1
      BY <1>0
    <2>2. k <= n => k \in 1..Len(s)
      BY <1>0
    <2>3. ~(k <= n) /\ k # n + 1 => k - 1 \in 1..Len(s)
      BY <1>0
    <2> QED BY <1>0, <1>1, <2>2, <2>3
  <1>4. d \in [1..(Len(s) + 1) -> V]
    BY <1>3 DEF Put
  <1>5. d \in Seq(V) /\ Len(d) = Len(s) + 1
    <2>1. Len(s) + 1 \in Nat
      BY <1>0
    <2> HIDE DEF d
    <2>2. d \in Seq(V)
      BY <1>4, <2>1
    <2> QED BY <1>2, <2>1, <2>2
  <1>6. \A k \in 1..n : d[k] = s[k]
    BY <1>0, <1>1
  <1>7. d[n + 1] = c
    <2>1. n + 1 \in 1..(Len(s) + 1) /\ ~(n + 1 <= n)
      BY <1>0
    <2> QED BY <1>1, <2>1
  <1>8. ASSUME NEW k \in (n + 2)..(Len(s) + 1) PROVE d[k] = s[k - 1]
    <2>1. k \in 1..(Len(s) + 1) /\ ~(k <= n) /\ k # n + 1
      BY <1>0
    <2> QED BY <1>1, <2>1
  <1> QED BY <1>5, <1>6, <1>7, <1>8 DEF PutOf

\* Taken, place by place.
LEMMA TakenFacts ==
  ASSUME NEW V, NEW s \in Seq(V), NEW n \in 1..Len(s)
  PROVE  /\ Taken(s, n) \in Seq(V) /\ Len(Taken(s, n)) = Len(s) - 1
         /\ \A k \in 1..(n - 1) : Taken(s, n)[k] = s[k]
         /\ \A k \in n..(Len(s) - 1) : Taken(s, n)[k] = s[k + 1]
  <1>0. Len(s) \in Nat /\ n \in Nat /\ n <= Len(s) /\ 1 <= n /\ \A k \in 1..Len(s) : s[k] \in V
    OBVIOUS
  <1> DEFINE d == Taken(s, n)
  <1>1. \A k \in 1..(Len(s) - 1) : d[k] = IF k < n THEN s[k] ELSE s[k + 1]
    BY DEF Taken
  <1>2. DOMAIN d = 1..(Len(s) - 1)
    BY DEF Taken
  <1>3. ASSUME NEW k \in 1..(Len(s) - 1) PROVE d[k] \in V
    <2>1. k \in 1..Len(s) /\ k + 1 \in 1..Len(s)
      BY <1>0
    <2> QED BY <1>0, <1>1, <2>1
  <1>4. d \in [1..(Len(s) - 1) -> V]
    BY <1>3 DEF Taken
  <1>5. d \in Seq(V) /\ Len(d) = Len(s) - 1
    <2>1. Len(s) - 1 \in Nat
      BY <1>0
    <2> HIDE DEF d
    <2>2. d \in Seq(V)
      BY <1>4, <2>1
    <2> QED BY <1>2, <2>1, <2>2
  <1>6. ASSUME NEW k \in 1..(n - 1) PROVE d[k] = s[k]
    <2>1. k \in 1..(Len(s) - 1) /\ k < n
      BY <1>0
    <2> QED BY <1>1, <2>1
  <1>7. ASSUME NEW k \in n..(Len(s) - 1) PROVE d[k] = s[k + 1]
    <2>1. k \in 1..(Len(s) - 1) /\ ~(k < n)
      BY <1>0
    <2> QED BY <1>1, <2>1
  <1> QED BY <1>5, <1>6, <1>7

\* A chain whose nodes keep their places stays.
LEMMA ChainStays ==
  ASSUME NEW l, NEW V, NEW X, Good(l, V, X), NEW m, NEW W, NEW Y, Good(m, W, Y),
         NEW x \in V \cap W, m[x].last = l[x].last,
         \A y \in V : l[y].parent = x => y \in W /\ m[y].parent = x /\ m[y].prev = l[y].prev,
         \A y \in W : m[y].parent = x => y \in V /\ l[y].parent = x
  PROVE  Chain(m, x) = Chain(l, x)
  <1>1. PICK s : s = Chain(l, x)
    OBVIOUS
  <1>2. ChainOf(l, V, x, s)
    BY <1>1, ChainIs
  <1>3. /\ s \in Seq(V) /\ Len(s) \in Nat
        /\ \A k \in 1..Len(s) : /\ s[k] \in V /\ l[s[k]].parent = x
                                /\ l[s[k]].prev = IF k = 1 THEN Nil ELSE s[k - 1]
        /\ \A y \in V : l[y].parent = x => \E k \in 1..Len(s) : s[k] = y
        /\ l[x].last = IF s = <<>> THEN Nil ELSE s[Len(s)]
    BY <1>2 DEF ChainOf
  <1>4. s \in Seq(W)
    <2>1. \A k \in 1..Len(s) : s[k] \in W
      BY <1>3
    <2> QED BY <1>3, <2>1
  <1>5. ChainOf(m, W, x, s)
    BY <1>3, <1>4 DEF ChainOf
  <1> QED BY <1>1, <1>5, ChainEquals

\* A node that is joined is in the chain of its parent; no other chain changes.
LEMMA JoinedChain ==
  ASSUME NEW l, NEW V, NEW X, Good(l, V, X), NEW p \in V, NEW c \in V, l[c].parent = Nil,
         NEW m, Good(m, V, X), NEW a, NEW b, Joined(l, m, p, a, b, c),
         NEW s, s = Chain(l, p), NEW n \in 0..Len(s),
         a = (IF n = 0 THEN Nil ELSE s[n]), b = (IF n = Len(s) THEN Nil ELSE s[n + 1])
  PROVE  /\ Chain(m, p) = Put(s, n, c)
         /\ \A x \in V \ {p} : Chain(m, x) = Chain(l, x)
  <1>1. ChainOf(l, V, p, s)
    BY ChainIs
  <1>2. /\ s \in Seq(V) /\ Len(s) \in Nat /\ Nil \notin V /\ V \subseteq Slot
        /\ p # Nil /\ c # Nil /\ n \in Nat /\ n <= Len(s)
        /\ \A y \in V : l[y].parent = p => \E k \in 1..Len(s) : s[k] = y
    BY <1>1, NilNoSlot DEF ChainOf, Good
  <1>3. /\ l[p].last = IF Len(s) = 0 THEN Nil ELSE s[Len(s)]
        /\ \A k \in 1..Len(s) : /\ s[k] \in V /\ l[s[k]].parent = p /\ s[k] # c
                                /\ l[s[k]].prev = IF k = 1 THEN Nil ELSE s[k - 1]
    <2>1. Sides(l, V, p, s)
      BY <1>1, ChainSides
    <2> QED BY <1>2, <2>1 DEF Sides
  <1>4. \A j, k \in 1..Len(s) : s[j] = s[k] => j = k
    BY <1>1, <1>2, ChainInjective
  <1>5. \A i \in V : /\ m[i].parent = IF i = c THEN p ELSE l[i].parent
                     /\ m[i].last = IF i = p /\ b = Nil THEN c ELSE l[i].last
                     /\ m[i].prev = IF i = c THEN a ELSE IF i = b THEN c ELSE l[i].prev
    BY <1>2 DEF Joined
  <1>6. /\ n # Len(s) => n + 1 \in 1..Len(s) /\ b = s[n + 1] /\ b \in V /\ b # Nil
        /\ n = Len(s) => b = Nil
    <2>1. n # Len(s) => n + 1 \in 1..Len(s)
      BY <1>2
    <2> QED BY <1>2, <1>3, <2>1
  <1>7. n # 0 => n \in 1..Len(s) /\ a = s[n]
    BY <1>2
  <1> DEFINE d == Put(s, n, c)
  <1>8. /\ d \in Seq(V) /\ Len(d) = Len(s) + 1 /\ \A k \in 1..n : d[k] = s[k]
        /\ d[n + 1] = c /\ \A k \in (n + 2)..(Len(s) + 1) : d[k] = s[k - 1]
    <2>1. s \in Seq(V) /\ n \in 0..Len(s) /\ c \in V
      BY <1>2
    <2>2. PutOf(d, V, s, n, c)
      BY <2>1, PutFacts
    <2> QED BY <2>2 DEF PutOf
  <1> HIDE DEF d
  <1>9. ASSUME NEW k \in 1..Len(d)
        PROVE  m[d[k]].parent = p /\ m[d[k]].prev = IF k = 1 THEN Nil ELSE d[k - 1]
    <2>1. CASE k <= n
      <3>1. k \in 1..n /\ k \in 1..Len(s) /\ k # n + 1 /\ k \in Nat
        BY <1>2, <1>8, <2>1
      <3>2. d[k] = s[k] /\ s[k] \in V /\ s[k] # c /\ l[s[k]].parent = p
        BY <1>3, <1>8, <3>1
      <3>3. s[k] # b
        BY <1>4, <1>6, <1>2, <3>1, <3>2
      <3>4. k # 1 => d[k - 1] = s[k - 1]
        <4>1. k # 1 => k - 1 \in 1..n
          BY <3>1
        <4> QED BY <1>8, <4>1
      <3>5. l[s[k]].prev = IF k = 1 THEN Nil ELSE s[k - 1]
        BY <1>3, <3>1
      <3>6. m[s[k]].parent = p /\ m[s[k]].prev = l[s[k]].prev
        BY <1>5, <3>2, <3>3
      <3> QED BY <3>2, <3>4, <3>5, <3>6
    <2>2. CASE k = n + 1
      <3>1. d[k] = c /\ (n # 0 => d[n] = s[n]) /\ (n = 0 <=> k = 1) /\ k - 1 = n
        BY <1>2, <1>8, <2>2
      <3> QED BY <1>5, <1>7, <3>1
    <2>3. CASE k > n + 1
      <3>1. k \in (n + 2)..(Len(s) + 1) /\ k - 1 \in 1..Len(s) /\ k # 1 /\ n # Len(s) /\ k \in Nat
        BY <1>2, <1>8, <2>3
      <3>2. d[k] = s[k - 1] /\ s[k - 1] \in V /\ s[k - 1] # c /\ l[s[k - 1]].parent = p
        BY <1>3, <1>8, <3>1
      <3>3. CASE k - 1 = n + 1
        BY <1>5, <1>6, <1>8, <3>1, <3>2, <3>3
      <3>4. CASE k - 1 # n + 1
        <4>1. s[k - 1] # b
          BY <1>4, <1>6, <3>1, <3>4
        <4>2. k - 1 \in (n + 2)..(Len(s) + 1) /\ k - 1 # 1
          BY <1>2, <3>1, <3>4
        <4>3. d[k - 1] = s[(k - 1) - 1]
          BY <1>8, <4>2
        <4>4. l[s[k - 1]].prev = s[(k - 1) - 1]
          BY <1>3, <3>1, <4>2
        <4>5. m[s[k - 1]].parent = p /\ m[s[k - 1]].prev = l[s[k - 1]].prev
          BY <1>5, <3>2, <4>1
        <4> QED BY <3>1, <3>2, <4>3, <4>4, <4>5
      <3> QED BY <3>3, <3>4
    <2> QED BY <1>2, <1>8, <2>1, <2>2, <2>3
  <1>10. m[p].last = IF d = <<>> THEN Nil ELSE d[Len(d)]
    <2>1. d # <<>>
      BY <1>2, <1>8
    <2>2. CASE n = Len(s)
      BY <1>5, <1>6, <1>8, <2>1, <2>2
    <2>3. CASE n # Len(s)
      <3>1. Len(s) + 1 \in (n + 2)..(Len(s) + 1) /\ Len(s) # 0 /\ (Len(s) + 1) - 1 = Len(s)
        BY <1>2, <2>3
      <3>2. m[p].last = s[Len(s)]
        BY <1>3, <1>5, <1>6, <2>3, <3>1
      <3>3. d[Len(s) + 1] = s[Len(s)] /\ Len(d) = Len(s) + 1
        BY <1>8, <3>1
      <3> QED BY <2>1, <3>2, <3>3
    <2> QED BY <2>2, <2>3
  <1>11. ASSUME NEW y \in V, m[y].parent = p PROVE \E k \in 1..Len(d) : d[k] = y
    <2>1. CASE y = c
      <3>1. n + 1 \in 1..Len(d)
        BY <1>2, <1>8
      <3> QED BY <1>8, <2>1, <3>1
    <2>2. CASE y # c
      <3>1. PICK k \in 1..Len(s) : s[k] = y
        BY <1>2, <1>5, <1>11, <2>2
      <3>2. CASE k <= n
        <4>1. k \in 1..n /\ k \in 1..Len(d)
          BY <1>2, <1>8, <3>2
        <4> QED BY <1>8, <3>1, <4>1
      <3>3. CASE ~(k <= n)
        <4>1. k + 1 \in (n + 2)..(Len(s) + 1) /\ k + 1 \in 1..Len(d) /\ (k + 1) - 1 = k
          BY <1>2, <1>8, <3>3
        <4>2. d[k + 1] = y
          BY <1>8, <3>1, <4>1
        <4> QED BY <4>1, <4>2
      <3> QED BY <3>2, <3>3
    <2> QED BY <2>1, <2>2
  <1>12. ChainOf(m, V, p, d)
    BY <1>8, <1>9, <1>10, <1>11 DEF ChainOf
  <1>13. Chain(m, p) = d
    BY <1>12, ChainEquals
  <1>14. ASSUME NEW x \in V \ {p} PROVE Chain(m, x) = Chain(l, x)
    <2>1. m[x].last = l[x].last
      BY <1>5
    <2>2. ASSUME NEW y \in V, l[y].parent = x
          PROVE  y \in V /\ m[y].parent = x /\ m[y].prev = l[y].prev
      <3>1. y # c /\ y # b
        BY <1>2, <1>3, <1>6, <2>2
      <3> QED BY <1>5, <2>2, <3>1
    <2>3. ASSUME NEW y \in V, m[y].parent = x PROVE y \in V /\ l[y].parent = x
      BY <1>5, <2>3
    <2> QED BY <2>1, <2>2, <2>3, ChainStays
  <1> QED BY <1>13, <1>14 DEF d

\* A node that is parted leaves the chain of its parent.
LEMMA PartedChain ==
  ASSUME NEW l, NEW V, NEW X, Good(l, V, X), NEW p \in V,
         NEW s, s = Chain(l, p), NEW n \in 1..Len(s), NEW c, c = s[n],
         NEW m, Good(m, V, X), Parted(l, m, l[c].parent, l[c].prev, l[c].next, c)
  PROVE  /\ Chain(m, p) = Taken(s, n)
         /\ \A x \in V \ {p} : Chain(m, x) = Chain(l, x)
  <1>1. ChainOf(l, V, p, s)
    BY ChainIs
  <1>2. /\ s \in Seq(V) /\ Len(s) \in Nat /\ Nil \notin V /\ V \subseteq Slot
        /\ p # Nil /\ n \in Nat /\ n <= Len(s) /\ 1 <= n
        /\ \A y \in V : l[y].parent = p => \E k \in 1..Len(s) : s[k] = y
    BY <1>1, NilNoSlot DEF ChainOf, Good
  <1>3. /\ l[p].last = IF Len(s) = 0 THEN Nil ELSE s[Len(s)]
        /\ \A k \in 1..Len(s) : /\ s[k] \in V /\ l[s[k]].parent = p
                                /\ l[s[k]].prev = IF k = 1 THEN Nil ELSE s[k - 1]
                                /\ l[s[k]].next = IF k = Len(s) THEN Nil ELSE s[k + 1]
    <2>1. Sides(l, V, p, s)
      BY <1>1, ChainSides
    <2> QED BY <2>1 DEF Sides
  <1>4. \A j, k \in 1..Len(s) : s[j] = s[k] => j = k
    BY <1>1, <1>2, ChainInjective
  <1> DEFINE a == l[c].prev
             b == l[c].next
  <1>5. /\ c \in V /\ l[c].parent = p /\ c # Nil
        /\ a = (IF n = 1 THEN Nil ELSE s[n - 1]) /\ b = (IF n = Len(s) THEN Nil ELSE s[n + 1])
    BY <1>2, <1>3
  <1>6. \A i \in V : /\ m[i].parent = IF i = c THEN Nil ELSE l[i].parent
                     /\ m[i].last = IF i = p /\ b = Nil THEN a ELSE l[i].last
                     /\ m[i].prev = IF i = c THEN Nil ELSE IF i = b THEN a ELSE l[i].prev
    BY <1>2, <1>5 DEF Parted
  <1>7. /\ n # Len(s) => n + 1 \in 1..Len(s) /\ b = s[n + 1] /\ b \in V /\ b # Nil
        /\ n = Len(s) => b = Nil
    <2>1. n # Len(s) => n + 1 \in 1..Len(s)
      BY <1>2
    <2> QED BY <1>2, <1>3, <1>5, <2>1
  <1> DEFINE d == Taken(s, n)
  <1>8. /\ d \in Seq(V) /\ Len(d) = Len(s) - 1 /\ \A k \in 1..(n - 1) : d[k] = s[k]
        /\ \A k \in n..(Len(s) - 1) : d[k] = s[k + 1]
    <2>1. s \in Seq(V) /\ n \in 1..Len(s)
      BY <1>2
    <2>2. /\ Taken(s, n) \in Seq(V) /\ Len(Taken(s, n)) = Len(s) - 1
          /\ \A k \in 1..(n - 1) : Taken(s, n)[k] = s[k]
          /\ \A k \in n..(Len(s) - 1) : Taken(s, n)[k] = s[k + 1]
      BY <2>1, TakenFacts
    <2> QED BY <2>2
  <1> HIDE DEF d, a, b
  <1>9. ASSUME NEW k \in 1..Len(d)
        PROVE  m[d[k]].parent = p /\ m[d[k]].prev = IF k = 1 THEN Nil ELSE d[k - 1]
    <2>1. CASE k < n
      <3>1. k \in 1..(n - 1) /\ k \in 1..Len(s) /\ k # n /\ k # n + 1 /\ k \in Nat
        BY <1>2, <1>8, <2>1
      <3>2. d[k] = s[k] /\ s[k] \in V /\ s[k] # c /\ l[s[k]].parent = p
        BY <1>2, <1>3, <1>4, <1>8, <3>1
      <3>3. s[k] # b
        BY <1>2, <1>4, <1>7, <3>1, <3>2
      <3>4. k # 1 => d[k - 1] = s[k - 1]
        <4>1. k # 1 => k - 1 \in 1..(n - 1)
          BY <3>1
        <4> QED BY <1>8, <4>1
      <3>5. l[s[k]].prev = IF k = 1 THEN Nil ELSE s[k - 1]
        BY <1>3, <3>1
      <3>6. m[s[k]].parent = p /\ m[s[k]].prev = l[s[k]].prev
        BY <1>6, <3>2, <3>3
      <3> QED BY <3>2, <3>4, <3>5, <3>6
    <2>2. CASE ~(k < n)
      <3>1. k \in n..(Len(s) - 1) /\ k + 1 \in 1..Len(s) /\ k + 1 # n /\ k \in Nat /\ k + 1 # 1
            /\ n # Len(s) /\ (k + 1) - 1 = k
        BY <1>2, <1>8, <2>2
      <3>2. d[k] = s[k + 1] /\ s[k + 1] \in V /\ s[k + 1] # c /\ l[s[k + 1]].parent = p
            /\ l[s[k + 1]].prev = s[k]
        BY <1>2, <1>3, <1>4, <1>8, <3>1
      <3>3. CASE k = n
        <4>1. s[k + 1] = b /\ m[d[k]].prev = a
          BY <1>6, <1>7, <3>1, <3>2, <3>3
        <4>2. n # 1 => n - 1 \in 1..(n - 1) /\ d[n - 1] = s[n - 1]
          BY <1>2, <1>8
        <4> QED BY <1>5, <1>6, <3>2, <3>3, <4>1, <4>2
      <3>4. CASE k # n
        <4>1. s[k + 1] # b
          BY <1>4, <1>7, <3>1, <3>4
        <4>2. k - 1 \in n..(Len(s) - 1) /\ (k - 1) + 1 = k /\ k # 1
          BY <1>2, <2>2, <3>1, <3>4
        <4>3. d[k - 1] = s[k]
          BY <1>8, <4>2
        <4> QED BY <1>6, <3>1, <3>2, <4>1, <4>2, <4>3
      <3> QED BY <3>3, <3>4
    <2> QED BY <2>1, <2>2
  <1>10. m[p].last = IF d = <<>> THEN Nil ELSE d[Len(d)]
    <2>1. d = <<>> <=> Len(s) = 1
      BY <1>2, <1>8
    <2>2. m[p].last = IF b = Nil THEN a ELSE l[p].last
      BY <1>6
    <2>3. CASE n = Len(s)
      <3>1. m[p].last = IF n = 1 THEN Nil ELSE s[n - 1]
        BY <1>5, <1>7, <2>2, <2>3
      <3>2. n # 1 => Len(d) \in 1..(n - 1) /\ Len(d) = n - 1
        BY <1>2, <1>8, <2>3
      <3> QED BY <1>8, <2>1, <2>3, <3>1, <3>2
    <2>4. CASE n # Len(s)
      <3>1. Len(d) \in n..(Len(s) - 1) /\ Len(d) + 1 = Len(s) /\ Len(s) # 1 /\ Len(s) # 0
        BY <1>2, <1>8, <2>4
      <3> QED BY <1>3, <1>7, <1>8, <2>1, <2>2, <2>4, <3>1
    <2> QED BY <2>3, <2>4
  <1>11. ASSUME NEW y \in V, m[y].parent = p PROVE \E k \in 1..Len(d) : d[k] = y
    <2>1. y # c /\ l[y].parent = p
      BY <1>2, <1>6, <1>11
    <2>2. PICK k \in 1..Len(s) : s[k] = y
      BY <1>2, <2>1
    <2>3. k # n
      BY <2>1, <2>2
    <2>4. CASE k < n
      <3>1. k \in 1..(n - 1) /\ k \in 1..Len(d)
        BY <1>2, <1>8, <2>4
      <3> QED BY <1>8, <2>2, <3>1
    <2>5. CASE ~(k < n)
      <3>1. k - 1 \in n..(Len(s) - 1) /\ k - 1 \in 1..Len(d) /\ (k - 1) + 1 = k
        BY <1>2, <1>8, <2>3, <2>5
      <3>2. d[k - 1] = y
        BY <1>8, <2>2, <3>1
      <3> QED BY <3>1, <3>2
    <2> QED BY <2>4, <2>5
  <1>12. ChainOf(m, V, p, d)
    BY <1>8, <1>9, <1>10, <1>11 DEF ChainOf
  <1>13. Chain(m, p) = d
    BY <1>12, ChainEquals
  <1>14. ASSUME NEW x \in V \ {p} PROVE Chain(m, x) = Chain(l, x)
    <2>1. m[x].last = l[x].last
      BY <1>6
    <2>2. ASSUME NEW y \in V, l[y].parent = x
          PROVE  y \in V /\ m[y].parent = x /\ m[y].prev = l[y].prev
      <3>1. b # Nil => l[b].parent = p
        BY <1>3, <1>7
      <3>2. y # c /\ y # b
        BY <1>2, <1>5, <2>2, <3>1
      <3> QED BY <1>6, <2>2, <3>2
    <2>3. ASSUME NEW y \in V, m[y].parent = x PROVE y \in V /\ l[y].parent = x
      <3>1. x # Nil
        BY <1>2
      <3> QED BY <1>6, <2>3, <3>1
    <2> QED BY <2>1, <2>2, <2>3, ChainStays
  <1> QED BY <1>13, <1>14 DEF d

\* s with d in place of the cut nodes behind the first n.
Spliced(s, n, cut, d) ==
  [k \in 1..((Len(s) + Len(d)) - cut) |->
     IF k <= n THEN s[k] ELSE IF k <= n + Len(d) THEN d[k - n] ELSE s[(k - Len(d)) + cut]]

SplicedOf(t, V, s, n, cut, d) ==
  /\ t \in Seq(V) /\ Len(t) = (Len(s) + Len(d)) - cut
  /\ \A k \in 1..n : t[k] = s[k]
  /\ \A k \in (n + 1)..(n + Len(d)) : t[k] = d[k - n]
  /\ \A k \in ((n + Len(d)) + 1)..((Len(s) + Len(d)) - cut) : t[k] = s[(k - Len(d)) + cut]

\* Spliced, place by place.
LEMMA SplicedFacts ==
  ASSUME NEW V, NEW s \in Seq(V), NEW d \in Seq(V), NEW n \in Nat, NEW cut \in Nat, n + cut <= Len(s)
  PROVE  SplicedOf(Spliced(s, n, cut, d), V, s, n, cut, d)
  <1>0. /\ Len(s) \in Nat /\ Len(d) \in Nat
        /\ \A k \in 1..Len(s) : s[k] \in V
        /\ \A k \in 1..Len(d) : d[k] \in V
    OBVIOUS
  <1>1. PICK N : N = (Len(s) + Len(d)) - cut
    OBVIOUS
  <1>2. N \in Nat /\ n + Len(d) <= N
    BY <1>0, <1>1
  <1>3. PICK t : t = Spliced(s, n, cut, d)
    OBVIOUS
  <1>4. /\ DOMAIN t = 1..N
        /\ \A k \in 1..N : t[k] = IF k <= n THEN s[k]
                                  ELSE IF k <= n + Len(d) THEN d[k - n] ELSE s[(k - Len(d)) + cut]
        /\ t = [k \in 1..N |-> t[k]]
    BY <1>1, <1>3 DEF Spliced
  <1>5. ASSUME NEW k \in 1..N PROVE t[k] \in V
    <2>1. CASE k <= n
      <3>1. k \in 1..Len(s)
        BY <1>0, <2>1
      <3> QED BY <1>0, <1>4, <2>1, <3>1
    <2>2. CASE ~(k <= n) /\ k <= n + Len(d)
      <3>1. k - n \in 1..Len(d)
        BY <1>0, <2>2
      <3> QED BY <1>0, <1>4, <2>2, <3>1
    <2>3. CASE ~(k <= n) /\ ~(k <= n + Len(d))
      <3>1. (k - Len(d)) + cut \in 1..Len(s)
        BY <1>0, <1>1, <2>3
      <3> QED BY <1>0, <1>4, <2>3, <3>1
    <2> QED BY <2>1, <2>2, <2>3
  <1>6. t \in Seq(V) /\ Len(t) = N
    <2>1. t \in [1..N -> V]
      BY <1>4, <1>5
    <2>2. t \in Seq(V)
      BY <1>2, <2>1
    <2> QED BY <1>2, <1>4, <2>2
  <1>7. ASSUME NEW k \in 1..n PROVE t[k] = s[k]
    <2>1. k \in 1..N /\ k <= n
      BY <1>0, <1>2
    <2> QED BY <1>4, <2>1
  <1>8. ASSUME NEW k \in (n + 1)..(n + Len(d)) PROVE t[k] = d[k - n]
    <2>1. k \in 1..N /\ ~(k <= n) /\ k <= n + Len(d)
      BY <1>0, <1>2
    <2> QED BY <1>4, <2>1
  <1>9. ASSUME NEW k \in ((n + Len(d)) + 1)..N PROVE t[k] = s[(k - Len(d)) + cut]
    <2>1. k \in 1..N /\ ~(k <= n) /\ ~(k <= n + Len(d))
      BY <1>0, <1>2
    <2> QED BY <1>4, <2>1
  <1> QED BY <1>1, <1>3, <1>6, <1>7, <1>8, <1>9 DEF SplicedOf

\* That says all about it.
LEMMA SplicedIs ==
  ASSUME NEW V, NEW s \in Seq(V), NEW d \in Seq(V), NEW n \in Nat, NEW cut \in Nat, n + cut <= Len(s),
         NEW t, SplicedOf(t, V, s, n, cut, d)
  PROVE  t = Spliced(s, n, cut, d)
  <1>1. PICK u : u = Spliced(s, n, cut, d)
    OBVIOUS
  <1>2. SplicedOf(u, V, s, n, cut, d)
    BY <1>1, SplicedFacts
  <1>3. /\ t \in Seq(V) /\ u \in Seq(V) /\ Len(t) = Len(u) /\ Len(t) = (Len(s) + Len(d)) - cut
        /\ Len(s) \in Nat /\ Len(d) \in Nat
    BY <1>2 DEF SplicedOf
  <1>4. ASSUME NEW k \in 1..Len(t) PROVE t[k] = u[k]
    <2>1. \/ k \in 1..n \/ k \in (n + 1)..(n + Len(d))
          \/ k \in ((n + Len(d)) + 1)..((Len(s) + Len(d)) - cut)
      BY <1>3
    <2>2. CASE k \in 1..n
      BY <1>2, <2>2 DEF SplicedOf
    <2>3. CASE k \in (n + 1)..(n + Len(d))
      BY <1>2, <2>3 DEF SplicedOf
    <2>4. CASE k \in ((n + Len(d)) + 1)..((Len(s) + Len(d)) - cut)
      BY <1>2, <2>4 DEF SplicedOf
    <2> QED BY <2>1, <2>2, <2>3, <2>4
  <1> QED BY <1>1, <1>3, <1>4, SeqEqual

\* The first k nodes of c as they come to lie, each behind or before those that came.
Run(how, c, k) == [j \in 1..k |-> IF how = "first" THEN c[(k + 1) - j] ELSE c[j]]

RunOf(d, V, how, c, k) ==
  /\ d \in Seq(V) /\ Len(d) = k
  /\ \A j \in 1..k : d[j] = IF how = "first" THEN c[(k + 1) - j] ELSE c[j]

\* Run, place by place.
LEMMA RunFacts ==
  ASSUME NEW V, NEW c \in Seq(V), NEW k \in 0..Len(c), NEW how
  PROVE  RunOf(Run(how, c, k), V, how, c, k)
  <1>0. k \in Nat /\ Len(c) \in Nat /\ k <= Len(c) /\ \A j \in 1..Len(c) : c[j] \in V
    OBVIOUS
  <1>1. PICK d : d = Run(how, c, k)
    OBVIOUS
  <1>2. DOMAIN d = 1..k /\ \A j \in 1..k : d[j] = IF how = "first" THEN c[(k + 1) - j] ELSE c[j]
    BY <1>1 DEF Run
  <1>3. ASSUME NEW j \in 1..k PROVE d[j] \in V
    <2>1. (k + 1) - j \in 1..Len(c) /\ j \in 1..Len(c)
      BY <1>0
    <2> QED BY <1>0, <1>2, <2>1
  <1>4. d \in [1..k -> V]
    BY <1>1, <1>3 DEF Run
  <1>5. d \in Seq(V)
    BY <1>0, <1>4
  <1> QED BY <1>0, <1>1, <1>2, <1>5 DEF RunOf

\* One node more in the run.
LEMMA PutRun ==
  ASSUME NEW V, NEW s \in Seq(V), NEW c \in Seq(V), NEW n \in 0..Len(s),
         NEW k \in Nat, k + 1 \in 1..Len(c), NEW how, how = "first" => n = 0,
         NEW q, q = (IF how = "first" THEN 0 ELSE n + k)
  PROVE  Put(Spliced(s, n, 0, Run(how, c, k)), q, c[k + 1]) = Spliced(s, n, 0, Run(how, c, k + 1))
  <1>0. /\ Len(s) \in Nat /\ Len(c) \in Nat /\ n \in Nat /\ n <= Len(s) /\ n + 0 <= Len(s)
        /\ k \in 0..Len(c) /\ k + 1 \in 0..Len(c) /\ c[k + 1] \in V /\ 0 \in Nat
        /\ k + 1 <= Len(c) /\ q \in Nat
    OBVIOUS
  <1>1. PICK d, e : d = Run(how, c, k) /\ e = Run(how, c, k + 1)
    OBVIOUS
  <1>2. /\ d \in Seq(V) /\ Len(d) = k
        /\ \A j \in 1..k : d[j] = IF how = "first" THEN c[(k + 1) - j] ELSE c[j]
    <2>1. RunOf(d, V, how, c, k)
      BY <1>0, <1>1, RunFacts
    <2> QED BY <2>1 DEF RunOf
  <1>3. /\ e \in Seq(V) /\ Len(e) = k + 1
        /\ \A j \in 1..(k + 1) : e[j] = IF how = "first" THEN c[((k + 1) + 1) - j] ELSE c[j]
    <2>1. RunOf(e, V, how, c, k + 1)
      BY <1>0, <1>1, RunFacts
    <2> QED BY <2>1 DEF RunOf
  <1>4. PICK t : t = Spliced(s, n, 0, d)
    OBVIOUS
  <1>5. /\ t \in Seq(V) /\ Len(t) = Len(s) + k
        /\ \A j \in 1..n : t[j] = s[j]
        /\ \A j \in (n + 1)..(n + k) : t[j] = d[j - n]
        /\ \A j \in ((n + k) + 1)..(Len(s) + k) : t[j] = s[j - k]
    <2>1. SplicedOf(t, V, s, n, 0, d)
      BY <1>0, <1>2, <1>4, SplicedFacts
    <2> QED BY <1>0, <1>2, <2>1 DEF SplicedOf
  <1>6. PICK u : u = Put(t, q, c[k + 1])
    OBVIOUS
  <1>7. /\ u \in Seq(V) /\ Len(u) = (Len(s) + k) + 1
        /\ \A j \in 1..q : u[j] = t[j]
        /\ u[q + 1] = c[k + 1]
        /\ \A j \in (q + 2)..((Len(s) + k) + 1) : u[j] = t[j - 1]
    <2>1. q \in 0..Len(t)
      BY <1>0, <1>5
    <2>2. PutOf(u, V, t, q, c[k + 1])
      BY <1>0, <1>5, <1>6, <2>1, PutFacts
    <2> QED BY <1>5, <2>2 DEF PutOf
  <1>8. ASSUME NEW j \in 1..n PROVE u[j] = s[j]
    <2>1. how # "first" /\ j \in 1..q
      BY <1>0
    <2> QED BY <1>5, <1>7, <2>1
  <1>9. ASSUME NEW j \in (n + 1)..(n + (k + 1)) PROVE u[j] = e[j - n]
    <2>1. j - n \in 1..(k + 1) /\ j \in Nat
      BY <1>0
    <2>2. CASE how = "first"
      <3>1. n = 0 /\ q = 0 /\ j - n = j
        BY <2>2, <1>0
      <3>2. CASE j = 1
        <4>1. u[1] = c[k + 1] /\ e[1] = c[((k + 1) + 1) - 1] /\ ((k + 1) + 1) - 1 = k + 1
          BY <1>3, <1>7, <2>1, <2>2, <3>1, <3>2
        <4> QED BY <3>1, <3>2, <4>1
      <3>3. CASE j # 1
        <4>1. j \in (q + 2)..((Len(s) + k) + 1) /\ j - 1 \in (n + 1)..(n + k) /\ (j - 1) - n = j - 1
              /\ j - 1 \in 1..k /\ (k + 1) - (j - 1) = ((k + 1) + 1) - j
          BY <1>0, <2>1, <3>1, <3>3
        <4>2. u[j] = t[j - 1] /\ t[j - 1] = d[j - 1] /\ d[j - 1] = c[(k + 1) - (j - 1)]
          BY <1>2, <1>5, <1>7, <2>2, <4>1
        <4>3. e[j] = c[((k + 1) + 1) - j]
          BY <1>3, <2>1, <2>2, <3>1
        <4> QED BY <3>1, <4>1, <4>2, <4>3
      <3> QED BY <3>2, <3>3
    <2>3. CASE how # "first"
      <3>1. q = n + k
        BY <2>3
      <3>2. CASE j = q + 1
        <4>1. j - n = k + 1
          BY <1>0, <3>1, <3>2
        <4> QED BY <1>3, <1>7, <2>1, <2>3, <3>2, <4>1
      <3>3. CASE j # q + 1
        <4>1. j \in 1..q /\ j \in (n + 1)..(n + k) /\ j - n \in 1..k
          BY <1>0, <2>1, <3>1, <3>3
        <4>2. u[j] = t[j] /\ t[j] = d[j - n]
          BY <1>5, <1>7, <4>1
        <4>3. d[j - n] = c[j - n] /\ e[j - n] = c[j - n]
          BY <1>2, <1>3, <2>1, <2>3, <4>1
        <4> QED BY <4>2, <4>3
      <3> QED BY <3>2, <3>3
    <2> QED BY <2>2, <2>3
  <1>10. ASSUME NEW j \in ((n + (k + 1)) + 1)..(Len(s) + (k + 1)) PROVE u[j] = s[j - (k + 1)]
    <2>1. j \in (q + 2)..((Len(s) + k) + 1) /\ j - 1 \in ((n + k) + 1)..(Len(s) + k)
          /\ (j - 1) - k = j - (k + 1)
      BY <1>0
    <2> QED BY <1>5, <1>7, <2>1
  <1>11. SplicedOf(u, V, s, n, 0, e)
    <2>1. Len(u) = (Len(s) + Len(e)) - 0
      BY <1>0, <1>3, <1>7
    <2>2. ASSUME NEW j \in ((n + Len(e)) + 1)..((Len(s) + Len(e)) - 0)
          PROVE  u[j] = s[(j - Len(e)) + 0]
      <3>1. j \in ((n + (k + 1)) + 1)..(Len(s) + (k + 1)) /\ (j - Len(e)) + 0 = j - (k + 1)
        BY <1>0, <1>3
      <3> QED BY <1>10, <3>1
    <2> QED BY <1>3, <1>7, <1>8, <1>9, <2>1, <2>2 DEF SplicedOf
  <1>12. u = Spliced(s, n, 0, e)
    BY <1>0, <1>3, <1>11, SplicedIs
  <1> QED BY <1>1, <1>4, <1>6, <1>12

\* In the way `how', `at' is behind the first n children s of p.
Behind(p, how, at, s, n) ==
  \/ how = "last" /\ at = p /\ n = Len(s)
  \/ how = "first" /\ at = p /\ n = 0
  \/ how = "before" /\ n + 1 \in 1..Len(s) /\ at = s[n + 1]
  \/ how = "after" /\ n \in 1..Len(s) /\ at = s[n]

\* A node that is linked goes there.
LEMMA LinkToPuts ==
  ASSUME NEW l, NEW V, NEW X, Good(l, V, X), NEW p \in V, NEW c \in V, l[c].parent = Nil, c # p,
         NEW s, s = Chain(l, p), NEW n \in 0..Len(s), NEW how, NEW at, Behind(p, how, at, s, n),
         NEW m, m = LinkTo(l, how, at, c), Good(m, V, X)
  PROVE  /\ Chain(m, p) = Put(s, n, c)
         /\ \A x \in V \ {p} : Chain(m, x) = Chain(l, x)
  <1>1. ChainOf(l, V, p, s)
    BY ChainIs
  <1>2. /\ s \in Seq(V) /\ Len(s) \in Nat /\ n \in Nat /\ n <= Len(s) /\ p \in Slot /\ c \in Slot
        /\ c # Nil /\ p # Nil /\ V \subseteq Slot /\ Typed(l)
    BY <1>1, NilNoSlot DEF ChainOf, Good
  <1>3. /\ l[p].first = IF Len(s) = 0 THEN Nil ELSE s[1]
        /\ l[p].last = IF Len(s) = 0 THEN Nil ELSE s[Len(s)]
        /\ \A k \in 1..Len(s) : /\ s[k] \in V /\ l[s[k]].parent = p
                                /\ l[s[k]].prev = IF k = 1 THEN Nil ELSE s[k - 1]
                                /\ l[s[k]].next = IF k = Len(s) THEN Nil ELSE s[k + 1]
    BY <1>1, ChainSides DEF Sides
  <1>4. \A k \in 1..Len(s) : s[k] # c
    BY <1>2, <1>3
  <1>5. PICK a, b : a = (IF n = 0 THEN Nil ELSE s[n]) /\ b = (IF n = Len(s) THEN Nil ELSE s[n + 1])
    OBVIOUS
  <1>6. Joined(l, m, p, a, b, c)
    <2>1. CASE how = "last" /\ at = p /\ n = Len(s)
      <3>1. m = LinkLast(l, p, c)
        BY <2>1 DEF LinkTo
      <3>2. l[p].last = a /\ b = Nil
        BY <1>3, <1>5, <2>1
      <3>3. Len(s) # 0 => Len(s) \in 1..Len(s)
        BY <1>2
      <3>4. l[p].last # c
        BY <1>2, <1>3, <1>4, <3>3
      <3> QED BY <1>2, <3>1, <3>2, <3>4, LinkLastJoins
    <2>2. CASE how = "first" /\ at = p /\ n = 0
      <3>1. m = LinkFirst(l, p, c)
        BY <2>2 DEF LinkTo
      <3>2. l[p].first = b /\ a = Nil
        BY <1>2, <1>3, <1>5, <2>2
      <3>3. Len(s) # 0 => 1 \in 1..Len(s)
        BY <1>2
      <3>4. l[p].first # c
        BY <1>2, <1>3, <1>4, <3>3
      <3> QED BY <1>2, <3>1, <3>2, <3>4, LinkFirstJoins
    <2>3. CASE how = "before" /\ n + 1 \in 1..Len(s) /\ at = s[n + 1]
      <3>1. m = LinkBefore(l, at, c)
        BY <2>3 DEF LinkTo
      <3>2. (n + 1) - 1 = n /\ (n + 1 = 1 <=> n = 0) /\ n # Len(s)
            /\ (n # 0 => n \in 1..Len(s))
        BY <1>2, <2>3
      <3>3. at \in V /\ l[at].parent = p /\ at # c
        BY <1>3, <1>4, <2>3
      <3>4. l[at].prev = a /\ b = at
        BY <1>3, <1>5, <2>3, <3>2
      <3>5. a # c
        BY <1>2, <1>4, <1>5, <3>2
      <3> QED BY <1>2, <3>1, <3>3, <3>4, <3>5, LinkBeforeJoins
    <2>4. CASE how = "after" /\ n \in 1..Len(s) /\ at = s[n]
      <3>1. m = LinkAfter(l, at, c)
        BY <2>4 DEF LinkTo
      <3>2. n # 0 /\ (n # Len(s) => n + 1 \in 1..Len(s))
        BY <1>2, <2>4
      <3>3. at \in V /\ l[at].parent = p /\ at # c
        BY <1>3, <1>4, <2>4
      <3>4. l[at].next = b /\ a = at
        BY <1>3, <1>5, <2>4, <3>2
      <3>5. b # c
        BY <1>2, <1>4, <1>5, <3>2
      <3> QED BY <1>2, <3>1, <3>3, <3>4, <3>5, LinkAfterJoins
    <2> QED BY <2>1, <2>2, <2>3, <2>4 DEF Behind
  <1> QED BY <1>5, <1>6, JoinedChain

\* Where the slots c go: as one run behind the first n children s of p.
AimBehind(p, how, at, c, s, n) ==
  \/ how = "last" /\ n = Len(s) /\ \A k \in 1..Len(c) : at[k] = p
  \/ how = "first" /\ n = 0 /\ \A k \in 1..Len(c) : at[k] = p
  \/ how = "before" /\ n + 1 \in 1..Len(s) /\ \A k \in 1..Len(c) : at[k] = s[n + 1]
  \/ how = "after" /\ n \in 1..Len(s) /\ \A k \in 1..Len(c) : at[k] = IF k = 1 THEN s[n] ELSE c[k - 1]

\* Places behind children of p are places the loop may aim at.
LEMMA AimsThere ==
  ASSUME NEW l, NEW V, NEW p, NEW s, ChainOf(l, V, p, s), NEW n, NEW c,
         NEW how, NEW at, AimBehind(p, how, at, c, s, n)
  PROVE  Aim(l, V, p, how, at, c)
  <1>1. \A k \in 1..Len(s) : s[k] \in V /\ l[s[k]].parent = p
    BY DEF ChainOf
  <1> QED BY <1>1 DEF AimBehind, Aim

\* The place of the next one.
LEMMA NextBehind ==
  ASSUME NEW V, NEW p, NEW s \in Seq(V), NEW c \in Seq(V), NEW n \in 0..Len(s),
         NEW how, NEW at, AimBehind(p, how, at, c, s, n),
         NEW k \in Nat, k + 1 \in 1..Len(c),
         NEW t, t = Spliced(s, n, 0, Run(how, c, k)), NEW q, q = (IF how = "first" THEN 0 ELSE n + k)
  PROVE  Behind(p, how, at[k + 1], t, q) /\ q \in 0..Len(t) /\ t \in Seq(V)
  <1>0. /\ Len(s) \in Nat /\ Len(c) \in Nat /\ n \in Nat /\ n <= Len(s) /\ n + 0 <= Len(s)
        /\ k \in 0..Len(c) /\ 0 \in Nat /\ k + 1 <= Len(c) /\ q \in Nat
    OBVIOUS
  <1>1. PICK d : d = Run(how, c, k)
    OBVIOUS
  <1>2. RunOf(d, V, how, c, k)
    BY <1>0, <1>1, RunFacts
  <1>3. d \in Seq(V) /\ Len(d) = k /\ \A j \in 1..k : how # "first" => d[j] = c[j]
    BY <1>2 DEF RunOf
  <1>4. SplicedOf(t, V, s, n, 0, d)
    BY <1>0, <1>1, <1>3, SplicedFacts
  <1>5. /\ t \in Seq(V) /\ Len(t) = Len(s) + k
        /\ \A j \in 1..n : t[j] = s[j]
        /\ \A j \in (n + 1)..(n + k) : t[j] = d[j - n]
        /\ \A j \in ((n + k) + 1)..(Len(s) + k) : t[j] = s[j - k]
    BY <1>0, <1>3, <1>4 DEF SplicedOf
  <1>6. q \in 0..Len(t)
    BY <1>0, <1>5
  <1>7. CASE how = "last" /\ n = Len(s) /\ \A j \in 1..Len(c) : at[j] = p
    BY <1>0, <1>5, <1>7 DEF Behind
  <1>8. CASE how = "first" /\ n = 0 /\ \A j \in 1..Len(c) : at[j] = p
    BY <1>0, <1>5, <1>8 DEF Behind
  <1>9. CASE how = "before" /\ n + 1 \in 1..Len(s) /\ \A j \in 1..Len(c) : at[j] = s[n + 1]
    <2>1. /\ (n + k) + 1 \in ((n + k) + 1)..(Len(s) + k) /\ ((n + k) + 1) - k = n + 1
          /\ (n + k) + 1 \in 1..(Len(s) + k) /\ q = n + k
      BY <1>0, <1>9
    <2>2. t[(n + k) + 1] = s[n + 1]
      BY <1>5, <2>1
    <2> QED BY <1>5, <1>9, <2>1, <2>2 DEF Behind
  <1>10. CASE how = "after" /\ n \in 1..Len(s)
              /\ \A j \in 1..Len(c) : at[j] = IF j = 1 THEN s[n] ELSE c[j - 1]
    <2>1. q = n + k /\ q \in 1..Len(t)
      BY <1>0, <1>5, <1>10
    <2>2. CASE k = 0
      <3>1. n \in 1..n /\ n + k = n /\ k + 1 = 1
        BY <1>10, <2>2
      <3>2. t[q] = s[n] /\ at[k + 1] = s[n]
        BY <1>5, <1>10, <2>1, <3>1
      <3> QED BY <1>5, <1>6, <1>10, <2>1, <3>2 DEF Behind
    <2>3. CASE k # 0
      <3>1. n + k \in (n + 1)..(n + k) /\ (n + k) - n = k /\ k \in 1..k /\ k + 1 # 1 /\ (k + 1) - 1 = k
        BY <1>0, <2>3
      <3>2. t[q] = d[k] /\ d[k] = c[k]
        BY <1>3, <1>5, <1>10, <2>1, <3>1
      <3>3. at[k + 1] = c[k]
        BY <1>10, <3>1
      <3> QED BY <1>5, <1>6, <1>10, <2>1, <3>2, <3>3 DEF Behind
    <2> QED BY <2>2, <2>3
  <1> QED BY <1>5, <1>6, <1>7, <1>8, <1>9, <1>10 DEF AimBehind

\* s with nothing put in.
LEMMA SplicedNothing ==
  ASSUME NEW V, NEW s \in Seq(V), NEW n \in 0..Len(s), NEW c \in Seq(V), NEW how
  PROVE  Spliced(s, n, 0, Run(how, c, 0)) = s
  <1>0. Len(s) \in Nat /\ n \in Nat /\ n <= Len(s) /\ n + 0 <= Len(s) /\ 0 \in 0..Len(c) /\ 0 \in Nat
    OBVIOUS
  <1>1. PICK d : d = Run(how, c, 0)
    OBVIOUS
  <1>2. RunOf(d, V, how, c, 0)
    BY <1>0, <1>1, RunFacts
  <1>3. d \in Seq(V) /\ Len(d) = 0
    BY <1>2 DEF RunOf
  <1>4. SplicedOf(s, V, s, n, 0, d)
    <2>1. Len(s) = (Len(s) + Len(d)) - 0
      BY <1>0, <1>3
    <2>2. \A k \in (n + 1)..(n + Len(d)) : FALSE
      BY <1>0, <1>3
    <2>3. \A k \in ((n + Len(d)) + 1)..((Len(s) + Len(d)) - 0) : (k - Len(d)) + 0 = k
      BY <1>0, <1>3
    <2> QED BY <2>1, <2>2, <2>3 DEF SplicedOf
  <1> QED BY <1>0, <1>1, <1>3, <1>4, SplicedIs

\* m is l with the first k of c behind the first n children of p.
Ran(l, m, V, p, how, c, s, n, k) ==
  /\ Chain(m, p) = Spliced(s, n, 0, Run(how, c, k))
  /\ \A x \in V \ {p} : Chain(m, x) = Chain(l, x)

\* A batch goes in as one run.
LEMMA LinkAllRun ==
  ASSUME NEW l, NEW V, NEW X, Good(l, V, X), NEW A, NEW p, NEW c, Fit(l, V, X, A, p, c),
         NEW s, s = Chain(l, p), NEW n \in 0..Len(s), NEW how, NEW at,
         AimBehind(p, how, at, c, s, n)
  PROVE  Ran(l, LinkAll(l, how, at, c), V, p, how, c, s, n, Len(c))
  <1>0. p \in V /\ c \in Seq(V) /\ Len(c) \in Nat /\ \A k \in 1..Len(c) : c[k] # p /\ c[k] \in V
    BY DEF Fit, Above
  <1>1. ChainOf(l, V, p, s)
    BY <1>0, ChainIs
  <1>2. s \in Seq(V)
    BY <1>1 DEF ChainOf
  <1>3. Aim(l, V, p, how, at, c)
    BY <1>1, AimsThere
  <1>4. PICK after : Staged(after, l, V, X, A, p, how, at, c)
    BY <1>3, LinkAllStages
  <1>5. /\ LinkAll(l, how, at, c) = after[Len(c)] /\ after[0] = l
        /\ \A k \in 1..Len(c) : after[k] = LinkTo(after[k - 1], how, at[k], c[k])
        /\ \A k \in 0..Len(c) : Stage(l, after[k], V, X, A, p, c, k)
    BY <1>4 DEF Staged
  <1> DEFINE S == {k \in Nat : k <= Len(c) => Ran(l, after[k], V, p, how, c, s, n, k)}
  <1>6. 0 \in S
    <2>1. Spliced(s, n, 0, Run(how, c, 0)) = s
      BY <1>0, <1>2, SplicedNothing
    <2> QED BY <1>5, <2>1 DEF Ran
  <1>7. ASSUME NEW k \in Nat, k \in S PROVE k + 1 \in S
    <2>1. SUFFICES ASSUME k + 1 <= Len(c) PROVE Ran(l, after[k + 1], V, p, how, c, s, n, k + 1)
      OBVIOUS
    <2>2. k + 1 \in 1..Len(c) /\ (k + 1) - 1 = k /\ k <= Len(c) /\ k \in 0..Len(c)
          /\ k + 1 \in 0..Len(c)
      BY <1>0, <2>1
    <2>3. PICK m, u, x, y : m = after[k] /\ u = after[k + 1] /\ x = c[k + 1] /\ y = at[k + 1]
      OBVIOUS
    <2>4. u = LinkTo(m, how, y, x)
      BY <1>5, <2>2, <2>3
    <2>5. Stage(l, m, V, X, A, p, c, k) /\ Stage(l, u, V, X, A, p, c, k + 1)
      BY <1>5, <2>2, <2>3
    <2>6. Good(m, V, X) /\ Good(u, V, X) /\ x \in V /\ x # p
      BY <1>0, <2>2, <2>3, <2>5 DEF Stage
    <2>7. m[x].parent = Nil
      <3>1. ~(k + 1 <= k)
        OBVIOUS
      <3> QED BY <2>2, <2>3, <2>5, <3>1 DEF Stage
    <2>8. Ran(l, m, V, p, how, c, s, n, k)
      BY <1>7, <2>2, <2>3
    <2>9. PICK t, q : t = Chain(m, p) /\ q = (IF how = "first" THEN 0 ELSE n + k)
      OBVIOUS
    <2>10. t = Spliced(s, n, 0, Run(how, c, k))
      BY <2>8, <2>9 DEF Ran
    <2>11. Behind(p, how, y, t, q) /\ q \in 0..Len(t) /\ t \in Seq(V)
      BY <1>0, <1>2, <2>2, <2>3, <2>9, <2>10, NextBehind
    <2>12. Chain(u, p) = Put(t, q, x) /\ \A z \in V \ {p} : Chain(u, z) = Chain(m, z)
      BY <1>0, <2>4, <2>6, <2>7, <2>9, <2>11, LinkToPuts
    <2>13. Put(t, q, x) = Spliced(s, n, 0, Run(how, c, k + 1))
      <3>1. how = "first" => n = 0
        BY DEF AimBehind
      <3> QED BY <1>0, <1>2, <2>2, <2>3, <2>9, <2>10, <3>1, PutRun
    <2> QED BY <2>3, <2>8, <2>12, <2>13 DEF Ran
  <1>8. Nat \subseteq S
    <2> HIDE DEF S
    <2> QED BY <1>6, <1>7, Induction
  <1> QED BY <1>0, <1>5, <1>8

\* With nothing put in, s is as it was.
LEMMA SplicedSelf ==
  ASSUME NEW V, NEW s \in Seq(V), NEW n \in 0..Len(s), NEW d, Len(d) = 0
  PROVE  SplicedOf(s, V, s, n, 0, d)
  <1>0. Len(s) \in Nat /\ n \in Nat
    OBVIOUS
  <1>1. Len(s) = (Len(s) + Len(d)) - 0
    BY <1>0
  <1>2. \A k \in (n + 1)..(n + Len(d)) : FALSE
    BY <1>0
  <1>3. \A k \in ((n + Len(d)) + 1)..((Len(s) + Len(d)) - 0) : (k - Len(d)) + 0 = k
    BY <1>0
  <1> QED BY <1>1, <1>2, <1>3 DEF SplicedOf

\* The node that the run d stands before is taken out.
LEMMA TakenSpliced ==
  ASSUME NEW V, NEW s \in Seq(V), NEW d \in Seq(V), NEW n \in Nat, n + 1 <= Len(s),
         NEW t, SplicedOf(t, V, s, n, 0, d), NEW q, q = (n + Len(d)) + 1
  PROVE  /\ q \in 1..Len(t) /\ t[q] = s[n + 1]
         /\ Taken(t, q) = Spliced(s, n, 1, d)
  <1>0. Len(s) \in Nat /\ Len(d) \in Nat /\ q \in Nat /\ 1 \in Nat
    OBVIOUS
  <1>1. /\ t \in Seq(V) /\ Len(t) = Len(s) + Len(d)
        /\ \A k \in 1..n : t[k] = s[k]
        /\ \A k \in (n + 1)..(n + Len(d)) : t[k] = d[k - n]
        /\ \A k \in ((n + Len(d)) + 1)..(Len(s) + Len(d)) : t[k] = s[k - Len(d)]
    BY <1>0 DEF SplicedOf
  <1>2. q \in 1..Len(t) /\ t[q] = s[n + 1]
    <2>1. q \in ((n + Len(d)) + 1)..(Len(s) + Len(d)) /\ q - Len(d) = n + 1
      BY <1>0
    <2> QED BY <1>0, <1>1, <2>1
  <1>3. PICK u : u = Taken(t, q)
    OBVIOUS
  <1>4. /\ u \in Seq(V) /\ Len(u) = Len(t) - 1
        /\ \A k \in 1..(q - 1) : u[k] = t[k]
        /\ \A k \in q..(Len(t) - 1) : u[k] = t[k + 1]
    BY <1>1, <1>2, <1>3, TakenFacts
  <1>5. SplicedOf(u, V, s, n, 1, d)
    <2>1. Len(u) = (Len(s) + Len(d)) - 1
      BY <1>1, <1>4
    <2>2. ASSUME NEW k \in 1..n PROVE u[k] = s[k]
      <3>1. k \in 1..(q - 1)
        BY <1>0
      <3> QED BY <1>1, <1>4, <3>1
    <2>3. ASSUME NEW k \in (n + 1)..(n + Len(d)) PROVE u[k] = d[k - n]
      <3>1. k \in 1..(q - 1)
        BY <1>0
      <3> QED BY <1>1, <1>4, <3>1
    <2>4. ASSUME NEW k \in ((n + Len(d)) + 1)..((Len(s) + Len(d)) - 1)
          PROVE  u[k] = s[(k - Len(d)) + 1]
      <3>1. /\ k \in q..(Len(t) - 1) /\ k + 1 \in ((n + Len(d)) + 1)..(Len(s) + Len(d))
            /\ (k + 1) - Len(d) = (k - Len(d)) + 1
        BY <1>0, <1>1
      <3> QED BY <1>1, <1>4, <3>1
    <2> QED BY <1>4, <2>1, <2>2, <2>3, <2>4 DEF SplicedOf
  <1> QED BY <1>0, <1>2, <1>3, <1>5, SplicedIs

\* t in parts: what comes before the run d, d, what comes after.
PartsOf(t, s, n, cut, d) ==
  /\ d = SubSeq(t, n + 1, ((n + cut) + Len(t)) - Len(s))
  /\ t = SubSeq(s, 1, n) \o d \o SubSeq(s, (n + cut) + 1, Len(s))

\* A splice is what comes before, the run and what comes after.
LEMMA SplicedParts ==
  ASSUME NEW V, NEW s \in Seq(V), NEW d \in Seq(V), NEW n \in Nat, NEW cut \in Nat, n + cut <= Len(s),
         NEW t, SplicedOf(t, V, s, n, cut, d)
  PROVE  PartsOf(t, s, n, cut, d)
  <1>0. Len(s) \in Nat /\ Len(d) \in Nat
    OBVIOUS
  <1>1. /\ t \in Seq(V) /\ Len(t) = (Len(s) + Len(d)) - cut /\ Len(t) \in Nat
        /\ \A k \in 1..n : t[k] = s[k]
        /\ \A k \in (n + 1)..(n + Len(d)) : t[k] = d[k - n]
        /\ \A k \in ((n + Len(d)) + 1)..((Len(s) + Len(d)) - cut) : t[k] = s[(k - Len(d)) + cut]
    BY <1>0 DEF SplicedOf
  <1>2. d = SubSeq(t, n + 1, ((n + cut) + Len(t)) - Len(s))
    <2>1. PICK u : u = SubSeq(t, n + 1, n + Len(d))
      OBVIOUS
    <2>2. ((n + cut) + Len(t)) - Len(s) = n + Len(d)
      BY <1>0, <1>1
    <2>3. u \in Seq(V) /\ Len(u) = Len(d) /\ \A k \in 1..Len(d) : u[k] = t[(n + 1) + (k - 1)]
      <3>1. n + Len(d) <= Len(t)
        BY <1>0, <1>1
      <3>2. u = [k \in 1..Len(d) |-> t[(n + 1) + (k - 1)]]
        <4>1. ((n + Len(d)) - (n + 1)) + 1 = Len(d)
          BY <1>0
        <4> QED BY <1>0, <1>1, <2>1, <4>1
      <3>3. \A k \in 1..Len(d) : t[(n + 1) + (k - 1)] \in V
        <4> SUFFICES ASSUME NEW k \in 1..Len(d) PROVE t[(n + 1) + (k - 1)] \in V
          OBVIOUS
        <4>1. (n + 1) + (k - 1) \in 1..Len(t)
          BY <1>0, <3>1
        <4> QED BY <1>1, <4>1
      <3> QED BY <1>0, <3>2, <3>3
    <2>4. ASSUME NEW k \in 1..Len(d) PROVE u[k] = d[k]
      <3>1. (n + 1) + (k - 1) \in (n + 1)..(n + Len(d)) /\ ((n + 1) + (k - 1)) - n = k
        BY <1>0
      <3> QED BY <1>1, <2>3, <3>1
    <2>5. u = d
      BY <2>3, <2>4, SeqEqual
    <2> QED BY <2>1, <2>2, <2>5
  <1>3. PICK a, b, w : /\ a = SubSeq(s, 1, n) /\ b = SubSeq(s, (n + cut) + 1, Len(s))
                       /\ w = (a \o d) \o b
    OBVIOUS
  <1>4. a \in Seq(V) /\ Len(a) = n /\ \A k \in 1..n : a[k] = s[k]
    <2>1. n <= Len(s)
      BY <1>0
    <2>2. \A k \in 1..n : k \in 1..Len(s) /\ s[k] \in V
      BY <1>0, <2>1
    <2>3. a = [k \in 1..n |-> s[k]]
      BY <1>0, <1>3
    <2> QED BY <2>2, <2>3
  <1>5. /\ b \in Seq(V) /\ Len(b) = Len(s) - (n + cut)
        /\ \A k \in 1..(Len(s) - (n + cut)) : b[k] = s[k + (n + cut)]
    <2>1. PICK N : N = Len(s) - (n + cut)
      OBVIOUS
    <2>2. N \in Nat /\ Len(s) = N + (n + cut)
      BY <1>0, <2>1
    <2>3. \A k \in 1..N : k + (n + cut) \in 1..Len(s) /\ ((n + cut) + 1) + (k - 1) = k + (n + cut)
      BY <1>0, <2>2
    <2>4. b = [k \in 1..N |-> s[k + (n + cut)]]
      <3>1. b = [k \in 1..N |-> s[((n + cut) + 1) + (k - 1)]]
        <4>1. (Len(s) - ((n + cut) + 1)) + 1 = N
          BY <1>0, <2>1
        <4> QED BY <1>0, <1>3, <4>1
      <3> QED BY <2>3, <3>1
    <2>5. b \in Seq(V) /\ Len(b) = N
      <3>1. \A k \in 1..N : s[k + (n + cut)] \in V
        BY <2>3
      <3> QED BY <2>2, <2>4, <3>1
    <2> QED BY <2>1, <2>4, <2>5
  <1>6. /\ a \o d \in Seq(V) /\ Len(a \o d) = n + Len(d)
        /\ \A k \in 1..(n + Len(d)) : (a \o d)[k] = IF k <= n THEN s[k] ELSE d[k - n]
    <2>1. /\ a \o d \in Seq(V) /\ Len(a \o d) = Len(a) + Len(d)
          /\ \A k \in 1..(Len(a) + Len(d)) : (a \o d)[k] = IF k <= Len(a) THEN a[k] ELSE d[k - Len(a)]
      BY <1>4, ConcatProperties
    <2>2. ASSUME NEW k \in 1..(n + Len(d)) PROVE (a \o d)[k] = IF k <= n THEN s[k] ELSE d[k - n]
      <3>1. k <= n => k \in 1..n
        BY <1>0
      <3> QED BY <1>4, <2>1, <3>1
    <2> QED BY <1>4, <2>1, <2>2
  <1>7. PICK e : e = a \o d
    OBVIOUS
  <1>8. /\ w \in Seq(V) /\ Len(w) = Len(e) + Len(b)
        /\ \A k \in 1..(Len(e) + Len(b)) : w[k] = IF k <= Len(e) THEN e[k] ELSE b[k - Len(e)]
    <2>1. e \in Seq(V) /\ w = e \o b
      BY <1>3, <1>6, <1>7
    <2> QED BY <1>5, <2>1, ConcatProperties
  <1>9. ASSUME NEW k \in 1..Len(t) PROVE w[k] = t[k]
    <2>1. k \in 1..(Len(e) + Len(b)) /\ Len(e) = n + Len(d)
      BY <1>0, <1>1, <1>5, <1>6, <1>7
    <2>2. CASE k <= n
      <3>1. k \in 1..n /\ k <= Len(e) /\ k \in 1..(n + Len(d))
        BY <1>0, <2>1, <2>2
      <3> QED BY <1>1, <1>6, <1>7, <1>8, <2>1, <2>2, <3>1
    <2>3. CASE ~(k <= n) /\ k <= n + Len(d)
      <3>1. k \in (n + 1)..(n + Len(d)) /\ k <= Len(e) /\ k \in 1..(n + Len(d))
        BY <1>0, <2>1, <2>3
      <3> QED BY <1>1, <1>6, <1>7, <1>8, <2>1, <2>3, <3>1
    <2>4. CASE ~(k <= n + Len(d))
      <3>1. /\ k \in ((n + Len(d)) + 1)..((Len(s) + Len(d)) - cut) /\ ~(k <= Len(e))
            /\ k - Len(e) \in 1..(Len(s) - (n + cut))
            /\ (k - Len(e)) + (n + cut) = (k - Len(d)) + cut
        BY <1>0, <1>1, <2>1, <2>4
      <3> QED BY <1>1, <1>5, <1>8, <2>1, <3>1
    <2> QED BY <2>2, <2>3, <2>4
  <1>10. w = t
    <2>1. Len(w) = Len(t)
      BY <1>0, <1>1, <1>5, <1>6, <1>7, <1>8
    <2> QED BY <1>1, <1>8, <1>9, <2>1, SeqEqual
  <1> QED BY <1>2, <1>3, <1>10 DEF PartsOf

\* Slots that are erased with all below them take no other chain with them.
LEMMA ErasedChains ==
  ASSUME NEW l, NEW V, NEW X, Good(l, V, X), NEW S \in SUBSET V, NEW m, m = Erase(l, S),
         Good(m, V \ S, X \ S), \A x \in S : l[x].parent \in S \cup {Nil}
  PROVE  \A i \in V \ S : Chain(m, i) = Chain(l, i)
  <1>0. V \subseteq Slot /\ Nil \notin V
    BY NilNoSlot DEF Good
  <1>1. \A i \in V \ S : m[i] = l[i]
    BY <1>0 DEF Erase
  <1> SUFFICES ASSUME NEW i \in V \ S PROVE Chain(m, i) = Chain(l, i)
    OBVIOUS
  <1>2. \A y \in V : l[y].parent = i => y \in V \ S /\ m[y].parent = i /\ m[y].prev = l[y].prev
    BY <1>0, <1>1
  <1>3. \A y \in V \ S : m[y].parent = i => y \in V /\ l[y].parent = i
    BY <1>1
  <1>4. m[i].last = l[i].last /\ i \in V \cap (V \ S)
    BY <1>1
  <1> QED BY <1>2, <1>3, <1>4, ChainStays

\* When all children of h are unlinked, h has none, and no other chain changes.
LEMMA UnlinkAllChains ==
  ASSUME NEW l, NEW V, NEW X, Good(l, V, X), NEW h \in V, NEW m, m = UnlinkAll(l, Chain(l, h))
  PROVE  /\ Chain(m, h) = <<>>
         /\ \A x \in V \ {h} : Chain(m, x) = Chain(l, x)
  <1>1. PICK c : c = Chain(l, h)
    OBVIOUS
  <1>2. ChainOf(l, V, h, c)
    BY <1>1, ChainIs
  <1>3. /\ c \in Seq(V) /\ Len(c) \in Nat /\ Nil \notin V /\ V \subseteq Slot
        /\ \A k \in 1..Len(c) : l[c[k]].parent = h /\ c[k] \in V
    BY <1>2, NilNoSlot DEF ChainOf, Good
  <1>4. \A j, k \in 1..Len(c) : c[j] = c[k] => j = k
    BY <1>2, <1>3, ChainInjective
  <1>5. PICK after : /\ m = after[Len(c)] /\ after[0] = l
                     /\ \A k \in 1..Len(c) : after[k] = Unlink(after[k - 1], c[k])
    BY <1>1, <1>3, UnlinkAllRuns
  <1> DEFINE S == {k \in Nat : k <= Len(c) => /\ Freed(l, after[k], V, X, c, k)
                                              /\ \A x \in V \ {h} : Chain(after[k], x) = Chain(l, x)}
  <1>6. 0 \in S
    <2>1. Freed(l, l, V, X, c, 0)
      BY DEF Freed
    <2> QED BY <1>5, <2>1
  <1>7. ASSUME NEW k \in Nat, k \in S PROVE k + 1 \in S
    <2>1. SUFFICES ASSUME k + 1 <= Len(c)
                   PROVE  /\ Freed(l, after[k + 1], V, X, c, k + 1)
                          /\ \A x \in V \ {h} : Chain(after[k + 1], x) = Chain(l, x)
      OBVIOUS
    <2>2. k + 1 \in 1..Len(c) /\ (k + 1) - 1 = k /\ k <= Len(c)
      BY <1>3, <2>1
    <2>3. PICK v, x, u : v = after[k] /\ x = c[k + 1] /\ u = after[k + 1]
      OBVIOUS
    <2>4. u = Unlink(v, x)
      BY <1>5, <2>2, <2>3
    <2>5. Freed(l, v, V, X, c, k) /\ \A z \in V \ {h} : Chain(v, z) = Chain(l, z)
      BY <1>7, <2>2, <2>3
    <2>6. x \in V /\ l[x].parent = h /\ Good(v, V, X)
      BY <1>3, <2>2, <2>3, <2>5 DEF Freed
    <2>7. Good(u, V, X) /\ Parted(v, u, v[x].parent, v[x].prev, v[x].next, x)
      BY <2>4, <2>6, UnlinkGood
    <2>8. v[x].parent = h
      <3>1. \A j \in 1..k : c[j] # x
        <4> SUFFICES ASSUME NEW j \in 1..k, c[j] = x PROVE FALSE
          OBVIOUS
        <4>1. j \in 1..Len(c) /\ j # k + 1
          BY <1>3, <2>2
        <4> QED BY <1>4, <2>2, <2>3, <4>1
      <3> QED BY <2>5, <2>6, <3>1 DEF Freed
    <2>9. \A y \in V : (\E j \in 1..(k + 1) : c[j] = y) <=> y = x \/ \E j \in 1..k : c[j] = y
      <3>1. \A j \in 1..(k + 1) : j = k + 1 \/ j \in 1..k
        OBVIOUS
      <3>2. k + 1 \in 1..(k + 1) /\ 1..k \subseteq 1..(k + 1)
        OBVIOUS
      <3> QED BY <2>3, <3>1, <3>2
    <2>10. Freed(l, u, V, X, c, k + 1)
      <3>1. \A y \in V : u[y].parent = IF y = x THEN Nil ELSE v[y].parent
        BY <1>3, <2>7 DEF Parted
      <3>2. \A y \in V : u[y].parent = IF \E j \in 1..(k + 1) : c[j] = y THEN Nil ELSE l[y].parent
        BY <2>5, <2>9, <3>1 DEF Freed
      <3> QED BY <2>7, <3>2 DEF Freed
    <2>11. \A z \in V \ {h} : Chain(u, z) = Chain(v, z)
      <3>1. PICK s : s = Chain(v, h)
        OBVIOUS
      <3>2. ChainOf(v, V, h, s)
        BY <2>6, <3>1, ChainIs
      <3>3. PICK n \in 1..Len(s) : s[n] = x
        BY <2>6, <2>8, <3>2 DEF ChainOf
      <3> QED BY <2>6, <2>7, <3>1, <3>3, PartedChain
    <2> QED BY <2>3, <2>5, <2>10, <2>11
  <1>8. Nat \subseteq S
    <2> HIDE DEF S
    <2> QED BY <1>6, <1>7, Induction
  <1>9. Freed(l, m, V, X, c, Len(c)) /\ \A x \in V \ {h} : Chain(m, x) = Chain(l, x)
    BY <1>3, <1>5, <1>8
  <1>10. Good(m, V, X) /\ \A y \in V : m[y].parent # h
    <2>1. ASSUME NEW y \in V, m[y].parent = h PROVE FALSE
      <3>1. l[y].parent = h
        BY <1>3, <1>9, <2>1 DEF Freed
      <3>2. \E j \in 1..Len(c) : c[j] = y
        BY <1>2, <3>1 DEF ChainOf
      <3> QED BY <1>3, <1>9, <2>1, <3>2 DEF Freed
    <2> QED BY <1>9, <2>1 DEF Freed
  <1>11. m[h].last = Nil
    BY <1>3, <1>10 DEF Good, Within, NearEnds
  <1>12. ChainOf(m, V, h, <<>>)
    BY <1>10, <1>11 DEF ChainOf
  <1>13. Chain(m, h) = <<>>
    BY <1>10, <1>12, ChainEquals
  <1> QED BY <1>9, <1>13

-----------------------------------------------------------------------------
(* The abstract forest.                                                    *)

\* One round of its Below: the children of the nodes G are added.  The rounds from {n}.
Spread(k, G) == G \cup UNION {ToSet(k[x]) : x \in G}
IsSpread(re, N, k, n) == re = [d \in 0..N |-> IF d = 0 THEN {n} ELSE Spread(k, re[d - 1])]

\* The rounds of Below.
LEMMA SpreadExists ==
  ASSUME NEW k, NEW n, NEW N \in Nat
  PROVE  \E re : IsSpread(re, N, k, n)
  <1> DEFINE S == {m \in Nat : \E re : IsSpread(re, m, k, n)}
  <1>1. 0 \in S
    <2> DEFINE g == [d \in 0..0 |-> {n}]
    <2>1. IsSpread(g, 0, k, n)
      BY DEF IsSpread
    <2> QED BY <2>1
  <1>2. ASSUME NEW m \in Nat, m \in S PROVE m + 1 \in S
    <2>1. PICK g : IsSpread(g, m, k, n)
      BY <1>2
    <2> DEFINE h == [d \in 0..(m + 1) |-> IF d <= m THEN g[d] ELSE Spread(k, g[m])]
    <2>2. ASSUME NEW d \in 0..(m + 1) PROVE h[d] = IF d = 0 THEN {n} ELSE Spread(k, h[d - 1])
      <3>1. CASE d <= m
        <4>1. h[d] = g[d] /\ g[d] = IF d = 0 THEN {n} ELSE Spread(k, g[d - 1])
          <5>1. d \in 0..m
            BY <3>1
          <5> HIDE DEF h
          <5>2. g[d] = IF d = 0 THEN {n} ELSE Spread(k, g[d - 1])
            BY <2>1, <5>1, Zenon DEF IsSpread
          <5> QED BY <3>1, <5>2 DEF h
        <4>2. d # 0 => h[d - 1] = g[d - 1]
          BY <3>1
        <4> QED BY <4>1, <4>2
      <3>2. CASE d = m + 1
        BY <3>2
      <3> QED BY <3>1, <3>2
    <2>3. IsSpread(h, m + 1, k, n)
      BY <2>2 DEF IsSpread
    <2> QED BY <2>3
  <1>3. Nat \subseteq S
    <2> HIDE DEF S
    <2> QED BY <1>1, <1>2, Induction
  <1> QED BY <1>3

\* Below is what the rounds reach.
LEMMA BelowSpread ==
  ASSUME NEW k, NEW n, Cardinality(DOMAIN k) \in Nat
  PROVE  \E re : IsSpread(re, Cardinality(DOMAIN k), k, n)
                 /\ Promise!Below(k, n) = re[Cardinality(DOMAIN k)]
  <1>1. \E re : IsSpread(re, Cardinality(DOMAIN k), k, n)
    BY SpreadExists
  <1>2. PICK re : re = CHOOSE g : g = [d \in 0..Cardinality(DOMAIN k) |->
                                       IF d = 0 THEN {n} ELSE Spread(k, g[d - 1])]
    OBVIOUS
  <1>3. IsSpread(re, Cardinality(DOMAIN k), k, n)
    BY <1>1, <1>2 DEF IsSpread
  <1>4. Promise!Below(k, n) = re[Cardinality(DOMAIN k)]
    BY <1>2, Zenon DEF Promise!Below, Promise!ToSet, ToSet, Promise!Cardinality, Cardinality, Spread
  <1> QED BY <1>3, <1>4

\* D holds the children of what it holds.
Whole(k, D) == \A x \in D : ToSet(k[x]) \subseteq D

\* After m rounds no child is missing or there are m + 1 nodes.
Spreads(k, W, n, G, m) ==
  /\ G \subseteq W /\ n \in G
  /\ \A D \in SUBSET W : n \in D /\ Whole(k, D) => G \subseteq D
  /\ Whole(k, G) \/ Cardinality(G) >= m + 1

\* A round adds a node or nothing is missing.
LEMMA SpreadsOn ==
  ASSUME NEW k, NEW W, IsFiniteSet(W), Whole(k, W), NEW n, NEW m \in Nat,
         NEW G, Spreads(k, W, n, G, m), NEW H, H = Spread(k, G)
  PROVE  Spreads(k, W, n, H, m + 1)
  <1>1. G \subseteq W /\ n \in G /\ G \subseteq H /\ H \subseteq W
    BY DEF Spreads, Spread, Whole
  <1>2. \A D \in SUBSET W : n \in D /\ Whole(k, D) => H \subseteq D
    BY DEF Spreads, Spread, Whole
  <1>3. CASE Whole(k, G)
    <2>1. H = G
      BY <1>3 DEF Spread, Whole
    <2> QED BY <1>1, <1>2, <1>3, <2>1 DEF Spreads
  <1>4. CASE ~Whole(k, G)
    <2>1. G # H
      BY <1>4 DEF Spread, Whole
    <2>2. IsFiniteSet(G) /\ IsFiniteSet(H)
      BY <1>1, FS_Subset
    <2>3. Cardinality(G) <= Cardinality(H) /\ Cardinality(H) # Cardinality(G)
      BY <1>1, <2>1, <2>2, FS_Subset
    <2>4. Cardinality(G) \in Nat /\ Cardinality(H) \in Nat
      BY <2>2, FS_CardinalityType
    <2>5. Cardinality(G) >= m + 1
      BY <1>4 DEF Spreads
    <2>6. Cardinality(H) >= (m + 1) + 1
      BY <2>3, <2>4, <2>5
    <2> QED BY <1>1, <1>2, <2>6 DEF Spreads
  <1> QED BY <1>3, <1>4

\* Below is the least set that holds n and the children of what it holds.
LEMMA BelowLeast ==
  ASSUME NEW k, NEW W, W = DOMAIN k, IsFiniteSet(W), Whole(k, W), NEW n \in W,
         NEW B, B = Promise!Below(k, n)
  PROVE  /\ B \subseteq W /\ n \in B /\ Whole(k, B)
         /\ \A D \in SUBSET W : n \in D /\ Whole(k, D) => B \subseteq D
  <1>1. PICK N : N = Cardinality(W)
    OBVIOUS
  <1>2. N \in Nat
    BY <1>1, FS_CardinalityType
  <1>3. PICK re : IsSpread(re, N, k, n) /\ B = re[N]
    BY <1>1, <1>2, BelowSpread
  <1>4. re[0] = {n}
    <2>1. 0 \in 0..N
      BY <1>2
    <2> QED BY <1>3, <2>1, Zenon DEF IsSpread
  <1>5. ASSUME NEW m \in Nat, m + 1 <= N PROVE re[m + 1] = Spread(k, re[m])
    <2>1. m + 1 \in 0..N /\ m + 1 # 0 /\ (m + 1) - 1 = m
      BY <1>2, <1>5
    <2>2. re[m + 1] = IF m + 1 = 0 THEN {n} ELSE Spread(k, re[(m + 1) - 1])
      BY <1>3, <2>1, Zenon DEF IsSpread
    <2> QED BY <2>1, <2>2
  <1> DEFINE S == {m \in Nat : m <= N => Spreads(k, W, n, re[m], m)}
  <1>6. 0 \in S
    <2>1. Cardinality({n}) = 1
      BY FS_Singleton
    <2>2. Spreads(k, W, n, {n}, 0)
      BY <2>1 DEF Spreads
    <2> QED BY <1>4, <2>2
  <1>7. ASSUME NEW m \in Nat, m \in S PROVE m + 1 \in S
    <2>1. CASE m + 1 <= N
      <3>1. Spreads(k, W, n, re[m], m)
        BY <1>2, <1>7, <2>1
      <3>2. re[m + 1] = Spread(k, re[m])
        BY <1>5, <2>1
      <3>3. Spreads(k, W, n, re[m + 1], m + 1)
        BY <3>1, <3>2, SpreadsOn
      <3> QED BY <3>3
    <2> QED BY <2>1
  <1>8. Nat \subseteq S
    <2> HIDE DEF S
    <2> QED BY <1>6, <1>7, Induction
  <1>9. Spreads(k, W, n, B, N)
    BY <1>2, <1>3, <1>8
  <1>10. Whole(k, B)
    <2>1. Cardinality(B) <= N /\ IsFiniteSet(B)
      BY <1>1, <1>9, FS_Subset DEF Spreads
    <2>2. Cardinality(B) \in Nat
      BY <2>1, FS_CardinalityType
    <2>3. ~(Cardinality(B) >= N + 1)
      BY <1>2, <2>1, <2>2
    <2> QED BY <1>9, <2>3 DEF Spreads
  <1> QED BY <1>9, <1>10 DEF Spreads

-----------------------------------------------------------------------------
(* Names.                                                                  *)

\* Handle, Nodes and Kids of any generations g, slots V and links l.
Named(g, i) == [index |-> i, generation |-> g[i]]
NamesOf(g, V) == {Named(g, i) : i \in V}
NamedSeq(g, c) == [k \in DOMAIN c |-> Named(g, c[k])]
KidsOf(l, V, g) == [h \in NamesOf(g, V) |-> NamedSeq(g, Chain(l, h.index))]

\* Two slots have two names.
LEMMA NamesApart ==
  ASSUME NEW g
  PROVE  /\ \A i : Named(g, i).index = i
         /\ \A i, j : Named(g, i) = Named(g, j) => i = j
         /\ \A V, i : Named(g, i) \in NamesOf(g, V) <=> i \in V
  <1>1. \A i : Named(g, i).index = i
    BY DEF Named
  <1>2. \A i, j : Named(g, i) = Named(g, j) => i = j
    BY <1>1
  <1> QED BY <1>1, <1>2 DEF NamesOf

\* The names of what is left are those of all less those of what is gone.
LEMMA NamesLess ==
  ASSUME NEW g, NEW V, NEW T
  PROVE  NamesOf(g, V \ T) = NamesOf(g, V) \ NamesOf(g, T)
  <1>1. ASSUME NEW n PROVE n \in NamesOf(g, V \ T) <=> n \in NamesOf(g, V) \ NamesOf(g, T)
    <2>1. \A i : Named(g, i) \in NamesOf(g, T) <=> i \in T
      BY NamesApart
    <2> QED BY <2>1 DEF NamesOf
  <1> QED
    BY <1>1

\* d are the names of c.
NamesIn(d, g, V, c) ==
  /\ d \in Seq(NamesOf(g, V)) /\ Len(d) = Len(c)
  /\ \A k \in 1..Len(c) : d[k] = Named(g, c[k])

\* The names of a sequence, place by place.
LEMMA NamedSeqIs ==
  ASSUME NEW g, NEW V, NEW c \in Seq(V)
  PROVE  NamesIn(NamedSeq(g, c), g, V, c)
  <1>0. Len(c) \in Nat /\ DOMAIN c = 1..Len(c) /\ \A k \in 1..Len(c) : c[k] \in V
    OBVIOUS
  <1>1. PICK d : d = NamedSeq(g, c)
    OBVIOUS
  <1>2. d = [k \in 1..Len(c) |-> Named(g, c[k])]
    BY <1>0, <1>1 DEF NamedSeq
  <1>3. \A k \in 1..Len(c) : Named(g, c[k]) \in NamesOf(g, V)
    BY <1>0 DEF NamesOf
  <1>4. d \in [1..Len(c) -> NamesOf(g, V)]
    BY <1>2, <1>3
  <1>5. d \in Seq(NamesOf(g, V)) /\ Len(d) = Len(c)
    BY <1>0, <1>2, <1>4
  <1> QED BY <1>1, <1>2, <1>5 DEF NamesIn

\* The children of a node, by name.
LEMMA KidsAt ==
  ASSUME NEW l, NEW V, NEW X, Good(l, V, X), NEW g, NEW i \in V
  PROVE  /\ KidsOf(l, V, g)[Named(g, i)] = NamedSeq(g, Chain(l, i))
         /\ NamesIn(NamedSeq(g, Chain(l, i)), g, V, Chain(l, i))
         /\ ToSet(NamedSeq(g, Chain(l, i))) = NamesOf(g, {y \in V : l[y].parent = i})
  <1>1. KidsOf(l, V, g)[Named(g, i)] = NamedSeq(g, Chain(l, i))
    <2>1. Named(g, i) \in NamesOf(g, V) /\ Named(g, i).index = i
      BY NamesApart
    <2> QED BY <2>1 DEF KidsOf
  <1>2. PICK c : c = Chain(l, i)
    OBVIOUS
  <1>3. ChainOf(l, V, i, c)
    BY <1>2, ChainIs
  <1>4. /\ c \in Seq(V) /\ \A k \in 1..Len(c) : c[k] \in V /\ l[c[k]].parent = i
        /\ \A y \in V : l[y].parent = i => \E k \in 1..Len(c) : c[k] = y
    BY <1>3 DEF ChainOf
  <1>5. PICK d : d = NamedSeq(g, c)
    OBVIOUS
  <1>6. NamesIn(d, g, V, c)
    BY <1>4, <1>5, NamedSeqIs
  <1>7. ToSet(d) = NamesOf(g, {y \in V : l[y].parent = i})
    <2>1. DOMAIN d = 1..Len(c) /\ \A k \in 1..Len(c) : d[k] = Named(g, c[k])
      BY <1>6 DEF NamesIn
    <2>2. ToSet(d) = {Named(g, c[k]) : k \in 1..Len(c)}
      BY <2>1 DEF ToSet
    <2>3. {c[k] : k \in 1..Len(c)} = {y \in V : l[y].parent = i}
      BY <1>4
    <2> QED BY <2>2, <2>3 DEF NamesOf
  <1> QED BY <1>1, <1>2, <1>5, <1>6, <1>7

\* The nodes of the forest.
LEMMA KidsWhole ==
  ASSUME NEW l, NEW V, NEW X, Good(l, V, X), NEW g
  PROVE  /\ DOMAIN KidsOf(l, V, g) = NamesOf(g, V) /\ IsFiniteSet(NamesOf(g, V))
         /\ Whole(KidsOf(l, V, g), NamesOf(g, V))
         /\ \A S \in SUBSET V : Downwards(l, V, S) <=> Whole(KidsOf(l, V, g), NamesOf(g, S))
  <1>1. DOMAIN KidsOf(l, V, g) = NamesOf(g, V)
    BY DEF KidsOf
  <1>2. IsFiniteSet(NamesOf(g, V))
    <2>1. IsFiniteSet(V)
      BY SlotsCount, FS_Subset DEF Good
    <2> DEFINE f == [i \in V |-> Named(g, i)]
    <2>2. f \in Surjection(V, NamesOf(g, V))
      BY DEF Surjection, NamesOf
    <2> QED BY <2>1, <2>2, FS_Surjection
  <1>3. \A i \in V : ToSet(KidsOf(l, V, g)[Named(g, i)]) = NamesOf(g, {y \in V : l[y].parent = i})
    BY KidsAt
  <1>4. ASSUME NEW S \in SUBSET V
        PROVE  Downwards(l, V, S) <=> Whole(KidsOf(l, V, g), NamesOf(g, S))
    <2>1. Whole(KidsOf(l, V, g), NamesOf(g, S)) <=>
             \A i \in S : ToSet(KidsOf(l, V, g)[Named(g, i)]) \subseteq NamesOf(g, S)
      BY DEF Whole, NamesOf
    <2>2. Whole(KidsOf(l, V, g), NamesOf(g, S)) <=>
             \A i \in S : NamesOf(g, {y \in V : l[y].parent = i}) \subseteq NamesOf(g, S)
      BY <1>3, <2>1
    <2>3. ASSUME NEW i \in S
          PROVE  NamesOf(g, {y \in V : l[y].parent = i}) \subseteq NamesOf(g, S)
                   <=> \A y \in V : l[y].parent = i => y \in S
      <3>1. \A y \in S : Named(g, y) \in NamesOf(g, S)
        BY DEF NamesOf
      <3>2. ASSUME NEW y \in V, l[y].parent = i,
                   NamesOf(g, {z \in V : l[z].parent = i}) \subseteq NamesOf(g, S)
            PROVE  y \in S
        <4>1. Named(g, y) \in NamesOf(g, {z \in V : l[z].parent = i})
          BY <3>2 DEF NamesOf
        <4>2. Named(g, y) \in NamesOf(g, S)
          BY <3>2, <4>1
        <4> QED BY <4>2, NamesApart
      <3> QED BY <3>1, <3>2 DEF NamesOf
    <2> QED BY <2>2, <2>3 DEF Downwards
  <1>5. Whole(KidsOf(l, V, g), NamesOf(g, V))
    BY <1>4 DEF Downwards
  <1> QED BY <1>1, <1>2, <1>4, <1>5

\* What is below a node, by name.
LEMMA BelowIs ==
  ASSUME NEW l, NEW V, NEW X, Good(l, V, X), NEW g, NEW h \in V, NEW S, Below(l, V, h, S)
  PROVE  Promise!Below(KidsOf(l, V, g), Named(g, h)) = NamesOf(g, S)
  <1>1. PICK k, W, n, B : /\ k = KidsOf(l, V, g) /\ W = NamesOf(g, V) /\ n = Named(g, h)
                          /\ B = Promise!Below(k, n)
    OBVIOUS
  <1>2. /\ W = DOMAIN k /\ IsFiniteSet(W) /\ Whole(k, W)
        /\ \A T \in SUBSET V : Downwards(l, V, T) <=> Whole(k, NamesOf(g, T))
    BY <1>1, KidsWhole
  <1>3. n \in W
    BY <1>1 DEF NamesOf
  <1>4. /\ B \subseteq W /\ n \in B /\ Whole(k, B)
        /\ \A D \in SUBSET W : n \in D /\ Whole(k, D) => B \subseteq D
    BY <1>1, <1>2, <1>3, BelowLeast
  <1>5. S \in SUBSET V /\ h \in S /\ V \subseteq Slot
    BY DEF Below, Upwards, Good
  <1>6. B \subseteq NamesOf(g, S)
    <2>1. NamesOf(g, S) \in SUBSET W /\ n \in NamesOf(g, S)
      BY <1>1, <1>5 DEF NamesOf
    <2>2. Whole(k, NamesOf(g, S))
      BY <1>2, <1>5 DEF Below
    <2> QED BY <1>4, <2>1, <2>2
  <1>7. NamesOf(g, S) \subseteq B
    <2>1. PICK T : T = {i \in V : Named(g, i) \in B}
      OBVIOUS
    <2>2. B = NamesOf(g, T) /\ T \in SUBSET V
      BY <1>1, <1>4, <2>1 DEF NamesOf
    <2>3. Downwards(l, V, T)
      BY <1>2, <1>4, <2>2
    <2>4. h \in T
      BY <1>1, <1>4, <2>1
    <2>5. \A x \in S \ T : l[x].parent \in S \ T
      BY <1>5, <2>3, <2>4 DEF Below, Upwards, Downwards
    <2>6. S \ T = {}
      <3>1. S \ T \in SUBSET Slot
        BY <1>5
      <3>2. S \ T # {} => \E x \in S \ T : l[x]["parent"] \notin S \ T
        BY <3>1 DEF Good, NoCycle
      <3> QED BY <2>5, <3>2
    <2> QED BY <2>1, <2>6 DEF NamesOf
  <1> QED BY <1>1, <1>6, <1>7

-----------------------------------------------------------------------------
(* What check_batch lets pass, by name.                                    *)

\* The mapping, and the mapping of the next state.
LEMMA MappedNow ==
  /\ Nodes = NamesOf(gen, live) /\ Leaves = NamesOf(gen, texts)
  /\ Kids = KidsOf(links, live, gen)
  BY Zenon DEF Nodes, Leaves, Kids, Handle, Named, NamesOf, NamedSeq, KidsOf

\* The mapping of the next state.
LEMMA MappedThen ==
  /\ Nodes' = NamesOf(gen', live') /\ Leaves' = NamesOf(gen', texts')
  /\ Kids' = KidsOf(links', live', gen')
  <1>1. Nodes' = NamesOf(gen', live') /\ Leaves' = NamesOf(gen', texts')
    BY Zenon DEF Nodes, Leaves, Handle, Named, NamesOf
  <1>2. Kids' = KidsOf(links', live', gen')
    BY Zenon DEF Nodes, Kids, Handle, Named, NamesOf, NamedSeq, KidsOf, Chain, Steps
  <1> QED BY <1>1, <1>2

\* What check_batch lets pass may move.
LEMMA FitMovable ==
  ASSUME NEW l, NEW V, NEW X, Good(l, V, X), NEW A, NEW p, NEW c, Fit(l, V, X, A, p, c), NEW g
  PROVE  Promise!Movable(KidsOf(l, V, g), Named(g, p), NamedSeq(g, c))
  <1>0. /\ c \in Seq(V) /\ p \in V /\ Above(l, A, p) /\ Nil \notin V
        /\ \A k \in 1..Len(c) : c[k] \in V \ {Root} /\ l[c[k]].parent = Nil /\ c[k] \notin A
        /\ \A j, k \in 1..Len(c) : c[j] = c[k] => j = k
    BY NilNoSlot DEF Fit, Good
  <1>1. PICK K, q, d, W : /\ K = KidsOf(l, V, g) /\ q = Named(g, p) /\ d = NamedSeq(g, c)
                          /\ W = NamesOf(g, V)
    OBVIOUS
  <1>2. d \in Seq(W) /\ Len(d) = Len(c) /\ \A k \in 1..Len(c) : d[k] = Named(g, c[k])
    <2>1. NamesIn(d, g, V, c)
      BY <1>0, <1>1, NamedSeqIs
    <2> QED BY <1>1, <2>1 DEF NamesIn
  <1>3. /\ W = DOMAIN K /\ IsFiniteSet(W) /\ Whole(K, W)
        /\ \A S \in SUBSET V : Downwards(l, V, S) <=> Whole(K, NamesOf(g, S))
    BY <1>1, KidsWhole
  <1>4. DOMAIN d = 1..Len(c)
    BY <1>0, <1>2
  <1>5. IsInjective(d)
    <2>1. \A j, k \in 1..Len(c) : d[j] = d[k] => j = k
      BY <1>0, <1>2, NamesApart
    <2> QED BY <1>4, <2>1 DEF IsInjective
  <1>6. ASSUME NEW e \in ToSet(d)
        PROVE  /\ e \in DOMAIN K \ {[index |-> Root, generation |-> 0]}
               /\ {x \in DOMAIN K : e \in ToSet(K[x])} = {}
               /\ q \notin Promise!Below(K, e)
    <2>1. PICK k \in 1..Len(c) : e = Named(g, c[k])
      BY <1>2, <1>4 DEF ToSet
    <2>2. PICK x : x = c[k]
      OBVIOUS
    <2>3. x \in V \ {Root} /\ l[x].parent = Nil /\ x \notin A /\ e = Named(g, x)
      BY <1>0, <2>1, <2>2
    <2>4. e \in W /\ e.index = x
      BY <1>1, <2>3, NamesApart
    <2>5. e # [index |-> Root, generation |-> 0]
      BY <2>3, <2>4
    <2>6. ASSUME NEW y \in DOMAIN K, e \in ToSet(K[y]) PROVE FALSE
      <3>1. PICK i \in V : y = Named(g, i)
        BY <1>1, <1>3 DEF NamesOf
      <3>2. ToSet(K[y]) = NamesOf(g, {z \in V : l[z].parent = i})
        BY <1>1, <3>1, KidsAt
      <3>3. x \in {z \in V : l[z].parent = i}
        BY <2>3, <2>6, <3>2, NamesApart
      <3> QED BY <1>0, <2>3, <3>3
    <2>7. q \notin Promise!Below(K, e)
      <3>1. Downwards(l, V, V \ A)
        BY <1>0 DEF Downwards, Above
      <3>2. Whole(K, NamesOf(g, V \ A))
        BY <1>3, <3>1
      <3>3. e \in NamesOf(g, V \ A) /\ NamesOf(g, V \ A) \in SUBSET W
        BY <1>1, <2>3 DEF NamesOf
      <3>4. Promise!Below(K, e) \subseteq NamesOf(g, V \ A)
        <4>1. PICK D, B : D = NamesOf(g, V \ A) /\ B = Promise!Below(K, e)
          OBVIOUS
        <4>2. Whole(K, D) /\ e \in D /\ D \in SUBSET W
          BY <3>2, <3>3, <4>1
        <4>3. \A E \in SUBSET W : e \in E /\ Whole(K, E) => B \subseteq E
          BY <1>3, <2>4, <4>1, BelowLeast
        <4> QED BY <4>1, <4>2, <4>3
      <3>5. p \notin V \ A
        BY <1>0 DEF Above
      <3> QED BY <1>1, <3>4, <3>5, NamesApart
    <2> QED BY <1>3, <2>4, <2>5, <2>6, <2>7
  <1>7. Promise!Movable(K, q, d)
    BY <1>5, <1>6, Zenon DEF Promise!Movable, Promise!IsInjective, IsInjective, Promise!ToSet, ToSet,
                             Promise!Parents
  <1> QED BY <1>1, <1>7

\* The run of a list is as fit as the list.
LEMMA RunFits ==
  ASSUME NEW l, NEW V, NEW X, NEW A, NEW p, NEW c, Fit(l, V, X, A, p, c),
         NEW how, NEW d, d = Run(how, c, Len(c))
  PROVE  Fit(l, V, X, A, p, d) /\ Len(d) = Len(c) /\ d \in Seq(V)
  <1>0. c \in Seq(V \ {Root}) /\ Len(c) \in Nat /\ Len(c) \in 0..Len(c)
    <2>1. c \in Seq(V \ {Root})
      BY DEF Fit
    <2> QED BY <2>1
  <1>1. RunOf(d, V \ {Root}, how, c, Len(c))
    BY <1>0, RunFacts
  <1>2. d \in Seq(V \ {Root}) /\ Len(d) = Len(c)
    BY <1>1 DEF RunOf
  <1>3. PICK f : f = [j \in 1..Len(c) |-> IF how = "first" THEN (Len(c) + 1) - j ELSE j]
    OBVIOUS
  <1>4. \A j \in 1..Len(c) : f[j] \in 1..Len(c) /\ d[j] = c[f[j]]
    <2> SUFFICES ASSUME NEW j \in 1..Len(c) PROVE f[j] \in 1..Len(c) /\ d[j] = c[f[j]]
      OBVIOUS
    <2>1. (Len(c) + 1) - j \in 1..Len(c)
      BY <1>0
    <2> QED BY <1>1, <1>3, <2>1 DEF RunOf
  <1>5. ASSUME NEW j \in 1..Len(c), NEW k \in 1..Len(c), f[j] = f[k] PROVE j = k
    BY <1>0, <1>3, <1>5
  <1>6. \A k \in 1..Len(d) : l[d[k]].parent = Nil /\ d[k] \notin A
    BY <1>2, <1>4 DEF Fit
  <1>7. ASSUME NEW j \in 1..Len(d), NEW k \in 1..Len(d), d[j] = d[k] PROVE j = k
    BY <1>2, <1>4, <1>5, <1>7 DEF Fit
  <1>8. d \in Seq(V)
    BY <1>2
  <1> QED BY <1>2, <1>6, <1>7, <1>8 DEF Fit

\* A splice of the children is a splice of their names.
LEMMA SplicedNames ==
  ASSUME NEW V, NEW s \in Seq(V), NEW d \in Seq(V), NEW n \in Nat, NEW cut \in Nat, n + cut <= Len(s),
         NEW g, NEW t, t = Spliced(s, n, cut, d)
  PROVE  SplicedOf(NamedSeq(g, t), NamesOf(g, V), NamedSeq(g, s), n, cut, NamedSeq(g, d))
  <1>0. Len(s) \in Nat /\ Len(d) \in Nat
    OBVIOUS
  <1>1. SplicedOf(t, V, s, n, cut, d)
    BY SplicedFacts
  <1>2. /\ t \in Seq(V) /\ Len(t) = (Len(s) + Len(d)) - cut
        /\ \A k \in 1..n : t[k] = s[k]
        /\ \A k \in (n + 1)..(n + Len(d)) : t[k] = d[k - n]
        /\ \A k \in ((n + Len(d)) + 1)..((Len(s) + Len(d)) - cut) : t[k] = s[(k - Len(d)) + cut]
    BY <1>0, <1>1 DEF SplicedOf
  <1>3. PICK a, b, e : a = NamedSeq(g, s) /\ b = NamedSeq(g, d) /\ e = NamedSeq(g, t)
    OBVIOUS
  <1>4. NamesIn(a, g, V, s) /\ NamesIn(b, g, V, d) /\ NamesIn(e, g, V, t)
    BY <1>2, <1>3, NamedSeqIs
  <1>5. /\ Len(a) = Len(s) /\ Len(b) = Len(d) /\ Len(e) = Len(t) /\ e \in Seq(NamesOf(g, V))
        /\ \A k \in 1..Len(s) : a[k] = Named(g, s[k])
        /\ \A k \in 1..Len(d) : b[k] = Named(g, d[k])
        /\ \A k \in 1..Len(t) : e[k] = Named(g, t[k])
    BY <1>4 DEF NamesIn
  <1>6. ASSUME NEW k \in 1..n PROVE e[k] = a[k]
    <2>1. k \in 1..Len(s) /\ k \in 1..Len(t)
      BY <1>0, <1>2
    <2> QED BY <1>2, <1>5, <2>1
  <1>7. ASSUME NEW k \in (n + 1)..(n + Len(d)) PROVE e[k] = b[k - n]
    <2>1. k - n \in 1..Len(d) /\ k \in 1..Len(t)
      BY <1>0, <1>2
    <2> QED BY <1>2, <1>5, <2>1
  <1>8. ASSUME NEW k \in ((n + Len(d)) + 1)..((Len(s) + Len(d)) - cut)
        PROVE  e[k] = a[(k - Len(d)) + cut]
    <2>1. (k - Len(d)) + cut \in 1..Len(s) /\ k \in 1..Len(t)
      BY <1>0, <1>2
    <2> QED BY <1>2, <1>5, <2>1
  <1>9. SplicedOf(e, NamesOf(g, V), a, n, cut, b)
    BY <1>2, <1>5, <1>6, <1>7, <1>8 DEF SplicedOf
  <1> QED BY <1>3, <1>9

\* m is l with the run d in place of cut of the children of p.
SplicedAt(l, m, V, p, n, cut, d) ==
  /\ n \in Nat /\ cut \in 0..1 /\ n + cut <= Len(Chain(l, p)) /\ d \in Seq(V)
  /\ Chain(m, p) = Spliced(Chain(l, p), n, cut, d)
  /\ \A x \in V \ {p} : Chain(m, x) = Chain(l, x)

\* Such a call is a splice of the forest.
LEMMA SplicesForest ==
  ASSUME Good(links, live, texts), NEW m, Good(m, live, texts), Relink(m),
         NEW p \in live \ texts, NEW n, NEW cut, NEW d, SplicedAt(links, m, live, p, n, cut, d),
         Promise!Movable(KidsOf(links, live, gen), Named(gen, p), NamedSeq(gen, d))
  PROVE  Promise!Splice
  <1>1. PICK old, new, q, W : /\ old = KidsOf(links, live, gen) /\ new = KidsOf(m, live, gen)
                              /\ q = Named(gen, p) /\ W = NamesOf(gen, live)
    OBVIOUS
  <1>2. Kids = old /\ Kids' = new /\ Nodes' = Nodes /\ Leaves' = Leaves /\ issued' = issued
    BY <1>1, MappedNow, MappedThen DEF Relink
  <1>3. q \in Nodes \ Leaves
    BY <1>1, MappedNow, NamesApart
  <1>4. new = [old EXCEPT ![q] = new[q]]
    <2>1. ASSUME NEW x \in W \ {q} PROVE new[x] = old[x]
      <3>1. PICK i \in live : x = Named(gen, i)
        BY <1>1 DEF NamesOf
      <3>2. i # p
        BY <1>1, <2>1, <3>1
      <3>3. Chain(m, i) = Chain(links, i)
        BY <3>2 DEF SplicedAt
      <3>4. KidsOf(links, live, gen)[Named(gen, i)] = NamedSeq(gen, Chain(links, i))
        BY KidsAt
      <3>5. KidsOf(m, live, gen)[Named(gen, i)] = NamedSeq(gen, Chain(m, i))
        BY KidsAt
      <3> QED BY <1>1, <3>1, <3>3, <3>4, <3>5
    <2>2. new = [x \in W |-> new[x]] /\ old = [x \in W |-> old[x]]
      BY <1>1, Zenon DEF KidsOf
    <2> QED BY <2>1, <2>2
  <1>5. PICK s, t, e, a : /\ s = Chain(links, p) /\ t = Chain(m, p) /\ e = NamedSeq(gen, d)
                          /\ a = NamedSeq(gen, s)
    OBVIOUS
  <1>6. /\ n \in Nat /\ cut \in 0..1 /\ cut \in Nat /\ n + cut <= Len(s) /\ d \in Seq(live)
        /\ t = Spliced(s, n, cut, d) /\ s \in Seq(live)
    <2>1. ChainOf(links, live, p, s)
      BY <1>5, ChainIs
    <2> QED BY <1>5, <2>1 DEF SplicedAt, ChainOf
  <1>7. PICK u : old[q] = a /\ u = NamedSeq(gen, t) /\ new[q] = u
    BY <1>1, <1>5, KidsAt
  <1>8. NamesIn(a, gen, live, s) /\ NamesIn(e, gen, live, d)
    BY <1>5, <1>6, NamedSeqIs
  <1>9. a \in Seq(W) /\ e \in Seq(W) /\ Len(a) = Len(s) /\ Len(s) \in Nat
    BY <1>1, <1>6, <1>8 DEF NamesIn
  <1>10. SplicedOf(u, W, a, n, cut, e)
    BY <1>1, <1>5, <1>6, <1>7, SplicedNames
  <1>11. n + cut <= Len(a)
    BY <1>6, <1>9
  <1>12. /\ e = SubSeq(u, n + 1, ((n + cut) + Len(u)) - Len(a))
         /\ u = SubSeq(a, 1, n) \o e \o SubSeq(a, (n + cut) + 1, Len(a))
    <2>1. PartsOf(u, a, n, cut, e)
      BY <1>6, <1>9, <1>10, <1>11, SplicedParts
    <2> QED BY <2>1, Zenon DEF PartsOf
  <1>13. n \in 0..Len(a)
    BY <1>6, <1>9, <1>11
  <1>14. Promise!Movable(old, q, e)
    BY <1>1, <1>5
  <1>15. (n + cut) + (Len(u) - Len(a)) = ((n + cut) + Len(u)) - Len(a)
    <2>1. Len(u) \in Nat
      BY <1>10 DEF SplicedOf
    <2> QED BY <1>6, <1>9, <2>1
  <1>16. n \in 0..Len(old[q]) /\ cut \in 0..1
    BY <1>6, <1>7, <1>13
  <1> DEFINE Fits(at, c) ==
        LET rest == at + c
            ns == SubSeq(new[q], at + 1, rest + Len(new[q]) - Len(old[q]))
        IN  /\ rest <= Len(old[q])
            /\ new[q] = SubSeq(old[q], 1, at) \o ns \o SubSeq(old[q], rest + 1, Len(old[q]))
            /\ Promise!Movable(old, q, ns)
  <1>17. \E at \in 0..Len(old[q]), c \in 0..1 : Fits(at, c)
    <2>1. Fits(n, cut)
      BY <1>7, <1>11, <1>12, <1>14, <1>15, Zenon
    <2> HIDE DEF Fits
    <2> QED BY <1>16, <2>1, Zenon
  <1> QED
    BY <1>2, <1>3, <1>4, <1>17, Zenon DEF Promise!Splice

-----------------------------------------------------------------------------
(* The calls that move nodes.                                              *)

\* Where a child is among its siblings.
LEMMA ChildAt ==
  ASSUME NEW l, NEW V, NEW X, Good(l, V, X), NEW r \in V, l[r].parent # Nil,
         NEW p, p = l[r].parent, NEW s, s = Chain(l, p)
  PROVE  \E n \in 0..Len(s) : n + 1 \in 1..Len(s) /\ n \in Nat /\ n + 1 <= Len(s) /\ s[n + 1] = r
  <1>1. p \in V
    BY HasFirst
  <1>2. ChainOf(l, V, p, s)
    BY <1>1, ChainIs
  <1>3. Len(s) \in Nat
    BY <1>2 DEF ChainOf
  <1>4. PICK k \in 1..Len(s) : s[k] = r
    BY <1>2 DEF ChainOf
  <1>5. PICK n : n = k - 1
    OBVIOUS
  <1>6. n \in Nat /\ n + 1 = k /\ n \in 0..Len(s) /\ n + 1 <= Len(s)
    BY <1>3, <1>4, <1>5
  <1> QED BY <1>4, <1>6

\* What linking a batch does to the chains, and that the batch may move.
LEMMA BatchRuns ==
  ASSUME Linked, NEW p \in live \ texts, NEW list \in Batches, BatchOK(p, list),
         NEW c, c = Slots(list) \/ c = Reverse(Slots(list)),
         NEW s, s = Chain(links, p), NEW n \in 0..Len(s), NEW how, NEW at,
         AimBehind(p, how, at, c, s, n), NEW m, m = LinkAll(links, how, at, c),
         NEW d, d = Run(how, c, Len(c))
  PROVE  /\ Good(m, live, texts) /\ SplicedAt(links, m, live, p, n, 0, d)
         /\ Promise!Movable(KidsOf(links, live, gen), Named(gen, p), NamedSeq(gen, d))
  <1>1. PICK A : A = Trail(links, p, "parent")
    OBVIOUS
  <1>2. Good(links, live, texts) /\ Fit(links, live, texts, A, p, c)
    BY <1>1, BatchFits, ReverseFits DEF Linked
  <1>3. ChainOf(links, live, p, s)
    BY <1>2, ChainIs
  <1>4. Aim(links, live, p, how, at, c)
    BY <1>3, AimsThere
  <1>5. Good(m, live, texts)
    BY <1>4, BatchGood
  <1>6. Ran(links, m, live, p, how, c, s, n, Len(c))
    BY <1>2, LinkAllRun
  <1>7. Fit(links, live, texts, A, p, d) /\ d \in Seq(live)
    BY <1>2, RunFits
  <1>8. Promise!Movable(KidsOf(links, live, gen), Named(gen, p), NamedSeq(gen, d))
    BY <1>2, <1>7, FitMovable
  <1>9. n \in Nat /\ n + 0 <= Len(s) /\ Len(s) \in Nat
    BY <1>3 DEF ChainOf
  <1>10. SplicedAt(links, m, live, p, n, 0, d)
    BY <1>6, <1>7, <1>9 DEF Ran, SplicedAt
  <1> QED BY <1>5, <1>8, <1>10

\* Linking a batch is a splice of the forest.
LEMMA BatchSplices ==
  ASSUME Linked, NEW p \in live \ texts, NEW list \in Batches, BatchOK(p, list),
         NEW c, c = Slots(list) \/ c = Reverse(Slots(list)),
         NEW s, s = Chain(links, p), NEW n \in 0..Len(s), NEW how, NEW at,
         AimBehind(p, how, at, c, s, n), Relink(LinkAll(links, how, at, c))
  PROVE  Promise!Splice
  <1>1. PICK m, d : m = LinkAll(links, how, at, c) /\ d = Run(how, c, Len(c))
    OBVIOUS
  <1>2. /\ Good(m, live, texts) /\ SplicedAt(links, m, live, p, n, 0, d)
        /\ Promise!Movable(KidsOf(links, live, gen), Named(gen, p), NamedSeq(gen, d))
    BY <1>1, BatchRuns
  <1>3. Good(links, live, texts) /\ Relink(m)
    BY <1>1 DEF Linked
  <1> QED BY <1>2, <1>3, SplicesForest

\* A child is taken out behind the n + 1 - th place of a run.
LEMMA TakenAt ==
  ASSUME NEW l, NEW V, NEW X, Good(l, V, X), NEW k, Good(k, V, X), NEW p \in V,
         NEW s, s = Chain(l, p), NEW n \in Nat, n + 1 <= Len(s), NEW r, r = s[n + 1],
         NEW d, SplicedAt(l, k, V, p, n, 0, d), NEW m, m = Unlink(k, r)
  PROVE  Good(m, V, X) /\ SplicedAt(l, m, V, p, n, 1, d)
  <1>1. ChainOf(l, V, p, s)
    BY ChainIs
  <1>2. s \in Seq(V) /\ Len(s) \in Nat /\ d \in Seq(V) /\ Len(d) \in Nat
    <2>1. s \in Seq(V) /\ d \in Seq(V)
      BY <1>1 DEF ChainOf, SplicedAt
    <2> QED BY <2>1
  <1>3. PICK t, q : t = Chain(k, p) /\ q = (n + Len(d)) + 1
    OBVIOUS
  <1>4. t = Spliced(s, n, 0, d) /\ \A x \in V \ {p} : Chain(k, x) = Chain(l, x)
    BY <1>3 DEF SplicedAt
  <1>5. SplicedOf(t, V, s, n, 0, d)
    <2>1. n + 0 <= Len(s) /\ 0 \in Nat
      BY <1>2
    <2> QED BY <1>2, <1>4, <2>1, SplicedFacts
  <1>6. q \in 1..Len(t) /\ t[q] = r /\ Taken(t, q) = Spliced(s, n, 1, d)
    BY <1>2, <1>3, <1>5, TakenSpliced
  <1>7. r \in V
    <2>1. n + 1 \in 1..Len(s)
      BY <1>2
    <2> QED BY <1>2, <2>1
  <1>8. Good(m, V, X) /\ Parted(k, m, k[r].parent, k[r].prev, k[r].next, r)
    BY <1>7, UnlinkGood
  <1>9. Chain(m, p) = Taken(t, q) /\ \A x \in V \ {p} : Chain(m, x) = Chain(k, x)
    BY <1>3, <1>6, <1>8, PartedChain
  <1> QED BY <1>2, <1>4, <1>6, <1>8, <1>9 DEF SplicedAt

\* The calls that take a list put it among the children as one run.
LEMMA BatchCallsSplice ==
  ASSUME Linked, NEW h, NEW list \in Batches,
         \/ AppendChildren(h, list) \/ PrependChildren(h, list) \/ InsertBefore(h, list)
         \/ InsertAfter(h, list)
  PROVE  Promise!Splice
  <1>0. PICK c, d, i, p : /\ c = Slots(list) /\ d = Reverse(c) /\ i = h.index
                          /\ p = links[i].parent
    OBVIOUS
  <1>1. /\ DOMAIN list = 1..Len(c) /\ Len(c) \in Nat /\ Len(d) = Len(c)
        /\ \A k \in 1..Len(c) : c[k] = list[k].index
    BY <1>0, ListSlots
  <1>2. CASE AppendChildren(h, list) \/ PrependChildren(h, list)
    <2>1. PICK at, s : at = [k \in DOMAIN list |-> i] /\ s = Chain(links, i)
      OBVIOUS
    <2>2. i \in live \ texts /\ BatchOK(i, list)
      BY <1>0, <1>2, ContainerHolds DEF AppendChildren, PrependChildren
    <2>3. ChainOf(links, live, i, s)
      BY <2>1, <2>2, ChainIs DEF Linked
    <2>4. Len(s) \in 0..Len(s) /\ 0 \in 0..Len(s)
      BY <2>3 DEF ChainOf
    <2>5. CASE AppendChildren(h, list)
      <3>1. Relink(LinkAll(links, "last", at, c))
        BY <1>0, <2>1, <2>5 DEF AppendChildren
      <3>2. AimBehind(i, "last", at, c, s, Len(s))
        BY <1>1, <2>1 DEF AimBehind
      <3> QED BY <1>0, <2>1, <2>2, <2>4, <3>1, <3>2, BatchSplices
    <2>6. CASE PrependChildren(h, list)
      <3>1. Relink(LinkAll(links, "first", at, d))
        BY <1>0, <2>1, <2>6 DEF PrependChildren
      <3>2. AimBehind(i, "first", at, d, s, 0)
        BY <1>1, <2>1 DEF AimBehind
      <3> QED BY <1>0, <2>1, <2>2, <2>4, <3>1, <3>2, BatchSplices
    <2> QED BY <1>2, <2>5, <2>6
  <1>3. CASE InsertBefore(h, list) \/ InsertAfter(h, list)
    <2>1. PICK s : s = Chain(links, p)
      OBVIOUS
    <2>2. i \in live /\ p # Nil /\ p \in live \ texts /\ BatchOK(p, list)
      BY <1>0, <1>3, AttachedHolds DEF InsertBefore, InsertAfter
    <2>3. PICK n \in 0..Len(s) : n + 1 \in 1..Len(s) /\ n \in Nat /\ n + 1 <= Len(s) /\ s[n + 1] = i
      BY <1>0, <2>1, <2>2, ChildAt DEF Linked
    <2>4. CASE InsertBefore(h, list)
      <3>1. PICK at : at = [k \in DOMAIN list |-> i]
        OBVIOUS
      <3>2. Relink(LinkAll(links, "before", at, c))
        BY <1>0, <2>4, <3>1 DEF InsertBefore
      <3>3. AimBehind(p, "before", at, c, s, n)
        BY <1>1, <2>3, <3>1 DEF AimBehind
      <3> QED BY <1>0, <2>1, <2>2, <2>3, <3>2, <3>3, BatchSplices
    <2>5. CASE InsertAfter(h, list)
      <3>1. PICK at : at = [k \in DOMAIN list |-> IF k = 1 THEN i ELSE list[k - 1].index]
        OBVIOUS
      <3>2. Relink(LinkAll(links, "after", at, c))
        BY <1>0, <2>5, <3>1 DEF InsertAfter
      <3>3. \A k \in 1..Len(c) : k # 1 => c[k - 1] = list[k - 1].index
        <4> SUFFICES ASSUME NEW k \in 1..Len(c), k # 1 PROVE c[k - 1] = list[k - 1].index
          OBVIOUS
        <4>1. k - 1 \in 1..Len(c)
          BY <1>1
        <4> QED BY <1>1, <4>1
      <3>4. \A k \in 1..Len(c) : at[k] = IF k = 1 THEN s[n + 1] ELSE c[k - 1]
        BY <1>1, <2>3, <3>1, <3>3
      <3>5. PICK w : w = n + 1
        OBVIOUS
      <3>6. w \in 1..Len(s) /\ w \in 0..Len(s)
        BY <2>3, <3>5
      <3>7. AimBehind(p, "after", at, c, s, w)
        BY <3>4, <3>5, <3>6 DEF AimBehind
      <3> QED BY <1>0, <2>1, <2>2, <3>2, <3>6, <3>7, BatchSplices
    <2> QED BY <1>3, <2>4, <2>5
  <1> QED BY <1>2, <1>3

\* A replaced node leaves its place to the run.
LEMMA ReplaceWithSplices ==
  ASSUME Linked, NEW h, NEW list \in Batches, ReplaceWith(h, list)
  PROVE  Promise!Splice
  <1>1. PICK c, i, p, s, at, k, m : /\ c = Slots(list) /\ i = h.index /\ p = links[i].parent
                                    /\ s = Chain(links, p) /\ at = [j \in DOMAIN list |-> i]
                                    /\ k = LinkAll(links, "before", at, c) /\ m = Unlink(k, i)
    OBVIOUS
  <1>2. i \in live /\ p # Nil /\ p \in live \ texts /\ BatchOK(p, list) /\ Relink(m)
    BY <1>1, AttachedHolds DEF ReplaceWith
  <1>3. PICK n \in 0..Len(s) : n + 1 \in 1..Len(s) /\ n \in Nat /\ n + 1 <= Len(s) /\ s[n + 1] = i
    BY <1>1, <1>2, ChildAt DEF Linked
  <1>4. AimBehind(p, "before", at, c, s, n)
    BY <1>1, <1>3, ListSlots DEF AimBehind
  <1>5. PICK d : d = Run("before", c, Len(c))
    OBVIOUS
  <1>6. /\ Good(k, live, texts) /\ SplicedAt(links, k, live, p, n, 0, d)
        /\ Promise!Movable(KidsOf(links, live, gen), Named(gen, p), NamedSeq(gen, d))
    BY <1>1, <1>2, <1>4, <1>5, BatchRuns
  <1>7. Good(m, live, texts) /\ SplicedAt(links, m, live, p, n, 1, d)
    BY <1>1, <1>2, <1>3, <1>6, TakenAt DEF Linked
  <1> QED BY <1>2, <1>6, <1>7, SplicesForest DEF Linked

\* A detached node leaves its place to nothing.
LEMMA DetachSplices ==
  ASSUME Linked, NEW h, Detach(h)
  PROVE  Promise!Splice
  <1>1. PICK i, p, s, m : /\ i = h.index /\ p = links[i].parent /\ s = Chain(links, p)
                          /\ m = Unlink(links, i)
    OBVIOUS
  <1>2. i \in live /\ p # Nil /\ p \in live \ texts /\ Relink(m)
    BY <1>1, AttachedHolds DEF Detach
  <1>3. PICK n \in 0..Len(s) : n + 1 \in 1..Len(s) /\ n \in Nat /\ n + 1 <= Len(s) /\ s[n + 1] = i
    BY <1>1, <1>2, ChildAt DEF Linked
  <1>4. PICK d, A : d = <<>> /\ A = Trail(links, p, "parent")
    OBVIOUS
  <1>5. Good(links, live, texts) /\ s \in Seq(live) /\ d \in Seq(live) /\ Len(d) = 0
    <2>1. Good(links, live, texts)
      BY DEF Linked
    <2>2. ChainOf(links, live, p, s)
      BY <1>1, <1>2, <2>1, ChainIs
    <2> QED BY <1>4, <2>1, <2>2 DEF ChainOf
  <1>6. SplicedAt(links, links, live, p, n, 0, d)
    <2>1. SplicedOf(s, live, s, n, 0, d)
      BY <1>5, SplicedSelf
    <2>2. n + 0 <= Len(s) /\ 0 \in Nat /\ 0 \in 0..1
      BY <1>3, <1>5
    <2>3. s = Spliced(s, n, 0, d)
      BY <1>3, <1>5, <2>1, <2>2, SplicedIs
    <2> QED BY <1>1, <1>3, <1>5, <2>2, <2>3 DEF SplicedAt
  <1>7. Good(m, live, texts) /\ SplicedAt(links, m, live, p, n, 1, d)
    BY <1>1, <1>2, <1>3, <1>5, <1>6, TakenAt
  <1>8. Fit(links, live, texts, A, p, d)
    <2>1. links[p].parent \in Link /\ p \in Link /\ p # Nil
      BY <1>2, <1>5, NilNoSlot DEF Good, Typed
    <2>2. Above(links, A, p)
      BY <1>4, <1>5, <2>1, TrailClosed DEF Above, Good
    <2> QED BY <1>2, <1>4, <1>5, <2>2 DEF Fit
  <1>9. Promise!Movable(KidsOf(links, live, gen), Named(gen, p), NamedSeq(gen, d))
    BY <1>5, <1>8, FitMovable
  <1> QED BY <1>2, <1>5, <1>7, <1>9, SplicesForest

-----------------------------------------------------------------------------
(* The calls that make nodes.                                              *)

\* The children by name, from the chain of each slot.
LEMMA KidsAre ==
  ASSUME NEW l, NEW V, NEW g, NEW K, K = [x \in NamesOf(g, V) |-> K[x]],
         \A i \in V : K[Named(g, i)] = NamedSeq(g, Chain(l, i))
  PROVE  KidsOf(l, V, g) = K
  <1>1. ASSUME NEW x \in NamesOf(g, V) PROVE NamedSeq(g, Chain(l, x.index)) = K[x]
    <2>1. PICK i \in V : x = Named(g, i)
      BY DEF NamesOf
    <2>2. x.index = i
      BY <2>1, NamesApart
    <2> QED BY <2>1, <2>2
  <1>2. KidsOf(l, V, g) = [x \in NamesOf(g, V) |-> K[x]]
    BY <1>1 DEF KidsOf
  <1> QED BY <1>2

\* A slot that is not linked has no children.
LEMMA AddedChain ==
  ASSUME NEW l, NEW V, NEW X, Good(l, V, X), NEW i \in Slot \ V
  PROVE  Good(l, V \cup {i}, X) /\ Chain(l, i) = <<>>
  <1>1. Good(l, V \cup {i}, X \cup {})
    BY AddedGood
  <1>2. Good(l, V \cup {i}, X)
    BY <1>1
  <1>3. PICK c, W : c = <<>> /\ W = V \cup {i}
    OBVIOUS
  <1>4. Len(c) = 0 /\ c \in Seq(W)
    BY <1>3
  <1>5. l[i] = Blank /\ i # Nil
    BY NilNoSlot DEF Good
  <1>6. \A y \in W : l[y].parent # i
    <2> SUFFICES ASSUME NEW y \in W PROVE l[y].parent # i
      OBVIOUS
    <2>1. CASE y \in V
      <3>1. l[y].parent \in V \cup {Nil}
        BY <2>1 DEF Good, Within
      <3> QED BY <1>5, <3>1
    <2>2. CASE y = i
      BY <1>5, <2>2 DEF Blank
    <2> QED BY <1>3, <2>1, <2>2
  <1>7. ChainOf(l, W, i, c)
    <2>1. l[i].last = Nil
      BY <1>5 DEF Blank
    <2> QED BY <1>3, <1>4, <1>6, <2>1 DEF ChainOf
  <1>8. i \in W /\ Good(l, W, X)
    BY <1>2, <1>3
  <1>9. Chain(l, i) = c
    BY <1>7, <1>8, ChainEquals
  <1> QED BY <1>2, <1>3, <1>9

\* A node that is appended to another one.
LEMMA AppendedChain ==
  ASSUME NEW l, NEW V, NEW X, Good(l, V, X), NEW p \in V \ X, NEW i \in Slot \ V,
         NEW s, s = Chain(l, p), NEW m, m = LinkLast(l, p, i)
  PROVE  /\ Chain(m, p) = Put(s, Len(s), i) /\ Chain(m, i) = <<>>
         /\ \A x \in V \ {p} : Chain(m, x) = Chain(l, x)
         /\ s \in Seq(V)
  <1>1. Good(l, V \cup {i}, X) /\ Chain(l, i) = <<>>
    BY AddedChain
  <1>2. Good(m, V \cup {i}, X \cup {})
    BY AppendGood
  <1>3. PICK W : W = V \cup {i}
    OBVIOUS
  <1>4. Good(l, W, X) /\ Good(m, W, X) /\ p \in W /\ i \in W /\ p # i
    BY <1>1, <1>2, <1>3
  <1>5. l[i].parent = Nil
    BY DEF Good, Blank
  <1>6. ChainOf(l, V, p, s)
    BY ChainIs
  <1>7. s \in Seq(V) /\ Len(s) \in 0..Len(s)
    BY <1>6 DEF ChainOf
  <1>8. m = LinkTo(l, "last", p, i)
    BY DEF LinkTo
  <1>9. Behind(p, "last", p, s, Len(s))
    BY DEF Behind
  <1>10. Chain(m, p) = Put(s, Len(s), i) /\ \A x \in W \ {p} : Chain(m, x) = Chain(l, x)
    BY <1>4, <1>5, <1>7, <1>8, <1>9, LinkToPuts
  <1> QED BY <1>1, <1>3, <1>4, <1>7, <1>10

\* Put at the end is Append, by name.
LEMMA PutName ==
  ASSUME NEW V, NEW s \in Seq(V), NEW g, NEW i
  PROVE  NamedSeq(g, Put(s, Len(s), i)) = Append(NamedSeq(g, s), Named(g, i))
  <1>1. PICK W : W = V \cup {i}
    OBVIOUS
  <1>2. s \in Seq(W) /\ i \in W /\ Len(s) \in Nat /\ Len(s) \in 0..Len(s)
    BY <1>1
  <1>3. PICK d : d = Put(s, Len(s), i)
    OBVIOUS
  <1>4. PutOf(d, W, s, Len(s), i)
    BY <1>2, <1>3, PutFacts
  <1>5. d \in Seq(W) /\ Len(d) = Len(s) + 1 /\ (\A k \in 1..Len(s) : d[k] = s[k]) /\ d[Len(s) + 1] = i
    BY <1>4 DEF PutOf
  <1>6. PICK a, b, e : a = NamedSeq(g, s) /\ b = NamedSeq(g, d) /\ e = Named(g, i)
    OBVIOUS
  <1>7. NamesIn(a, g, W, s) /\ NamesIn(b, g, W, d)
    BY <1>2, <1>5, <1>6, NamedSeqIs
  <1>8. /\ a \in Seq(NamesOf(g, W)) /\ Len(a) = Len(s) /\ \A k \in 1..Len(s) : a[k] = Named(g, s[k])
        /\ b \in Seq(NamesOf(g, W)) /\ Len(b) = Len(d) /\ \A k \in 1..Len(d) : b[k] = Named(g, d[k])
        /\ e \in NamesOf(g, W)
    BY <1>2, <1>6, <1>7, NamesApart DEF NamesIn
  <1>9. PICK w : w = Append(a, e)
    OBVIOUS
  <1>10. /\ w \in Seq(NamesOf(g, W)) /\ Len(w) = Len(a) + 1
         /\ (\A k \in 1..Len(a) : w[k] = a[k]) /\ w[Len(a) + 1] = e
    BY <1>8, <1>9, AppendProperties
  <1>11. ASSUME NEW k \in 1..Len(b) PROVE b[k] = w[k]
    <2>1. CASE k \in 1..Len(s)
      BY <1>5, <1>8, <1>10, <2>1
    <2>2. CASE k = Len(s) + 1
      <3>1. k \in 1..Len(d)
        BY <1>2, <1>5, <2>2
      <3>2. b[k] = Named(g, d[k]) /\ d[k] = i
        BY <1>5, <1>8, <2>2, <3>1
      <3> QED BY <1>6, <1>8, <1>10, <2>2, <3>2
    <2> QED BY <1>2, <1>5, <1>8, <2>1, <2>2
  <1>12. b = w
    <2>1. Len(b) = Len(w)
      BY <1>5, <1>8, <1>10
    <2> QED BY <1>8, <1>10, <1>11, <2>1, SeqEqual
  <1> QED BY <1>3, <1>6, <1>9, <1>12

\* A slot that is filled comes with a name nobody has.
LEMMA FreshNames ==
  ASSUME Past, NEW S \in SUBSET Slot, Fill(S, free, count), gen' = gen
  PROVE  issued' = issued \cup NamesOf(gen, S) /\ NamesOf(gen, S) \cap issued = {}
  <1>1. CanAlloc(S, free, count) /\ issued' = issued \cup {[index |-> i, generation |-> gen[i]] : i \in S}
    BY DEF Fill
  <1>2. \A h \in issued : h.index \in S => h.generation # gen[h.index]
    BY <1>1, FilledDated DEF Past
  <1>3. \A i \in S : Named(gen, i) \notin issued
    BY <1>2 DEF Named
  <1> QED BY <1>1, <1>3 DEF NamesOf, Named

\* A new node.
LEMMA CreateForest ==
  ASSUME Linked, Past, NEW i \in Slot, NEW text \in BOOLEAN, Create(i, text)
  PROVE  Promise!Create
  <1>1. PICK e, Y, T : /\ e = Named(gen, i) /\ Y = (IF text THEN {i} ELSE {})
                       /\ T = (IF text THEN {e} ELSE {})
    OBVIOUS
  <1>2. /\ CanAlloc({i}, free, count) /\ Places(count, live, free) /\ Fill({i}, free, count)
        /\ gen' = gen /\ live' = live \cup {i} /\ texts' = texts \cup Y /\ links' = links
    BY <1>1 DEF Create, Fill, Linked
  <1>3. Good(links, live, texts) /\ i \in Slot \ live
    BY <1>2, FilledOne DEF Linked
  <1>4. issued' = issued \cup {e} /\ e \notin issued
    BY <1>1, <1>2, FreshNames DEF NamesOf
  <1>5. Nodes' = Nodes \cup {e} /\ Leaves' = Leaves \cup T
    BY <1>1, <1>2, MappedNow, MappedThen DEF NamesOf
  <1>6. PICK W : W = live \cup {i}
    OBVIOUS
  <1>7. Kids' = [x \in Nodes' |-> IF x = e THEN <<>> ELSE Kids[x]]
    <2>1. PICK K : K = [x \in NamesOf(gen, W) |-> IF x = e THEN <<>> ELSE Kids[x]]
      OBVIOUS
    <2>2. \A j \in W : K[Named(gen, j)] = NamedSeq(gen, Chain(links, j))
      <3> SUFFICES ASSUME NEW j \in W PROVE K[Named(gen, j)] = NamedSeq(gen, Chain(links, j))
        OBVIOUS
      <3>1. Named(gen, j) \in NamesOf(gen, W)
        BY NamesApart
      <3>2. CASE j = i
        <4>1. Chain(links, j) = <<>>
          BY <1>3, <3>2, AddedChain
        <4>2. NamedSeq(gen, <<>>) = <<>>
          BY DEF NamedSeq
        <4> QED BY <1>1, <2>1, <3>1, <3>2, <4>1, <4>2
      <3>3. CASE j # i
        <4>1. j \in live /\ Named(gen, j) # e
          BY <1>1, <1>6, <3>3, NamesApart
        <4>2. Kids[Named(gen, j)] = NamedSeq(gen, Chain(links, j))
          BY <1>3, <4>1, MappedNow, KidsAt
        <4> QED BY <2>1, <3>1, <4>1, <4>2
      <3> QED BY <3>2, <3>3
    <2>3. K = [x \in NamesOf(gen, W) |-> K[x]]
      BY <2>1
    <2>4. KidsOf(links, W, gen) = K
      BY <2>2, <2>3, KidsAre
    <2>5. Kids' = K /\ Nodes' = NamesOf(gen, W)
      BY <1>2, <1>6, <2>4, MappedThen
    <2> QED BY <2>1, <2>5
  <1>8. e \in issued' \ issued /\ T \in SUBSET (issued' \ issued)
    BY <1>1, <1>4
  <1> QED BY <1>4, <1>5, <1>7, <1>8, Zenon DEF Promise!Create

\* A new node at the end of the children of another one.
LEMMA AppendNewForest ==
  ASSUME Linked, Past, NEW h, NEW i \in Slot, NEW text \in BOOLEAN, AppendNew(h, i, text)
  PROVE  Promise!Create
  <1>1. PICK e, Y, T, p, q, m : /\ e = Named(gen, i) /\ Y = (IF text THEN {i} ELSE {})
                                /\ T = (IF text THEN {e} ELSE {}) /\ p = h.index
                                /\ q = Named(gen, p) /\ m = LinkLast(links, p, i)
    OBVIOUS
  <1>2. /\ CanAlloc({i}, free, count) /\ Places(count, live, free) /\ Fill({i}, free, count)
        /\ gen' = gen /\ live' = live \cup {i} /\ texts' = texts \cup Y /\ links' = m
        /\ p \in live \ texts
    BY <1>1, ContainerHolds DEF AppendNew, Fill, Linked
  <1>3. Good(links, live, texts) /\ i \in Slot \ live
    BY <1>2, FilledOne DEF Linked
  <1>4. issued' = issued \cup {e} /\ e \notin issued
    BY <1>1, <1>2, FreshNames DEF NamesOf
  <1>5. Nodes' = Nodes \cup {e} /\ Leaves' = Leaves \cup T /\ q \in Nodes \ Leaves
    <2>1. Nodes = NamesOf(gen, live) /\ Leaves = NamesOf(gen, texts)
      BY MappedNow
    <2>2. Nodes' = NamesOf(gen, live \cup {i}) /\ Leaves' = NamesOf(gen, texts \cup Y)
      BY <1>2, MappedThen
    <2>3. NamesOf(gen, live \cup {i}) = NamesOf(gen, live) \cup {e}
      BY <1>1 DEF NamesOf
    <2>4. NamesOf(gen, texts \cup Y) = NamesOf(gen, texts) \cup T
      BY <1>1 DEF NamesOf
    <2>5. q \in Nodes \ Leaves
      BY <1>1, <1>2, <2>1, NamesApart
    <2> QED BY <2>1, <2>2, <2>3, <2>4, <2>5
  <1>6. PICK W : W = live \cup {i}
    OBVIOUS
  <1>7. Kids' = [x \in Nodes' |-> IF x = e THEN <<>> ELSE IF x = q THEN Append(Kids[q], e) ELSE Kids[x]]
    <2>1. PICK K : K = [x \in NamesOf(gen, W) |-> IF x = e THEN <<>>
                                                  ELSE IF x = q THEN Append(Kids[q], e) ELSE Kids[x]]
      OBVIOUS
    <2>2. PICK s : s = Chain(links, p)
      OBVIOUS
    <2>3. /\ Chain(m, p) = Put(s, Len(s), i) /\ Chain(m, i) = <<>> /\ s \in Seq(live)
          /\ \A x \in live \ {p} : Chain(m, x) = Chain(links, x)
      BY <1>1, <1>2, <1>3, <2>2, AppendedChain
    <2>4. \A j \in live : Kids[Named(gen, j)] = NamedSeq(gen, Chain(links, j))
      BY <1>3, MappedNow, KidsAt
    <2>5. \A j \in W : K[Named(gen, j)] = NamedSeq(gen, Chain(m, j))
      <3> SUFFICES ASSUME NEW j \in W PROVE K[Named(gen, j)] = NamedSeq(gen, Chain(m, j))
        OBVIOUS
      <3>1. Named(gen, j) \in NamesOf(gen, W)
        BY NamesApart
      <3>2. CASE j = i
        <4>1. NamedSeq(gen, <<>>) = <<>>
          BY DEF NamedSeq
        <4> QED BY <1>1, <2>1, <2>3, <3>1, <3>2, <4>1
      <3>3. CASE j = p
        <4>1. Named(gen, j) # e /\ Named(gen, j) = q
          BY <1>1, <1>2, <1>3, <3>3, NamesApart
        <4>2. K[q] = Append(Kids[q], e)
          BY <2>1, <3>1, <4>1
        <4>3. Kids[q] = NamedSeq(gen, s)
          BY <1>1, <1>2, <2>2, <2>4
        <4>4. NamedSeq(gen, Put(s, Len(s), i)) = Append(NamedSeq(gen, s), e)
          BY <1>1, <2>3, PutName
        <4> QED BY <2>3, <3>3, <4>1, <4>2, <4>3, <4>4
      <3>4. CASE j # i /\ j # p
        <4>1. j \in live /\ Named(gen, j) # e /\ Named(gen, j) # q
          BY <1>1, <1>6, <3>4, NamesApart
        <4>2. K[Named(gen, j)] = Kids[Named(gen, j)]
          BY <2>1, <3>1, <4>1
        <4> QED BY <2>3, <2>4, <3>4, <4>1, <4>2
      <3> QED BY <3>2, <3>3, <3>4
    <2>6. K = [x \in NamesOf(gen, W) |-> K[x]]
      BY <2>1
    <2>7. KidsOf(m, W, gen) = K
      BY <2>5, <2>6, KidsAre
    <2>8. Kids' = K /\ Nodes' = NamesOf(gen, W)
      BY <1>2, <1>6, <2>7, MappedThen
    <2> QED BY <2>1, <2>8
  <1>8. e \in issued' \ issued /\ T \in SUBSET (issued' \ issued)
    BY <1>1, <1>4
  <1> QED BY <1>4, <1>5, <1>7, <1>8, Zenon DEF Promise!Create

-----------------------------------------------------------------------------
(* The calls that remove nodes.                                            *)

\* The slots V have the same names with generations f and g.
Alike(f, g, V) ==
  /\ \A i \in V : Named(f, i) = Named(g, i)
  /\ NamesOf(f, V) = NamesOf(g, V)
  /\ \A c \in Seq(V) : NamedSeq(f, c) = NamedSeq(g, c)

\* Generations of other slots do not show in a name.
LEMMA SameNames ==
  ASSUME NEW f, NEW g, NEW V, \A i \in V : f[i] = g[i]
  PROVE  Alike(f, g, V)
  <1>1. \A i \in V : Named(f, i) = Named(g, i)
    BY DEF Named
  <1>2. NamesOf(f, V) = NamesOf(g, V)
    BY <1>1 DEF NamesOf
  <1>3. ASSUME NEW c \in Seq(V) PROVE NamedSeq(f, c) = NamedSeq(g, c)
    <2>1. \A k \in DOMAIN c : c[k] \in V
      OBVIOUS
    <2> QED BY <1>1, <2>1 DEF NamedSeq
  <1> QED BY <1>1, <1>2, <1>3 DEF Alike

\* The chains after the children of h went.
Cleared(l, m, V, X, h, S, T) ==
  /\ Good(m, V \ T, X \ T) /\ T \subseteq V /\ h \in V \ T
  /\ Chain(m, h) = <<>> /\ \A x \in V \ S : Chain(m, x) = Chain(l, x)

\* The node has no children left, the others have theirs.
LEMMA ClearedChains ==
  ASSUME NEW l, NEW V, NEW X, Good(l, V, X), NEW h \in V, NEW S, Below(l, V, h, S),
         NEW T, T = S \ {h}, NEW m, m = Erase(UnlinkAll(l, Chain(l, h)), T)
  PROVE  Cleared(l, m, V, X, h, S, T)
  <1>1. PICK c, k : c = Chain(l, h) /\ k = UnlinkAll(l, c)
    OBVIOUS
  <1>2. ChainOf(l, V, h, c)
    BY <1>1, ChainIs
  <1>3. c \in Seq(V)
    BY <1>2 DEF ChainOf
  <1>4. Freed(l, k, V, X, c, Len(c))
    BY <1>1, <1>3, UnlinkAllGood
  <1>5. Good(m, V \ T, X \ T) /\ T \subseteq V
    BY <1>1, ClearGood
  <1>6. \A x \in T : k[x].parent \in T \cup {Nil}
    <2> SUFFICES ASSUME NEW x \in T PROVE k[x].parent \in T \cup {Nil}
      OBVIOUS
    <2>1. x \in V /\ l[x].parent \in S
      BY <1>5 DEF Below, Upwards
    <2>2. l[x].parent = h => \E j \in 1..Len(c) : c[j] = x
      BY <1>2, <2>1 DEF ChainOf
    <2> QED BY <1>4, <2>1, <2>2 DEF Freed
  <1>7. Good(k, V, X) /\ m = Erase(k, T)
    BY <1>1, <1>4 DEF Freed
  <1>8. \A x \in V \ T : Chain(m, x) = Chain(k, x)
    BY <1>5, <1>6, <1>7, ErasedChains
  <1>9. Chain(k, h) = <<>> /\ \A x \in V \ {h} : Chain(k, x) = Chain(l, x)
    BY <1>1, UnlinkAllChains
  <1>10. h \in S
    BY DEF Below, Upwards
  <1> QED BY <1>5, <1>8, <1>9, <1>10 DEF Cleared

\* The chains after h went with all below it.
Removed(l, m, V, X, h, S, p, s) ==
  /\ Good(m, V \ S, X \ S) /\ S \subseteq V /\ h \in S
  /\ \A x \in V \ S : x # p => Chain(m, x) = Chain(l, x)
  /\ p # Nil => \E k \in 1..Len(s) : s[k] = h /\ Chain(m, p) = Taken(s, k)

\* The parent has one child less, the others have theirs.
LEMMA RemovedChains ==
  ASSUME NEW l, NEW V, NEW X, Good(l, V, X), NEW h \in V \ {Root}, NEW S, Below(l, V, h, S),
         NEW u, u = (IF l[h].parent # Nil THEN Unlink(l, h) ELSE l), NEW m, m = Erase(u, S),
         NEW p, p = l[h].parent, NEW s, s = Chain(l, p)
  PROVE  Removed(l, m, V, X, h, S, p, s)
  <1>1. Good(m, V \ S, X \ S) /\ S \subseteq V
    BY RemoveGood
  <1>2. h \in S /\ Nil \notin V /\ V \subseteq Slot
    BY NilNoSlot DEF Below, Upwards, Good
  <1>3. CASE p = Nil
    <2>1. \A x \in S : l[x].parent \in S \cup {Nil}
      BY <1>3 DEF Below, Upwards
    <2>2. u = l
      BY <1>3
    <2>3. \A x \in V \ S : Chain(m, x) = Chain(l, x)
      BY <1>1, <2>1, <2>2, ErasedChains
    <2> QED BY <1>1, <1>2, <1>3, <2>3 DEF Removed
  <1>4. CASE p # Nil
    <2>1. u = Unlink(l, h)
      BY <1>4
    <2>2. Good(u, V, X) /\ Parted(l, u, l[h].parent, l[h].prev, l[h].next, h)
      BY <2>1, UnlinkGood
    <2>3. \A x \in S : u[x].parent \in S \cup {Nil}
      BY <1>1, <1>2, <2>2 DEF Parted, Below, Upwards
    <2>4. \A x \in V \ S : Chain(m, x) = Chain(u, x)
      BY <1>1, <2>2, <2>3, ErasedChains
    <2>5. p \in V /\ p \notin S
      BY <1>4, HasFirst, NotBelowItself
    <2>6. PICK n \in 0..Len(s) : n + 1 \in 1..Len(s) /\ s[n + 1] = h
      BY <1>4, ChildAt
    <2>7. PICK k : k = n + 1
      OBVIOUS
    <2>8. k \in 1..Len(s) /\ s[k] = h
      BY <2>6, <2>7
    <2>9. Chain(u, p) = Taken(s, k) /\ \A x \in V \ {p} : Chain(u, x) = Chain(l, x)
      BY <2>2, <2>5, <2>8, PartedChain
    <2> QED BY <1>1, <1>2, <2>4, <2>5, <2>8, <2>9 DEF Removed
  <1> QED BY <1>3, <1>4

\* Taking a child out, by name.
LEMMA TakenWithout ==
  ASSUME NEW V, NEW s \in Seq(V), NEW k \in 1..Len(s), \A i, j \in 1..Len(s) : s[i] = s[j] => i = j,
         NEW g
  PROVE  NamedSeq(g, Taken(s, k)) = Promise!Without(NamedSeq(g, s), Named(g, s[k]))
  <1>0. Len(s) \in Nat
    OBVIOUS
  <1>1. PICK n, d, t, a, b, e, W : /\ n = k - 1 /\ d = <<>> /\ t = Taken(s, k) /\ a = NamedSeq(g, s)
                                   /\ b = NamedSeq(g, t) /\ e = Named(g, s[k]) /\ W = NamesOf(g, V)
    OBVIOUS
  <1>2. n \in Nat /\ n + 1 = k /\ n + 1 <= Len(s) /\ n \in 0..Len(s)
    BY <1>0, <1>1
  <1>3. d \in Seq(V) /\ Len(d) = 0 /\ (n + Len(d)) + 1 = k
    BY <1>1, <1>2
  <1>4. t = Spliced(s, n, 1, d)
    <2>1. SplicedOf(s, V, s, n, 0, d)
      BY <1>2, <1>3, SplicedSelf
    <2>2. PICK q : q = (n + Len(d)) + 1
      OBVIOUS
    <2>3. d \in Seq(V)
      BY <1>3
    <2>4. n \in Nat /\ n + 1 <= Len(s)
      BY <1>2
    <2>5. Taken(s, q) = Spliced(s, n, 1, d)
      BY <2>1, <2>2, <2>3, <2>4, TakenSpliced
    <2> QED BY <1>1, <1>3, <2>2, <2>5
  <1>5. SplicedOf(b, W, a, n, 1, NamedSeq(g, d))
    <2>1. 1 \in Nat
      OBVIOUS
    <2> QED BY <1>1, <1>2, <1>3, <1>4, <2>1, SplicedNames
  <1>6. NamedSeq(g, d) = d /\ d \in Seq(W)
    BY <1>1 DEF NamedSeq
  <1>7. NamesIn(a, g, V, s)
    BY <1>1, NamedSeqIs
  <1>8. a \in Seq(W) /\ Len(a) = Len(s) /\ \A i \in 1..Len(s) : a[i] = Named(g, s[i])
    BY <1>1, <1>7 DEF NamesIn
  <1>9. PartsOf(b, a, n, 1, d)
    <2>1. n + 1 <= Len(a) /\ 1 \in Nat
      BY <1>2, <1>8
    <2> QED BY <1>2, <1>5, <1>6, <1>8, <2>1, SplicedParts
  <1>10. b = SubSeq(a, 1, k - 1) \o d \o SubSeq(a, k + 1, Len(a))
    <2>1. b = SubSeq(a, 1, n) \o d \o SubSeq(a, (n + 1) + 1, Len(a))
      BY <1>9, Zenon DEF PartsOf
    <2> QED BY <1>1, <1>2, <2>1
  <1>11. SubSeq(a, 1, k - 1) \o d = SubSeq(a, 1, k - 1)
    <2>1. SubSeq(a, 1, k - 1) \in Seq(W)
      <3>1. SubSeq(a, 1, n) \in Seq(W)
        BY <1>2, <1>8, SubSeqProperties
      <3> QED BY <1>1, <3>1
    <2> QED BY <1>1, <2>1, ConcatEmptySeq
  <1>12. \A i \in DOMAIN a : a[i] = e <=> i = k
    <2>1. DOMAIN a = 1..Len(s)
      BY <1>8
    <2> QED BY <1>1, <1>8, <2>1, NamesApart
  <1>13. k \in DOMAIN a /\ e \in ToSet(a)
    <2>1. DOMAIN a = 1..Len(s)
      BY <1>8
    <2> QED BY <1>12, <2>1 DEF ToSet
  <1>14. (CHOOSE i \in DOMAIN a : a[i] = e) = k
    BY <1>12, <1>13
  <1>15. Promise!Without(a, e) = SubSeq(a, 1, k - 1) \o SubSeq(a, k + 1, Len(a))
    BY <1>13, <1>14, Zenon DEF Promise!Without, Promise!RemoveAt, Promise!ToSet, ToSet
  <1> QED BY <1>1, <1>10, <1>11, <1>15

\* A sequence without the name stays.
LEMMA NothingWithout ==
  ASSUME NEW a, NEW e, e \notin ToSet(a)
  PROVE  Promise!Without(a, e) = a
  BY Zenon DEF Promise!Without, Promise!ToSet, ToSet

\* Slots that are freed leave the others their names.
LEMMA BumpNames ==
  ASSUME Linked, NEW S \in SUBSET live
  PROVE  \A i \in live \ S : Bump(S)[i] = gen[i]
  BY DEF Linked, Good, Bump

\* Slots that are freed are nodes that disappear.
LEMMA ReleaseDrops ==
  ASSUME Linked, NEW S \in SUBSET live, NEW m, Release(m, S), NEW l, l = Erase(m, S),
         Good(l, live \ S, texts \ S), NEW K,
         \A i \in live \ S : K[Named(gen, i)] = NamedSeq(gen, Chain(l, i))
  PROVE  Promise!Drop(NamesOf(gen, S), K)
  <1>1. PICK V, D, k : /\ V = live \ S /\ D = NamesOf(gen, S)
                       /\ k = [x \in NamesOf(gen, V) |-> K[x]]
    OBVIOUS
  <1>2. /\ live' = V /\ texts' = texts \ S /\ gen' = Bump(S) /\ links' = l /\ issued' = issued
    BY <1>1 DEF Release
  <1>3. \A i \in V : gen'[i] = gen[i]
    BY <1>1, <1>2, BumpNames
  <1>4. texts \ S \subseteq V
    BY <1>1 DEF Linked, Good
  <1>5. PICK f : f = gen'
    OBVIOUS
  <1>6. /\ NamesOf(f, V) = NamesOf(gen, V) /\ NamesOf(f, texts \ S) = NamesOf(gen, texts \ S)
        /\ (\A i \in V : Named(f, i) = Named(gen, i))
        /\ \A c \in Seq(V) : NamedSeq(f, c) = NamedSeq(gen, c)
    <2>1. \A i \in V : f[i] = gen[i]
      BY <1>3, <1>4, <1>5
    <2>2. \A i \in texts \ S : f[i] = gen[i]
      BY <1>3, <1>4, <1>5
    <2>3. Alike(f, gen, V)
      BY <2>1, SameNames
    <2>4. Alike(f, gen, texts \ S)
      BY <2>2, SameNames
    <2> QED BY <2>3, <2>4 DEF Alike
  <1>7. NamesOf(gen, V) = Nodes \ D /\ NamesOf(gen, texts \ S) = Leaves \ D
    BY <1>1, MappedNow, NamesLess
  <1>8. \A i \in V : k[Named(f, i)] = NamedSeq(f, Chain(l, i))
    <2> SUFFICES ASSUME NEW i \in V PROVE k[Named(f, i)] = NamedSeq(f, Chain(l, i))
      OBVIOUS
    <2>1. ChainOf(l, V, i, Chain(l, i))
      BY <1>1, ChainIs
    <2>2. NamedSeq(f, Chain(l, i)) = NamedSeq(gen, Chain(l, i))
      BY <1>6, <2>1 DEF ChainOf
    <2>3. Named(gen, i) \in NamesOf(gen, V)
      BY NamesApart
    <2> QED BY <1>1, <1>6, <2>2, <2>3
  <1>9. KidsOf(l, V, f) = k
    <2>1. k = [x \in NamesOf(f, V) |-> k[x]]
      BY <1>1, <1>6
    <2> QED BY <1>8, <2>1, KidsAre
  <1>10. Nodes' = Nodes \ D /\ Leaves' = Leaves \ D /\ Kids' = [x \in Nodes \ D |-> K[x]]
    BY <1>1, <1>2, <1>5, <1>6, <1>7, <1>9, MappedThen
  <1> QED BY <1>1, <1>2, <1>10, Zenon DEF Promise!Drop

\* A node goes with its subtree.
LEMMA RemoveNodeForest ==
  ASSUME Linked, NEW h, RemoveNode(h)
  PROVE  Promise!RemoveNode
  <1>1. PICK i, S, u, l, e, p, s, D, K :
              /\ i = h.index /\ S = Subtree(links, i)
              /\ u = (IF links[i].parent # Nil THEN Unlink(links, i) ELSE links) /\ l = Erase(u, S)
              /\ e = Named(gen, i) /\ p = links[i].parent /\ s = Chain(links, p)
              /\ D = NamesOf(gen, S) /\ K = [x \in Nodes |-> Promise!Without(Kids[x], e)]
    OBVIOUS
  <1>2. i \in live \ {Root} /\ Release(u, S)
    <2>1. i \in live \ {Root}
      BY <1>1 DEF RemoveNode, Valid
    <2>2. Attached(h) <=> links[i].parent # Nil
      BY <1>1, <2>1 DEF RemoveNode, Attached
    <2> QED BY <1>1, <2>1, <2>2 DEF RemoveNode
  <1>3. Good(links, live, texts) /\ Below(links, live, i, S)
    BY <1>1, <1>2, SubtreeBelow DEF Linked, Places
  <1>4. /\ Good(l, live \ S, texts \ S) /\ S \subseteq live /\ i \in S
        /\ \A x \in live \ S : x # p => Chain(l, x) = Chain(links, x)
        /\ p # Nil => \E k \in 1..Len(s) : s[k] = i /\ Chain(l, p) = Taken(s, k)
    <2>1. /\ u = (IF links[i].parent # Nil THEN Unlink(links, i) ELSE links) /\ l = Erase(u, S)
          /\ p = links[i].parent /\ s = Chain(links, p)
      BY <1>1
    <2>2. Removed(links, l, live, texts, i, S, p, s)
      BY <1>2, <1>3, <2>1, RemovedChains
    <2> QED BY <2>2 DEF Removed
  <1>5. Kids = KidsOf(links, live, gen) /\ Nodes = NamesOf(gen, live)
    BY MappedNow
  <1>6. Promise!Below(Kids, e) = D
    BY <1>1, <1>2, <1>3, <1>5, BelowIs
  <1>7. \A x \in live \ S : K[Named(gen, x)] = NamedSeq(gen, Chain(l, x))
    <2> SUFFICES ASSUME NEW x \in live \ S PROVE K[Named(gen, x)] = NamedSeq(gen, Chain(l, x))
      OBVIOUS
    <2>1. PICK a : a = NamedSeq(gen, Chain(links, x))
      OBVIOUS
    <2>2. Kids[Named(gen, x)] = a /\ ToSet(a) = NamesOf(gen, {y \in live : links[y].parent = x})
      BY <1>3, <1>5, <2>1, KidsAt
    <2>3. K[Named(gen, x)] = Promise!Without(a, e)
      BY <1>1, <1>5, <2>2, NamesApart
    <2>4. CASE x # p
      <3>1. e \notin ToSet(a)
        BY <1>1, <2>2, <2>4, NamesApart
      <3> QED BY <1>4, <2>1, <2>3, <2>4, <3>1, NothingWithout
    <2>5. CASE x = p
      <3>1. p # Nil
        BY <1>3, <2>5, NilNoSlot DEF Good
      <3>2. PICK k \in 1..Len(s) : s[k] = i /\ Chain(l, p) = Taken(s, k)
        BY <1>4, <3>1
      <3>3. ChainOf(links, live, p, s)
        BY <1>1, <1>3, <2>5, ChainIs
      <3>4. Nil \notin live
        BY <1>3, NilNoSlot DEF Good
      <3>5. s \in Seq(live) /\ \A j, n \in 1..Len(s) : s[j] = s[n] => j = n
        <4>1. s \in Seq(live)
          BY <3>3 DEF ChainOf
        <4> QED BY <3>3, <3>4, <4>1, ChainInjective
      <3>6. NamedSeq(gen, Taken(s, k)) = Promise!Without(NamedSeq(gen, s), Named(gen, s[k]))
        BY <3>5, TakenWithout
      <3> QED BY <1>1, <2>1, <2>3, <2>5, <3>2, <3>6
    <2> QED BY <2>4, <2>5
  <1>8. Promise!Drop(D, K)
    BY <1>1, <1>2, <1>4, <1>7, ReleaseDrops
  <1>9. e \in Nodes \ {[index |-> Root, generation |-> 0]}
    BY <1>1, <1>2, <1>5, NamesApart
  <1> QED BY <1>1, <1>6, <1>8, <1>9, Zenon DEF Promise!RemoveNode

\* The slots below a node without the node, by name.
LEMMA NamesBelow ==
  ASSUME NEW g, NEW S, NEW i, NEW T, T = S \ {i}
  PROVE  NamesOf(g, T) = NamesOf(g, S) \ {Named(g, i)}
  BY NamesApart DEF NamesOf

\* Everything below a node goes.
LEMMA ClearChildrenForest ==
  ASSUME Linked, NEW h, ClearChildren(h)
  PROVE  Promise!Clear
  <1>1. PICK i, S, T, u, l, e, D, K :
              /\ i = h.index /\ S = Subtree(links, i) /\ T = S \ {i}
              /\ u = UnlinkAll(links, Chain(links, i)) /\ l = Erase(u, T)
              /\ e = Named(gen, i) /\ D = NamesOf(gen, T) /\ K = [Kids EXCEPT ![e] = <<>>]
    OBVIOUS
  <1>2. i \in live \ texts /\ Release(u, T)
    BY <1>1, ContainerHolds DEF ClearChildren
  <1>3. Good(links, live, texts) /\ Below(links, live, i, S)
    BY <1>1, <1>2, SubtreeBelow DEF Linked, Places
  <1>4. /\ Good(l, live \ T, texts \ T) /\ T \subseteq live /\ i \in live \ T
        /\ Chain(l, i) = <<>> /\ \A x \in live \ S : Chain(l, x) = Chain(links, x)
    <2>1. T = S \ {i} /\ l = Erase(UnlinkAll(links, Chain(links, i)), T)
      BY <1>1
    <2>2. i \in live
      BY <1>2
    <2>3. Cleared(links, l, live, texts, i, S, T)
      BY <1>3, <2>1, <2>2, ClearedChains
    <2> QED BY <2>3 DEF Cleared
  <1>5. Kids = KidsOf(links, live, gen) /\ Nodes = NamesOf(gen, live) /\ Leaves = NamesOf(gen, texts)
    BY MappedNow
  <1>6. Promise!Below(Kids, e) \ {e} = D
    <2>1. Promise!Below(Kids, e) = NamesOf(gen, S)
      BY <1>1, <1>2, <1>3, <1>5, BelowIs
    <2> QED BY <1>1, <2>1, NamesBelow
  <1>7. \A x \in live \ T : K[Named(gen, x)] = NamedSeq(gen, Chain(l, x))
    <2> SUFFICES ASSUME NEW x \in live \ T PROVE K[Named(gen, x)] = NamedSeq(gen, Chain(l, x))
      OBVIOUS
    <2>1. Kids[Named(gen, x)] = NamedSeq(gen, Chain(links, x))
      BY <1>3, <1>5, KidsAt
    <2>2. Named(gen, x) \in DOMAIN Kids
      BY <1>5, NamesApart DEF KidsOf
    <2>3. CASE x = i
      <3>1. NamedSeq(gen, <<>>) = <<>>
        BY DEF NamedSeq
      <3> QED BY <1>1, <1>4, <2>2, <2>3, <3>1
    <2>4. CASE x # i
      <3>1. x \in live \ S /\ Named(gen, x) # e
        BY <1>1, <2>4, NamesApart
      <3> QED BY <1>1, <1>4, <2>1, <2>2, <3>1
    <2> QED BY <2>3, <2>4
  <1>8. Promise!Drop(D, K)
    <2>1. l = Erase(u, T) /\ D = NamesOf(gen, T)
      BY <1>1
    <2> QED BY <1>2, <1>4, <1>7, <2>1, ReleaseDrops
  <1>9. e \in Nodes \ Leaves
    BY <1>1, <1>2, <1>5, NamesApart
  <1> QED BY <1>1, <1>6, <1>8, <1>9, Zenon DEF Promise!Clear

\* A text takes the place of everything below a node.
LEMMA SetTextContentForest ==
  ASSUME Linked, Past, NEW h, NEW k \in Slot, SetTextContent(h, k)
  PROVE  Promise!Clear
  <1>1. PICK i, S, T, u, l, m, e, D, f, n :
              /\ i = h.index /\ S = Subtree(links, i) /\ T = S \ {i}
              /\ u = UnlinkAll(links, Chain(links, i)) /\ l = Erase(u, T) /\ m = LinkLast(l, i, k)
              /\ e = Named(gen, i) /\ D = NamesOf(gen, T) /\ f = Bump(T) /\ n = Named(f, k)
    OBVIOUS
  <1>2. /\ i \in live \ texts /\ gen' = f /\ Fill({k}, Recycled(T), count)
        /\ live' = (live \ T) \cup {k} /\ texts' = (texts \ T) \cup {k} /\ links' = m
    BY <1>1, ContainerHolds DEF SetTextContent
  <1>3. Good(links, live, texts) /\ Below(links, live, i, S) /\ live \subseteq 0..(count - 1)
    BY <1>1, <1>2, SubtreeBelow DEF Linked, Places
  <1>4. /\ Good(l, live \ T, texts \ T) /\ T \subseteq live /\ i \in live \ T
        /\ Chain(l, i) = <<>> /\ \A x \in live \ S : Chain(l, x) = Chain(links, x)
    <2>1. T = S \ {i} /\ l = Erase(UnlinkAll(links, Chain(links, i)), T)
      BY <1>1
    <2>2. i \in live
      BY <1>2
    <2>3. Cleared(links, l, live, texts, i, S, T)
      BY <1>3, <2>1, <2>2, ClearedChains
    <2> QED BY <2>3 DEF Cleared
  <1>5. k \in Slot \ (live \ T) /\ CanAlloc({k}, Recycled(T), count)
    <2>1. Places(count, live \ T, Recycled(T))
      BY <1>4, FreedPlaces
    <2> QED BY <1>2, <2>1, FilledOne DEF Fill
  <1>6. issued' = issued \cup {n} /\ n \notin issued
    <2>1. Dated(count, Bump(T), Recycled(T), issued)
      <3>1. T \subseteq 0..(count - 1)
        BY <1>3, <1>4
      <3> QED BY <3>1, FreedDated
    <2>2. \A x \in issued : x.index \in {k} => x.generation # Bump(T)[x.index]
      BY <1>5, <2>1, FilledDated
    <2>3. issued' = issued \cup {[index |-> j, generation |-> f[j]] : j \in {k}}
      BY <1>2 DEF Fill
    <2> QED BY <1>1, <2>2, <2>3 DEF Named
  <1>7. Kids = KidsOf(links, live, gen) /\ Nodes = NamesOf(gen, live) /\ Leaves = NamesOf(gen, texts)
    BY MappedNow
  <1>8. Promise!Below(Kids, e) \ {e} = D
    <2>1. Promise!Below(Kids, e) = NamesOf(gen, S)
      BY <1>1, <1>2, <1>3, <1>7, BelowIs
    <2> QED BY <1>1, <2>1, NamesBelow
  <1>9. PICK V, W : V = live \ T /\ W = V \cup {k}
    OBVIOUS
  <1>10. /\ NamesOf(f, V) = NamesOf(gen, V) /\ NamesOf(f, texts \ T) = NamesOf(gen, texts \ T)
         /\ (\A j \in V : Named(f, j) = Named(gen, j))
         /\ \A c \in Seq(V) : NamedSeq(f, c) = NamedSeq(gen, c)
    <2>1. (\A j \in V : f[j] = gen[j]) /\ \A j \in texts \ T : f[j] = gen[j]
      <3>1. \A j \in V : f[j] = gen[j]
        BY <1>1, <1>4, <1>9, BumpNames
      <3>2. texts \subseteq live
        BY <1>3 DEF Good
      <3> QED BY <1>9, <3>1, <3>2
    <2>2. Alike(f, gen, V)
      BY <2>1, SameNames
    <2>3. Alike(f, gen, texts \ T)
      BY <2>1, SameNames
    <2> QED BY <2>2, <2>3 DEF Alike
  <1>11. NamesOf(gen, V) = Nodes \ D /\ NamesOf(gen, texts \ T) = Leaves \ D
    BY <1>1, <1>7, <1>9, NamesLess
  <1>12. Nodes' = (Nodes \ D) \cup {n} /\ Leaves' = (Leaves \ D) \cup {n}
    <2>1. Nodes' = NamesOf(f, W) /\ Leaves' = NamesOf(f, (texts \ T) \cup {k})
      BY <1>2, <1>9, MappedThen
    <2>2. NamesOf(f, W) = NamesOf(f, V) \cup {n}
          /\ NamesOf(f, (texts \ T) \cup {k}) = NamesOf(f, texts \ T) \cup {n}
      BY <1>1, <1>9 DEF NamesOf
    <2> QED BY <1>10, <1>11, <2>1, <2>2
  <1>13. Kids' = [x \in Nodes' |-> IF x = n THEN <<>> ELSE IF x = e THEN <<n>> ELSE Kids[x]]
    <2>1. PICK K : K = [x \in NamesOf(f, W) |-> IF x = n THEN <<>> ELSE IF x = e THEN <<n>> ELSE Kids[x]]
      OBVIOUS
    <2>2. PICK s : s = Chain(l, i)
      OBVIOUS
    <2>3. /\ Chain(m, i) = Put(s, Len(s), k) /\ Chain(m, k) = <<>> /\ s \in Seq(V) /\ s = <<>>
          /\ \A x \in V \ {i} : Chain(m, x) = Chain(l, x)
      <3>1. i \in V \ (texts \ T) /\ k \in Slot \ V /\ Good(l, V, texts \ T)
        BY <1>2, <1>4, <1>5, <1>9
      <3>2. m = LinkLast(l, i, k)
        BY <1>1
      <3>3. /\ Chain(m, i) = Put(s, Len(s), k) /\ Chain(m, k) = <<>> /\ s \in Seq(V)
            /\ \A x \in V \ {i} : Chain(m, x) = Chain(l, x)
        BY <2>2, <3>1, <3>2, AppendedChain
      <3> QED BY <1>4, <2>2, <3>3
    <2>4. \A j \in W : K[Named(f, j)] = NamedSeq(f, Chain(m, j))
      <3> SUFFICES ASSUME NEW j \in W PROVE K[Named(f, j)] = NamedSeq(f, Chain(m, j))
        OBVIOUS
      <3>1. Named(f, j) \in NamesOf(f, W)
        BY NamesApart
      <3>2. NamedSeq(f, <<>>) = <<>>
        BY DEF NamedSeq
      <3>3. CASE j = k
        BY <1>1, <2>1, <2>3, <3>1, <3>2, <3>3
      <3>4. CASE j = i
        <4>1. Named(f, j) # n /\ Named(f, j) = e
          <5>1. i \in V /\ i # k
            BY <1>4, <1>5, <1>9
          <5>2. Named(f, i) = Named(gen, i) /\ e = Named(gen, i) /\ n = Named(f, k)
            BY <1>1, <1>10, <5>1
          <5> QED BY <3>4, <5>1, <5>2, NamesApart
        <4>2. K[e] = <<n>>
          BY <2>1, <3>1, <4>1
        <4>3. NamedSeq(f, Put(s, Len(s), k)) = Append(NamedSeq(f, s), n)
          <5>1. n = Named(f, k)
            BY <1>1
          <5> QED BY <2>3, <5>1, PutName
        <4>4. Append(<<>>, n) = <<n>>
          OBVIOUS
        <4> QED BY <2>3, <3>2, <3>4, <4>1, <4>2, <4>3, <4>4
      <3>5. CASE j # k /\ j # i
        <4>1. j \in V /\ j \in live \ S /\ j \in live
          BY <1>1, <1>9, <3>5
        <4>2. Named(f, j) # n /\ Named(f, j) # e
          <5>1. i \in V
            BY <1>4, <1>9
          <5> QED BY <1>1, <1>10, <3>5, <4>1, <5>1, NamesApart
        <4>3. K[Named(f, j)] = Kids[Named(gen, j)]
          BY <1>10, <2>1, <3>1, <4>1, <4>2
        <4>4. Kids[Named(gen, j)] = NamedSeq(gen, Chain(links, j))
          BY <1>3, <1>7, <4>1, KidsAt
        <4>5. Chain(m, j) = Chain(l, j) /\ Chain(l, j) = Chain(links, j)
          BY <1>4, <2>3, <3>5, <4>1
        <4>6. Chain(l, j) \in Seq(V)
          <5>1. ChainOf(l, V, j, Chain(l, j))
            BY <1>4, <1>9, <4>1, ChainIs
          <5> QED BY <5>1 DEF ChainOf
        <4>7. NamedSeq(f, Chain(l, j)) = NamedSeq(gen, Chain(l, j))
          BY <1>10, <4>6
        <4> QED BY <4>3, <4>4, <4>5, <4>7
      <3> QED BY <3>3, <3>4, <3>5
    <2>5. K = [x \in NamesOf(f, W) |-> K[x]]
      BY <2>1
    <2>6. KidsOf(m, W, f) = K
      BY <2>4, <2>5, KidsAre
    <2>7. Kids' = K /\ Nodes' = NamesOf(f, W)
      BY <1>2, <1>9, <2>6, MappedThen
    <2> QED BY <2>1, <2>7
  <1>14. n \in issued' \ issued /\ e \in Nodes \ Leaves
    BY <1>1, <1>2, <1>6, <1>7, NamesApart
  <1> QED BY <1>6, <1>8, <1>12, <1>13, <1>14, Zenon DEF Promise!Clear

-----------------------------------------------------------------------------
(* Copies, by name.                                                        *)

\* A chain, copied.
CopySeq(copy, c) == [k \in DOMAIN c |-> copy[c[k]]]

\* The chain of a copy is the copy of the chain.
LEMMA CopyOfChain ==
  ASSUME NEW l, NEW V, NEW X, Good(l, V, X), NEW h \in V, NEW from, Below(l, V, h, from),
         NEW S \in SUBSET (Slot \ V), NEW m, NEW copy, Copied(l, m, h, from, S, copy),
         NEW Y, Good(m, V \cup S, Y), NEW x \in from, NEW c, c = Chain(l, x)
  PROVE  Chain(m, copy[x]) = CopySeq(copy, c) /\ c \in Seq(from)
  <1>0. PICK W : W = V \cup S
    OBVIOUS
  <1>1. from \subseteq V /\ Nil \notin V /\ Nil \notin S /\ V \subseteq Slot
    BY NilNoSlot DEF Below, Upwards, Good
  <1>2. Mirrored(l, m, h, from, copy)
    BY CopiedMirrors
  <1>3. /\ copy \in [from -> S] /\ (\A y, z \in from : copy[y] = copy[z] => y = z)
        /\ (\A i \in S : \E y \in from : copy[y] = i) /\ \A i \in Slot \ S : m[i] = l[i]
    BY DEF Copied
  <1>4. ChainOf(l, V, x, c)
    BY <1>1, ChainIs
  <1>5. PICK n \in Nat : n = Len(c)
    BY <1>4 DEF ChainOf
  <1>6. c \in Seq(V) /\ DOMAIN c = 1..n
    BY <1>4, <1>5 DEF ChainOf
  <1>7. \A k \in 1..n : c[k] \in from /\ l[c[k]].parent = x /\ c[k] # h
    <2> SUFFICES ASSUME NEW k \in 1..n PROVE c[k] \in from /\ l[c[k]].parent = x /\ c[k] # h
      OBVIOUS
    <2>1. c[k] \in V /\ l[c[k]].parent = x
      BY <1>4, <1>5, <1>6 DEF ChainOf
    <2>2. c[k] \in from
      BY <2>1 DEF Below, Downwards
    <2>3. l[h].parent \notin from
      BY NotBelowItself
    <2> QED BY <2>1, <2>2, <2>3
  <1>8. c \in Seq(from)
    <2>1. c \in [1..n -> from]
      BY <1>6, <1>7
    <2> QED BY <2>1
  <1>9. PICK d, y : d = CopySeq(copy, c) /\ y = copy[x]
    OBVIOUS
  <1>10. /\ d \in Seq(W) /\ Len(d) = n /\ (\A k \in 1..n : d[k] = copy[c[k]]) /\ y \in W /\ y \in S
    <2>1. \A k \in 1..n : copy[c[k]] \in W
      BY <1>0, <1>3, <1>7
    <2>2. d = [k \in 1..n |-> copy[c[k]]]
      BY <1>6, <1>9 DEF CopySeq
    <2>3. d \in [1..n -> W]
      BY <2>1, <2>2
    <2>4. d \in Seq(W) /\ Len(d) = n
      BY <1>5, <2>2, <2>3
    <2> QED BY <1>0, <1>3, <1>9, <2>2, <2>4
  <1>11. \A k \in 1..n : m[d[k]].parent = y /\ m[d[k]].prev = IF k = 1 THEN Nil ELSE d[k - 1]
    <2> SUFFICES ASSUME NEW k \in 1..n
                 PROVE  m[d[k]].parent = y /\ m[d[k]].prev = IF k = 1 THEN Nil ELSE d[k - 1]
      OBVIOUS
    <2>1. PICK z : z = c[k]
      OBVIOUS
    <2>2. z \in from /\ l[z].parent = x /\ z # h /\ d[k] = copy[z]
      BY <1>7, <1>10, <2>1
    <2>3. m[copy[z]].parent = y /\ m[copy[z]].prev = Image(from, copy, l[z].prev)
      BY <1>2, <1>9, <2>2 DEF Mirrored, Image
    <2>4. l[z].prev = IF k = 1 THEN Nil ELSE c[k - 1]
      BY <1>4, <1>5, <2>1 DEF ChainOf
    <2>5. CASE k = 1
      BY <1>1, <2>2, <2>3, <2>4, <2>5 DEF Image
    <2>6. CASE k # 1
      <3>1. k - 1 \in 1..n
        BY <2>6
      <3> QED BY <1>7, <1>10, <2>2, <2>3, <2>4, <2>6, <3>1 DEF Image
    <2> QED BY <2>5, <2>6
  <1>12. m[y].last = IF d = <<>> THEN Nil ELSE d[Len(d)]
    <2>1. m[y].last = Image(from, copy, l[x].last)
      BY <1>2, <1>9 DEF Mirrored
    <2>2. l[x].last = IF c = <<>> THEN Nil ELSE c[n]
      BY <1>4, <1>5 DEF ChainOf
    <2>3. CASE n = 0
      <3>1. c = <<>> /\ d = <<>>
        BY <1>5, <1>6, <1>10, <2>3
      <3> QED BY <1>1, <2>1, <2>2, <3>1 DEF Image
    <2>4. CASE n # 0
      <3>1. n \in 1..n /\ c # <<>> /\ d # <<>>
        BY <1>5, <1>10, <2>4
      <3> QED BY <1>7, <1>10, <2>1, <2>2, <3>1 DEF Image
    <2> QED BY <2>3, <2>4
  <1>13. ASSUME NEW w \in W, m[w].parent = y PROVE \E k \in 1..n : d[k] = w
    <2>1. w \in S
      <3>1. ASSUME w \in V PROVE FALSE
        <4>1. m[w] = l[w]
          BY <1>1, <1>3, <3>1
        <4>2. l[w].parent \in V \cup {Nil}
          BY <3>1 DEF Good, Within
        <4> QED BY <1>1, <1>10, <1>13, <4>1, <4>2
      <3> QED BY <1>0, <3>1
    <2>2. PICK z \in from : copy[z] = w
      BY <1>3, <2>1
    <2>3. m[w].parent = IF z = h THEN Nil ELSE Image(from, copy, l[z].parent)
      BY <1>2, <2>2 DEF Mirrored
    <2>4. l[z].parent \in from /\ copy[l[z].parent] = copy[x]
      BY <1>1, <1>9, <1>10, <1>13, <2>3 DEF Image
    <2>5. l[z].parent = x /\ z \in V
      BY <1>1, <1>3, <2>4
    <2>6. PICK k \in 1..n : c[k] = z
      BY <1>4, <1>5, <2>5 DEF ChainOf
    <2> QED BY <1>10, <2>2, <2>6
  <1>14. ChainOf(m, W, y, d)
    BY <1>10, <1>11, <1>12, <1>13 DEF ChainOf
  <1>15. Chain(m, y) = d
    <2>1. Good(m, W, Y)
      BY <1>0
    <2> QED BY <1>10, <1>14, <2>1, ChainEquals
  <1> QED BY <1>8, <1>9, <1>15

\* A copy leaves the other chains alone.
LEMMA CopyLeavesChain ==
  ASSUME NEW l, NEW V, NEW X, Good(l, V, X), NEW h, NEW from,
         NEW S \in SUBSET (Slot \ V), NEW m, NEW copy, Copied(l, m, h, from, S, copy),
         NEW Y, Good(m, V \cup S, Y), NEW x \in V
  PROVE  Chain(m, x) = Chain(l, x)
  <1>0. PICK W : W = V \cup S
    OBVIOUS
  <1>1. V \subseteq Slot /\ Nil \notin V /\ \A i \in V : m[i] = l[i]
    BY NilNoSlot DEF Copied, Good
  <1>2. \A z \in S : m[z].parent # x
    <2> SUFFICES ASSUME NEW z \in S PROVE m[z].parent # x
      OBVIOUS
    <2>1. PICK y \in from : copy[y] = z
      BY DEF Copied
    <2>2. m[z].parent = IF y = h THEN Nil ELSE Image(from, copy, l[y].parent)
      BY <2>1, CopiedMirrors DEF Mirrored
    <2>3. m[z].parent \in S \cup {Nil}
      BY <2>2 DEF Image, Copied
    <2> QED BY <1>1, <2>3
  <1>3. \A y \in W : m[y].parent = x => y \in V /\ l[y].parent = x
    BY <1>0, <1>1, <1>2
  <1>4. \A y \in V : l[y].parent = x => y \in W /\ m[y].parent = x /\ m[y].prev = l[y].prev
    BY <1>0, <1>1
  <1>5. x \in V \cap W /\ m[x].last = l[x].last /\ Good(m, W, Y)
    BY <1>0, <1>1
  <1> QED BY <1>3, <1>4, <1>5, ChainStays

\* The name of the copy of a node.
CopyName(g, from, copy) == [x \in NamesOf(g, from) |-> Named(g, copy[x.index])]

\* Copies have names of their own, one each.
LEMMA CopyNames ==
  ASSUME NEW g, NEW from, NEW S, NEW copy \in [from -> S],
         \A y, z \in from : copy[y] = copy[z] => y = z, \A i \in S : \E y \in from : copy[y] = i,
         NEW name, name = CopyName(g, from, copy)
  PROVE  /\ name \in Bijection(NamesOf(g, from), NamesOf(g, S))
         /\ \A i \in from : name[Named(g, i)] = Named(g, copy[i])
         /\ \A x, z \in NamesOf(g, from) : name[x] = name[z] => x = z
  <1>1. PICK A, B : A = NamesOf(g, from) /\ B = NamesOf(g, S)
    OBVIOUS
  <1>2. ASSUME NEW i \in from
        PROVE  Named(g, i) \in A /\ name[Named(g, i)] = Named(g, copy[i]) /\ Named(g, copy[i]) \in B
    <2>1. Named(g, i) \in A /\ Named(g, i).index = i
      BY <1>1, NamesApart
    <2>2. name[Named(g, i)] = Named(g, copy[i])
      BY <1>1, <2>1 DEF CopyName
    <2>3. copy[i] \in S
      OBVIOUS
    <2> QED BY <1>1, <2>1, <2>2, <2>3, NamesApart
  <1>3. \A x \in A : \E i \in from : x = Named(g, i)
    BY <1>1 DEF NamesOf
  <1>4. name = [x \in A |-> Named(g, copy[x.index])] /\ DOMAIN name = A
    BY <1>1 DEF CopyName
  <1>5. name \in [A -> B]
    <2>1. \A x \in A : name[x] \in B
      BY <1>2, <1>3
    <2> QED BY <1>4, <2>1
  <1>6. ASSUME NEW x \in A, NEW z \in A, name[x] = name[z] PROVE x = z
    <2>1. PICK i \in from : x = Named(g, i)
      BY <1>3
    <2>2. PICK j \in from : z = Named(g, j)
      BY <1>3
    <2>3. Named(g, copy[i]) = Named(g, copy[j])
      BY <1>2, <1>6, <2>1, <2>2
    <2>4. copy[i] = copy[j]
      BY <2>3, NamesApart
    <2> QED BY <2>1, <2>2, <2>4
  <1>7. ASSUME NEW b \in B PROVE \E x \in A : name[x] = b
    <2>1. PICK j \in S : b = Named(g, j)
      BY <1>1 DEF NamesOf
    <2>2. PICK i \in from : copy[i] = j
      OBVIOUS
    <2> QED BY <1>2, <2>1, <2>2
  <1>8. name \in Injection(A, B)
    BY <1>4, <1>5, <1>6 DEF Injection, IsInjective
  <1>9. name \in Surjection(A, B)
    BY <1>5, <1>7 DEF Surjection
  <1> QED BY <1>1, <1>2, <1>6, <1>8, <1>9 DEF Bijection

\* The name of each child, copied.
LEMMA CopySeqName ==
  ASSUME NEW g, NEW from, NEW c \in Seq(from), NEW copy, NEW name,
         \A i \in from : name[Named(g, i)] = Named(g, copy[i]),
         NEW a, a = NamedSeq(g, c)
  PROVE  [j \in DOMAIN a |-> name[a[j]]] = NamedSeq(g, CopySeq(copy, c))
  <1>1. DOMAIN a = DOMAIN c /\ \A j \in DOMAIN c : a[j] = Named(g, c[j]) /\ c[j] \in from
    BY DEF NamedSeq
  <1>2. PICK d : d = CopySeq(copy, c)
    OBVIOUS
  <1>3. DOMAIN d = DOMAIN c /\ \A j \in DOMAIN c : d[j] = copy[c[j]]
    BY <1>2 DEF CopySeq
  <1>4. \A j \in DOMAIN c : name[a[j]] = Named(g, d[j])
    BY <1>1, <1>3
  <1>5. [j \in DOMAIN a |-> name[a[j]]] = [j \in DOMAIN d |-> Named(g, d[j])]
    BY <1>1, <1>3, <1>4
  <1> QED BY <1>2, <1>5 DEF NamedSeq

\* A subtree is copied.
LEMMA DeepCloneForest ==
  ASSUME Linked, Past, NEW h, NEW S \in SUBSET Slot, DeepClone(h, S)
  PROVE  Promise!Copy
  <1>1. PICK m, i, from, W, Y : /\ m = links' /\ i = h.index /\ from = Subtree(links, i)
                                /\ W = live \cup S /\ Y = texts'
    OBVIOUS
  <1>2. PICK copy : Cloned(m, i, S, copy)
    BY <1>1, DeepCloneCopies
  <1>3. /\ i \in live \ {Root} /\ S \in SUBSET (Slot \ live) /\ Below(links, live, i, from)
        /\ Copied(links, m, i, from, S, copy)
        /\ live' = W /\ texts' = texts \cup {copy[x] : x \in from \cap texts}
    BY <1>1, <1>2 DEF Cloned
  <1>4. Good(links, live, texts) /\ Good(m, W, Y)
    <2>1. Linked'
      BY DeepCloneLinks
    <2> QED BY <1>1, <1>3, <2>1 DEF Linked
  <1>5. gen' = gen /\ Fill(S, free, count) /\ S # {}
    BY DEF DeepClone, Fill, CanAlloc
  <1>6. PICK D, E, e, name : /\ D = NamesOf(gen, from) /\ E = NamesOf(gen, S) /\ e = Named(gen, i)
                             /\ name = CopyName(gen, from, copy)
    OBVIOUS
  <1>7. issued' = issued \cup E /\ E \cap issued = {} /\ E # {}
    <2>1. issued' = issued \cup E /\ E \cap issued = {}
      BY <1>5, <1>6, FreshNames
    <2> QED BY <1>5, <1>6, <2>1 DEF NamesOf
  <1>8. issued' \ issued = E /\ issued # issued'
    BY <1>7
  <1>9. /\ copy \in [from -> S] /\ (\A y, z \in from : copy[y] = copy[z] => y = z)
        /\ \A j \in S : \E y \in from : copy[y] = j
    BY <1>3 DEF Copied
  <1>10. /\ name \in Bijection(D, E)
         /\ (\A j \in from : name[Named(gen, j)] = Named(gen, copy[j]))
         /\ \A x, z \in D : name[x] = name[z] => x = z
    BY <1>6, <1>9, CopyNames
  <1>11. Kids = KidsOf(links, live, gen) /\ Nodes = NamesOf(gen, live) /\ Leaves = NamesOf(gen, texts)
    BY MappedNow
  <1>12. Promise!Below(Kids, e) = D
    BY <1>3, <1>4, <1>6, <1>11, BelowIs
  <1>13. from \subseteq live /\ texts \subseteq live
    BY <1>3, <1>4 DEF Below, Upwards, Good
  <1>14. Nodes' = Nodes \cup E /\ Leaves' = Leaves \cup {name[x] : x \in D \cap Leaves}
    <2>1. Nodes' = NamesOf(gen, W)
          /\ Leaves' = NamesOf(gen, texts \cup {copy[x] : x \in from \cap texts})
      BY <1>3, <1>5, MappedThen
    <2>2. NamesOf(gen, W) = NamesOf(gen, live) \cup E
      BY <1>1, <1>6 DEF NamesOf
    <2>3. NamesOf(gen, {copy[x] : x \in from \cap texts}) = {name[x] : x \in D \cap Leaves}
      <3>1. D \cap Leaves = NamesOf(gen, from \cap texts)
        BY <1>6, <1>11, NamesApart DEF NamesOf
      <3>2. \A j \in from \cap texts : name[Named(gen, j)] = Named(gen, copy[j])
        BY <1>10
      <3> QED BY <3>1, <3>2 DEF NamesOf
    <2>4. NamesOf(gen, texts \cup {copy[x] : x \in from \cap texts})
          = NamesOf(gen, texts) \cup NamesOf(gen, {copy[x] : x \in from \cap texts})
      BY DEF NamesOf
    <2> QED BY <1>11, <2>1, <2>2, <2>3, <2>4
  <1> DEFINE Source(y) == CHOOSE z \in D : name[z] = y
  <1> DEFINE Twin(y) == [j \in DOMAIN Kids[Source(y)] |-> name[Kids[Source(y)][j]]]
  <1>15. ASSUME NEW j \in S PROVE Twin(Named(gen, j)) = NamedSeq(gen, Chain(m, j))
    <2>1. PICK x \in from : copy[x] = j
      BY <1>9
    <2>2. PICK z, c, a : z = Named(gen, x) /\ c = Chain(links, x) /\ a = NamedSeq(gen, c)
      OBVIOUS
    <2>3. z \in D /\ name[z] = Named(gen, j)
      BY <1>6, <1>10, <2>1, <2>2, NamesApart
    <2>4. Source(Named(gen, j)) = z
      BY <1>10, <2>3
    <2>5. Kids[z] = a
      BY <1>4, <1>11, <1>13, <2>2, KidsAt
    <2>6. Chain(m, copy[x]) = CopySeq(copy, c) /\ c \in Seq(from)
      <3>1. i \in live /\ Good(m, live \cup S, Y) /\ c = Chain(links, x)
        BY <1>1, <1>3, <1>4, <2>2
      <3>2. /\ S \in SUBSET (Slot \ live) /\ Below(links, live, i, from)
            /\ Copied(links, m, i, from, S, copy)
        BY <1>3
      <3> QED BY <1>4, <3>1, <3>2, CopyOfChain
    <2>7. [k \in DOMAIN a |-> name[a[k]]] = NamedSeq(gen, CopySeq(copy, c))
      BY <1>10, <2>2, <2>6, CopySeqName
    <2>8. Twin(Named(gen, j)) = [k \in DOMAIN Kids[z] |-> name[Kids[z][k]]]
      <3> HIDE DEF Source
      <3> QED BY <2>4
    <2> HIDE DEF Twin
    <2> QED BY <2>1, <2>5, <2>6, <2>7, <2>8
  <1>16. Kids' = [y \in Nodes' |-> IF y \in Nodes THEN Kids[y] ELSE Twin(y)]
    <2> HIDE DEF Twin
    <2>1. PICK K : K = [y \in NamesOf(gen, W) |-> IF y \in Nodes THEN Kids[y] ELSE Twin(y)]
      OBVIOUS
    <2>2. \A j \in W : K[Named(gen, j)] = NamedSeq(gen, Chain(m, j))
      <3> SUFFICES ASSUME NEW j \in W PROVE K[Named(gen, j)] = NamedSeq(gen, Chain(m, j))
        OBVIOUS
      <3>1. Named(gen, j) \in NamesOf(gen, W)
        BY NamesApart
      <3>2. CASE j \in live
        <4>1. Named(gen, j) \in Nodes
          BY <1>11, <3>2, NamesApart
        <4>2. Kids[Named(gen, j)] = NamedSeq(gen, Chain(links, j))
          BY <1>4, <1>11, <3>2, KidsAt
        <4>3. Chain(m, j) = Chain(links, j)
          <5>1. Good(m, live \cup S, Y)
            BY <1>1, <1>4
          <5> QED BY <1>3, <1>4, <3>2, <5>1, CopyLeavesChain
        <4> QED BY <2>1, <3>1, <4>1, <4>2, <4>3
      <3>3. CASE j \notin live
        <4>1. j \in S /\ Named(gen, j) \notin Nodes
          BY <1>1, <1>11, <3>3, NamesApart
        <4> QED BY <1>15, <2>1, <3>1, <4>1
      <3> QED BY <3>2, <3>3
    <2>3. K = [y \in NamesOf(gen, W) |-> K[y]]
      BY <2>1
    <2>4. KidsOf(m, W, gen) = K
      BY <2>2, <2>3, KidsAre
    <2>5. Kids' = K /\ Nodes' = NamesOf(gen, W)
      BY <1>1, <1>3, <1>5, <2>4, MappedThen
    <2> QED BY <2>1, <2>5
  <1>17. e \in {x \in Nodes \ {[index |-> Root, generation |-> 0]} : issued # issued'}
    BY <1>3, <1>6, <1>8, <1>11, NamesApart
  <1>18. name \in Promise!Bijection(D, issued' \ issued)
    BY <1>8, <1>10, Zenon DEF Promise!Bijection, Bijection, Promise!Injection, Injection,
                              Promise!Surjection, Surjection, Promise!IsInjective, IsInjective
  <1>19. issued \subseteq issued'
    BY <1>7
  <1>20. /\ Nodes' = Nodes \cup (issued' \ issued)
         /\ Leaves' = Leaves \cup {name[x] : x \in Promise!Below(Kids, e) \cap Leaves}
         /\ name \in Promise!Bijection(Promise!Below(Kids, e), issued' \ issued)
    <2> HIDE DEF Twin
    <2> QED BY <1>8, <1>12, <1>14, <1>18, Zenon
  <1>21. Kids' = [y \in Nodes' |->
                    IF y \in Nodes THEN Kids[y]
                    ELSE LET x == CHOOSE z \in Promise!Below(Kids, e) : name[z] = y
                         IN  [j \in DOMAIN Kids[x] |-> name[Kids[x][j]]]]
    <2>1. PICK B : B = Promise!Below(Kids, e)
      OBVIOUS
    <2>2. B = D
      BY <1>12, <2>1
    <2>3. Kids' = [y \in Nodes' |->
                    IF y \in Nodes THEN Kids[y]
                    ELSE LET x == CHOOSE z \in B : name[z] = y
                         IN  [j \in DOMAIN Kids[x] |-> name[Kids[x][j]]]]
      BY <1>16, <2>2
    <2> QED BY <2>1, <2>3
  <1> HIDE DEF Twin
  <1> QED BY <1>17, <1>19, <1>20, <1>21, Zenon DEF Promise!Copy

-----------------------------------------------------------------------------
(* The refinement.                                                         *)

\* Names, kinds and children stay when links and live generations do.
LEMMA ForestStays ==
  ASSUME Linked, UNCHANGED <<live, texts, links, issued>>, \A i \in live : gen'[i] = gen[i]
  PROVE  UNCHANGED <<Nodes, Leaves, Kids, issued>>
  <1>1. PICK f : f = gen'
    OBVIOUS
  <1>2. Good(links, live, texts) /\ (\A i \in live : f[i] = gen[i]) /\ \A i \in texts : f[i] = gen[i]
    BY <1>1 DEF Linked, Good
  <1>12. Alike(f, gen, live)
    BY <1>2, SameNames
  <1>13. Alike(f, gen, texts)
    BY <1>2, SameNames
  <1>3. NamesOf(f, texts) = NamesOf(gen, texts)
    BY <1>13 DEF Alike
  <1>4. NamesOf(f, live) = NamesOf(gen, live) /\ \A i \in live : Named(f, i) = Named(gen, i)
    BY <1>12 DEF Alike
  <1>5. \A c \in Seq(live) : NamedSeq(f, c) = NamedSeq(gen, c)
    BY <1>12 DEF Alike
  <1>6. PICK K : K = KidsOf(links, live, gen)
    OBVIOUS
  <1>7. \A i \in live : K[Named(f, i)] = NamedSeq(f, Chain(links, i))
    <2> SUFFICES ASSUME NEW i \in live PROVE K[Named(f, i)] = NamedSeq(f, Chain(links, i))
      OBVIOUS
    <2>1. ChainOf(links, live, i, Chain(links, i))
      BY <1>2, ChainIs
    <2>2. K[Named(gen, i)] = NamedSeq(gen, Chain(links, i))
      BY <1>2, <1>6, KidsAt
    <2> QED BY <1>4, <1>5, <2>1, <2>2 DEF ChainOf
  <1>8. K = [x \in NamesOf(f, live) |-> K[x]]
    BY <1>4, <1>6 DEF KidsOf
  <1>9. KidsOf(links, live, f) = K
    BY <1>7, <1>8, KidsAre
  <1>10. Nodes' = NamesOf(f, live) /\ Leaves' = NamesOf(f, texts) /\ Kids' = KidsOf(links, live, f)
    BY <1>1, MappedThen
  <1>11. Nodes = NamesOf(gen, live) /\ Leaves = NamesOf(gen, texts) /\ Kids = K
    BY <1>6, MappedNow
  <1> QED BY <1>3, <1>4, <1>9, <1>10, <1>11

\* The document alone is the first forest.
LEMMA StartsForest ==
  ASSUME Init
  PROVE  Promise!Init
  <1>1. PICK e : e = [index |-> Root, generation |-> 0]
    OBVIOUS
  <1>2. Linked
    BY StartsLinked
  <1>3. /\ live = {Root} /\ texts = {} /\ issued = {e} /\ Root \in Slot
        /\ gen[Root] = 0 /\ links[Root] = Blank
    <2>1. Root \in Slot
      BY <1>2 DEF Linked, Good
    <2> QED BY <1>1, <2>1 DEF Init
  <1>4. Named(gen, Root) = e
    BY <1>1, <1>3 DEF Named
  <1>5. Nodes = {e} /\ Leaves = {}
    BY <1>3, <1>4, MappedNow DEF NamesOf
  <1>6. Chain(links, Root) = <<>>
    <2>1. PICK c : c = <<>>
      OBVIOUS
    <2>2. c \in Seq(live) /\ Len(c) = 0
      BY <2>1
    <2>3. links[Root].last = Nil /\ links[Root].parent # Root
      BY <1>3 DEF Blank, Root, Nil
    <2>4. ChainOf(links, live, Root, c)
      BY <1>3, <2>1, <2>2, <2>3 DEF ChainOf
    <2> QED BY <1>2, <1>3, <2>1, <2>4, ChainEquals DEF Linked
  <1>7. Kids = [x \in {e} |-> <<>>]
    <2>1. PICK K : K = [x \in {e} |-> <<>>]
      OBVIOUS
    <2>2. K = [x \in NamesOf(gen, live) |-> K[x]]
      BY <1>5, <2>1, MappedNow
    <2>3. NamedSeq(gen, <<>>) = <<>>
      BY DEF NamedSeq
    <2>4. \A i \in live : K[Named(gen, i)] = NamedSeq(gen, Chain(links, i))
      BY <1>3, <1>4, <1>6, <2>1, <2>3
    <2>5. KidsOf(links, live, gen) = K
      BY <2>2, <2>4, KidsAre
    <2> QED BY <2>1, <2>5, MappedNow
  <1> QED BY <1>1, <1>3, <1>5, <1>7, Zenon DEF Promise!Init

\* Each call is a step of the forest or none.
LEMMA StepForest ==
  ASSUME Linked, Past, [Next]_vars
  PROVE  [Promise!Next]_Promise!vars
  <1>0. UNCHANGED <<Nodes, Leaves, Kids, issued>> => UNCHANGED Promise!vars
    BY DEF Promise!vars
  <1>1. CASE \E i \in Slot, text \in BOOLEAN : Create(i, text)
    BY <1>1, CreateForest DEF Promise!Next
  <1>2. CASE \E p \in issued, i \in Slot, text \in BOOLEAN : AppendNew(p, i, text)
    BY <1>2, AppendNewForest DEF Promise!Next
  <1>3. CASE \E h \in issued, list \in Batches :
               \/ AppendChildren(h, list) \/ PrependChildren(h, list)
               \/ InsertBefore(h, list) \/ InsertAfter(h, list)
    BY <1>3, BatchCallsSplice DEF Promise!Next
  <1>4. CASE \E h \in issued, list \in Batches : ReplaceWith(h, list)
    BY <1>4, ReplaceWithSplices DEF Promise!Next
  <1>5. CASE \E h \in issued : Detach(h)
    BY <1>5, DetachSplices DEF Promise!Next
  <1>6. CASE \E h \in issued : RemoveNode(h)
    BY <1>6, RemoveNodeForest DEF Promise!Next
  <1>7. CASE \E h \in issued : ClearChildren(h)
    BY <1>7, ClearChildrenForest DEF Promise!Next
  <1>8. CASE \E h \in issued, i \in Slot : SetTextContent(h, i)
    BY <1>8, SetTextContentForest DEF Promise!Next
  <1>9. CASE \E h \in issued, S \in SUBSET Slot : DeepClone(h, S)
    BY <1>9, DeepCloneForest DEF Promise!Next
  <1>10. CASE \E S \in SUBSET Slot : FailBuild(S)
    <2>1. PICK S \in SUBSET Slot : FailBuild(S)
      BY <1>10
    <2>2. S \subseteq Slot \ live
      BY <2>1, FilledPlaces DEF FailBuild, Linked
    <2>3. \A i \in live : gen'[i] = gen[i]
      BY <2>1, <2>2 DEF FailBuild, Bump, Linked, Good
    <2>4. UNCHANGED <<live, texts, links, issued>>
      BY <2>1 DEF FailBuild
    <2>5. UNCHANGED <<Nodes, Leaves, Kids, issued>>
      BY <2>3, <2>4, ForestStays
    <2> QED BY <1>0, <2>5
  <1>11. CASE PrepareOrder \/ UNCHANGED vars
    <2>1. UNCHANGED <<live, texts, links, issued, gen>>
      BY <1>11 DEF PrepareOrder, vars
    <2>2. UNCHANGED <<Nodes, Leaves, Kids, issued>>
      BY <2>1, ForestStays
    <2> QED BY <1>0, <2>2
  <1> QED
    BY <1>1, <1>2, <1>3, <1>4, <1>5, <1>6, <1>7, <1>8, <1>9, <1>10, <1>11 DEF Next

\* Whatever the calls, the slots are an ordered forest: a name is given to one node only, and
\* every call moves exactly the nodes it says, subtrees with them.
THEOREM ForestKept == Spec => KeepsForest
  <1>1. Init => Promise!Init /\ Linked /\ Past
    BY StartsForest, StartsLinked, StartsDated
  <1>2. Linked /\ Past /\ [Next]_vars => (Linked /\ Past)' /\ [Promise!Next]_Promise!vars
    BY StepLinks, StepKeeps, StepForest DEF Kept
  <1> QED
    BY <1>1, <1>2, PTL DEF Spec, KeepsForest, Promise!Spec
=============================================================================

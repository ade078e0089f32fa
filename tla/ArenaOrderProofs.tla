-------------------------- MODULE ArenaOrderProofs --------------------------
(***************************************************************************)
(* Proofs about what the readers of Arena compute, for any capacity, any   *)
(* last generation and lists of any length.                                *)
(*                                                                         *)
(* Document order: a strict order of each tree, made of what is below what *)
(* and of which child comes first.  One step of a walk leads to the next   *)
(* node of that order, so a walk yields all of it; the cached numbers are  *)
(* those of the tree as it is; and the slow comparison climbs to the two   *)
(* siblings, or roots, below which the order is decided.                   *)
(***************************************************************************)
EXTENDS ArenaProofs

\* An ordered forest over V: what is below each node, its children, and its root.
Ordered(V, kids, below, root) ==
  /\ kids \in [V -> Seq(V)] /\ below \in [V -> SUBSET V] /\ root \in [V -> V]
  /\ \A a \in V : a \in below[a]
  /\ \A a \in V : \A b \in below[a] : below[b] \subseteq below[a] /\ root[b] = root[a]
  /\ \A a \in V : \A b \in below[a] : b # a => \E j \in 1..Len(kids[a]) : b \in below[kids[a][j]]
  /\ \A a \in V : \A j \in 1..Len(kids[a]) :
       kids[a][j] \in V /\ kids[a][j] \in below[a] /\ a \notin below[kids[a][j]]
  /\ \A a \in V : \A j, k \in 1..Len(kids[a]) :
       \A x \in V : x \in below[kids[a][j]] /\ x \in below[kids[a][k]] => j = k
  /\ \A a, b, x \in V : x \in below[a] /\ x \in below[b] => a \in below[b] \/ b \in below[a]
  /\ \A a, b \in V : root[a] = root[b] /\ a \notin below[b] /\ b \notin below[a] =>
       \E p \in V : \E j, k \in 1..Len(kids[p]) :
          j # k /\ a \in below[kids[p][j]] /\ b \in below[kids[p][k]]

\* b is in a sibling after the one a is in; b comes after a in their tree.
Splits(V, kids, below, a, b) ==
  \E p \in V : \E j, k \in 1..Len(kids[p]) :
     j < k /\ a \in below[kids[p][j]] /\ b \in below[kids[p][k]]
Leads(V, kids, below, a, b) == (a # b /\ b \in below[a]) \/ Splits(V, kids, below, a, b)

\* Nodes of one tree are in order.
LEMMA LeadsTotal ==
  ASSUME NEW V, NEW kids, NEW below, NEW root, Ordered(V, kids, below, root),
         NEW a \in V, NEW b \in V, root[a] = root[b]
  PROVE  a = b \/ Leads(V, kids, below, a, b) \/ Leads(V, kids, below, b, a)
  <1>1. CASE a \in below[b] \/ b \in below[a]
    BY <1>1 DEF Leads
  <1>2. CASE a \notin below[b] /\ b \notin below[a]
    <2>1. PICK p \in V : \E j, k \in 1..Len(kids[p]) :
                 j # k /\ a \in below[kids[p][j]] /\ b \in below[kids[p][k]]
      BY <1>2 DEF Ordered
    <2>2. PICK j \in 1..Len(kids[p]), k \in 1..Len(kids[p]) :
                 j # k /\ a \in below[kids[p][j]] /\ b \in below[kids[p][k]]
      BY <2>1
    <2>3. j < k \/ k < j
      BY <2>2
    <2> QED BY <2>2, <2>3 DEF Leads, Splits
  <1> QED
    BY <1>1, <1>2

\* What is below a sibling is not below another, nor below the parent's other ancestors' siblings.
LEMMA LeadsInTree ==
  ASSUME NEW V, NEW kids, NEW below, NEW root, Ordered(V, kids, below, root),
         NEW a \in V, NEW b \in V, Leads(V, kids, below, a, b)
  PROVE  root[a] = root[b]
  <1>1. CASE b \in below[a]
    BY <1>1 DEF Ordered
  <1>2. CASE Splits(V, kids, below, a, b)
    <2>1. PICK p \in V : \E j, k \in 1..Len(kids[p]) :
                 j < k /\ a \in below[kids[p][j]] /\ b \in below[kids[p][k]]
      BY <1>2 DEF Splits
    <2>2. PICK j \in 1..Len(kids[p]), k \in 1..Len(kids[p]) :
                 j < k /\ a \in below[kids[p][j]] /\ b \in below[kids[p][k]]
      BY <2>1
    <2>3. /\ kids[p][j] \in V /\ kids[p][j] \in below[p]
          /\ kids[p][k] \in V /\ kids[p][k] \in below[p]
      BY DEF Ordered
    <2>4. root[a] = root[p] /\ root[b] = root[p]
      BY <2>2, <2>3 DEF Ordered
    <2> QED BY <2>4
  <1> QED
    BY <1>1, <1>2 DEF Leads

\* Siblings split: a is below one, b below a later one, and neither is above the other.
LEMMA SplitApart ==
  ASSUME NEW V, NEW kids, NEW below, NEW root, Ordered(V, kids, below, root),
         NEW a \in V, NEW b \in V, NEW p \in V,
         NEW j \in 1..Len(kids[p]), NEW k \in 1..Len(kids[p]), j # k,
         a \in below[kids[p][j]], b \in below[kids[p][k]]
  PROVE  a \notin below[b] /\ b \notin below[a] /\ a # b
  <1>1. kids[p][j] \in V /\ kids[p][k] \in V
    BY DEF Ordered
  <1>2. below[a] \subseteq below[kids[p][j]] /\ below[b] \subseteq below[kids[p][k]]
    BY <1>1 DEF Ordered
  <1>3. \A x \in V : ~(x \in below[kids[p][j]] /\ x \in below[kids[p][k]])
    BY DEF Ordered
  <1> QED
    BY <1>2, <1>3

\* An ancestor of a node in a child of p that is not p or above it is in that child.
LEMMA BelowChild ==
  ASSUME NEW V, NEW kids, NEW below, NEW root, Ordered(V, kids, below, root),
         NEW p \in V, NEW j \in 1..Len(kids[p]), NEW x \in V, x \in below[kids[p][j]],
         NEW q \in V, x \in below[q]
  PROVE  \/ q \in below[kids[p][j]]
         \/ p \in below[q]
  <1>1. kids[p][j] \in V
    BY DEF Ordered
  <1>2. q \in below[kids[p][j]] \/ kids[p][j] \in below[q]
    BY <1>1 DEF Ordered
  <1>3. CASE q \notin below[kids[p][j]] /\ q # p
    <2>1. x \in below[p]
      BY <1>1 DEF Ordered
    <2>2. q \in below[p] \/ p \in below[q]
      BY <2>1 DEF Ordered
    <2>3. CASE q \in below[p]
      <3>1. PICK k \in 1..Len(kids[p]) : q \in below[kids[p][k]]
        BY <1>3, <2>3 DEF Ordered
      <3>2. kids[p][k] \in V /\ x \in below[kids[p][k]]
        BY <3>1 DEF Ordered
      <3>3. k = j
        BY <3>2 DEF Ordered
      <3> QED BY <1>3, <3>1, <3>3
    <2> QED BY <2>2, <2>3
  <1>4. p \in below[p]
    BY DEF Ordered
  <1> QED
    BY <1>3, <1>4

\* The order of a tree is transitive.
LEMMA LeadsTransitive ==
  ASSUME NEW V, NEW kids, NEW below, NEW root, Ordered(V, kids, below, root),
         NEW a \in V, NEW b \in V, NEW c \in V,
         Leads(V, kids, below, a, b), Leads(V, kids, below, b, c)
  PROVE  Leads(V, kids, below, a, c)
  <1>0. \A x \in V : \A y \in below[x] : y \in V /\ below[y] \subseteq below[x]
    BY DEF Ordered
  <1>1. CASE b \in below[a] /\ a # b /\ c \in below[b] /\ b # c
    <2>1. c \in below[a]
      BY <1>0, <1>1
    <2>2. PICK j \in 1..Len(kids[a]) : b \in below[kids[a][j]]
      BY <1>1 DEF Ordered
    <2>3. a \notin below[kids[a][j]] /\ kids[a][j] \in V
      BY DEF Ordered
    <2>4. c # a
      BY <1>0, <1>1, <2>2, <2>3
    <2> QED BY <2>1, <2>4 DEF Leads
  <1>2. CASE b \in below[a] /\ a # b /\ Splits(V, kids, below, b, c)
    <2>1. PICK p \in V : \E j, k \in 1..Len(kids[p]) :
                 j < k /\ b \in below[kids[p][j]] /\ c \in below[kids[p][k]]
      BY <1>2 DEF Splits
    <2>2. PICK j \in 1..Len(kids[p]), k \in 1..Len(kids[p]) :
                 j < k /\ b \in below[kids[p][j]] /\ c \in below[kids[p][k]]
      BY <2>1
    <2>3. kids[p][k] \in V /\ kids[p][k] \in below[p] /\ p \notin below[kids[p][k]]
      BY DEF Ordered
    <2>4. a \in below[kids[p][j]] \/ p \in below[a]
      BY <1>2, <2>2, BelowChild
    <2>5. CASE a \in below[kids[p][j]]
      BY <2>2, <2>5 DEF Leads, Splits
    <2>6. CASE p \in below[a]
      <3>1. c \in below[a]
        BY <1>0, <2>2, <2>3, <2>6
      <3>2. c # a
        BY <1>0, <2>2, <2>3, <2>6
      <3> QED BY <3>1, <3>2 DEF Leads
    <2> QED BY <2>4, <2>5, <2>6
  <1>3. CASE Splits(V, kids, below, a, b) /\ c \in below[b]
    <2>1. PICK p \in V : \E j, k \in 1..Len(kids[p]) :
                 j < k /\ a \in below[kids[p][j]] /\ b \in below[kids[p][k]]
      BY <1>3 DEF Splits
    <2>2. PICK j \in 1..Len(kids[p]), k \in 1..Len(kids[p]) :
                 j < k /\ a \in below[kids[p][j]] /\ b \in below[kids[p][k]]
      BY <2>1
    <2>3. kids[p][k] \in V
      BY DEF Ordered
    <2>4. c \in below[kids[p][k]]
      BY <1>0, <1>3, <2>2, <2>3
    <2> QED BY <2>2, <2>4 DEF Leads, Splits
  <1>4. CASE Splits(V, kids, below, a, b) /\ Splits(V, kids, below, b, c)
    <2>1. PICK p \in V : \E j, k \in 1..Len(kids[p]) :
                 j < k /\ a \in below[kids[p][j]] /\ b \in below[kids[p][k]]
      BY <1>4 DEF Splits
    <2>2. PICK j \in 1..Len(kids[p]), k \in 1..Len(kids[p]) :
                 j < k /\ a \in below[kids[p][j]] /\ b \in below[kids[p][k]]
      BY <2>1
    <2>3. PICK q \in V : \E m, n \in 1..Len(kids[q]) :
                 m < n /\ b \in below[kids[q][m]] /\ c \in below[kids[q][n]]
      BY <1>4 DEF Splits
    <2>4. PICK m \in 1..Len(kids[q]), n \in 1..Len(kids[q]) :
                 m < n /\ b \in below[kids[q][m]] /\ c \in below[kids[q][n]]
      BY <2>3
    <2>5. /\ kids[p][j] \in V /\ kids[p][k] \in V /\ kids[q][m] \in V /\ kids[q][n] \in V
          /\ kids[p][j] \in below[p] /\ kids[p][k] \in below[p] 
          /\ kids[q][m] \in below[q] /\ kids[q][n] \in below[q]
      BY DEF Ordered
    <2>6. b \in below[q] /\ b \in below[p]
      BY <1>0, <2>2, <2>4, <2>5
    <2>7. q \in below[kids[p][k]] \/ p \in below[q]
      BY <2>2, <2>6, BelowChild
    <2>8. p \in below[kids[q][m]] \/ q \in below[p]
      BY <2>4, <2>6, BelowChild
    <2>9. CASE q \in below[kids[p][k]]
      <3>1. c \in below[kids[p][k]]
        BY <1>0, <2>4, <2>5, <2>9
      <3> QED BY <2>2, <3>1 DEF Leads, Splits
    <2>10. CASE p \in below[kids[q][m]]
      <3>1. a \in below[kids[q][m]]
        BY <1>0, <2>2, <2>5, <2>10
      <3> QED BY <2>4, <3>1 DEF Leads, Splits
    <2>11. CASE p \in below[q] /\ q \in below[p]
      <3>1. p = q
        <4> SUFFICES ASSUME p # q PROVE FALSE
          OBVIOUS
        <4>1. PICK i \in 1..Len(kids[p]) : q \in below[kids[p][i]]
          BY <2>11 DEF Ordered
        <4>2. kids[p][i] \in V /\ p \notin below[kids[p][i]]
          BY DEF Ordered
        <4> QED BY <1>0, <2>11, <4>1, <4>2
      <3>2. m = k
        BY <2>2, <2>4, <3>1 DEF Ordered
      <3>3. j < n
        BY <2>2, <2>4, <3>1, <3>2
      <3> QED BY <2>2, <2>4, <3>1, <3>3 DEF Leads, Splits
    <2> QED BY <2>7, <2>8, <2>9, <2>10, <2>11
  <1> QED
    BY <1>1, <1>2, <1>3, <1>4 DEF Leads

\* No node comes before itself.
LEMMA LeadsOnce ==
  ASSUME NEW V, NEW kids, NEW below, NEW root, Ordered(V, kids, below, root), NEW a \in V
  PROVE  ~Leads(V, kids, below, a, a)
  <1> SUFFICES ASSUME Splits(V, kids, below, a, a) PROVE FALSE
    BY DEF Leads
  <1>1. PICK p \in V : \E j, k \in 1..Len(kids[p]) :
                 j < k /\ a \in below[kids[p][j]] /\ a \in below[kids[p][k]]
    BY DEF Splits
  <1>2. PICK j \in 1..Len(kids[p]), k \in 1..Len(kids[p]) :
                 j < k /\ a \in below[kids[p][j]] /\ a \in below[kids[p][k]]
    BY <1>1
  <1>3. j # k
    BY <1>2
  <1> QED
    BY <1>2, <1>3, SplitApart

\* What is below h is in every set that holds h and, with a node, its children.
LEMMA BelowSmallest ==
  ASSUME NEW l, NEW V, NEW X, Good(l, V, X), NEW h \in V, NEW S, Below(l, V, h, S),
         NEW D, h \in D, Downwards(l, V, D)
  PROVE  S \subseteq D
  <1> DEFINE W == {x \in S : x \notin D}
  <1>1. S \subseteq V /\ V \subseteq Slot /\ \A x \in S \ {h} : l[x].parent \in S
    BY DEF Below, Upwards, Good
  <1>2. ASSUME NEW x \in W PROVE l[x].parent \in W
    <2>1. x \in S /\ x # h /\ x \in V /\ x \notin D
      BY <1>1
    <2>2. l[x].parent \in S
      BY <1>1, <2>1
    <2>3. l[x].parent \notin D
      BY <2>1 DEF Downwards
    <2> QED BY <2>2, <2>3
  <1>3. W # {} => \E x \in W : l[x]["parent"] \notin W
    <2>1. W \in SUBSET Slot
      BY <1>1
    <2> HIDE DEF W
    <2> QED BY <2>1 DEF Good, NoCycle
  <1>4. W = {}
    BY <1>2, <1>3
  <1> QED
    BY <1>4

\* Two nodes with a node below both: one is below the other.
LEMMA BelowNested ==
  ASSUME NEW l, NEW V, NEW X, Good(l, V, X), NEW a \in V, NEW S, Below(l, V, a, S),
         NEW b \in V, NEW T, Below(l, V, b, T), NEW x, x \in S, x \in T
  PROVE  a \in T \/ b \in S
  <1> SUFFICES ASSUME a \notin T, b \notin S PROVE FALSE
    OBVIOUS
  <1>1. /\ S \subseteq V /\ T \subseteq V /\ V \subseteq Slot
        /\ \A y \in S \ {a} : l[y].parent \in S
        /\ \A y \in T \ {b} : l[y].parent \in T
    BY DEF Below, Upwards, Good
  <1> DEFINE W == S \cap T
  <1>2. \A y \in W : l[y].parent \in W
    BY <1>1
  <1>3. W \in SUBSET Slot /\ W # {}
    BY <1>1
  <1>4. \E y \in W : l[y]["parent"] \notin W
    <2> HIDE DEF W
    <2> QED BY <1>3 DEF Good, NoCycle
  <1> QED
    BY <1>2, <1>4

\* The trail of parents from i: the nodes i is below.
LEMMA TrailAbove ==
  ASSUME NEW l, NEW V, NEW X, Good(l, V, X), V \subseteq 0..(count - 1), NEW i \in V
  PROVE  \A a : a \in Trail(l, i, "parent") <=> a \in V /\ i \in Subtree(l, a)
  <1>0. /\ V \subseteq Slot /\ Nil \notin Slot /\ Typed(l) /\ i # Nil /\ i \in Link
        /\ NoCycle(l, "parent") /\ "parent" \in {"parent", "next", "last"} /\ Within(l, V)
    BY NilNoSlot DEF Good, Link
  <1> DEFINE T == Trail(l, i, "parent")
  <1>1. /\ i \in T /\ T \subseteq Slot
        /\ \A x \in T : l[x]["parent"] \in T \cup {Nil}
    BY <1>0, TrailClosed
  <1>2. ASSUME NEW a \in V PROVE Below(l, V, a, Subtree(l, a))
    BY SubtreeBelow
  <1>3. ASSUME NEW a \in V, i \in Subtree(l, a) PROVE a \in T
    <2> DEFINE W == {y \in Subtree(l, a) : y \in T}
    <2>1. /\ Subtree(l, a) \subseteq V
          /\ \A x \in Subtree(l, a) \ {a} : l[x].parent \in Subtree(l, a)
      BY <1>2 DEF Below, Upwards
    <2>2. W \in SUBSET Slot /\ W # {}
      BY <1>0, <1>1, <1>3, <2>1
    <2>3. \E y \in W : l[y]["parent"] \notin W
      <3> HIDE DEF W
      <3> QED BY <1>0, <2>2 DEF NoCycle
    <2>4. PICK y \in W : l[y].parent \notin W
      BY <2>3
    <2>5. y \in Subtree(l, a) /\ y \in T
      BY <2>4
    <2>6. y = a
      <3> SUFFICES ASSUME y # a PROVE FALSE
        OBVIOUS
      <3>1. l[y].parent \in Subtree(l, a) /\ l[y].parent \in T \cup {Nil}
        BY <1>1, <2>1, <2>5
      <3> QED BY <1>0, <2>1, <2>4, <3>1
    <2> QED BY <2>5, <2>6
  <1>4. ASSUME NEW a \in T PROVE a \in V /\ i \in Subtree(l, a)
    <2>1. PICK at : at = Steps(l, i, "parent")
      OBVIOUS
    <2>2. IsWalk(at, Capacity, l, i, "parent")
      BY <2>1, StepsAre
    <2>3. Walked(at, l, i, "parent")
      BY <1>0, <2>2, WalkTyped
    <2>4. /\ Capacity \in Nat /\ at[0] = i /\ DOMAIN at = 0..Capacity
          /\ \A n \in 1..Capacity : at[n] = StepOn(l, "parent", at[n - 1])
      BY <2>3, SlotsCount DEF Walked
    <2>5. \A n \in 0..Capacity : at[n] \in V \cup {Nil}
      BY <2>3, WalkUp
    <2> DEFINE S == {n \in Nat : n <= Capacity /\ at[n] # Nil => i \in Subtree(l, at[n])}
    <2>6. 0 \in S
      <3>1. i \in Subtree(l, i)
        BY <1>2 DEF Below, Upwards
      <3> QED BY <2>4, <3>1
    <2>7. ASSUME NEW n \in Nat, n \in S PROVE n + 1 \in S
      <3> SUFFICES ASSUME n + 1 <= Capacity, at[n + 1] # Nil PROVE i \in Subtree(l, at[n + 1])
        OBVIOUS
      <3>1. n + 1 \in 1..Capacity /\ (n + 1) - 1 = n /\ n \in 0..Capacity /\ n + 1 \in 0..Capacity
        BY <2>4
      <3>2. at[n + 1] = StepOn(l, "parent", at[n])
        BY <2>4, <3>1
      <3>3. at[n] # Nil /\ at[n + 1] = l[at[n]].parent
        BY <3>2 DEF StepOn
      <3>4. at[n] \in V /\ at[n + 1] \in V
        BY <2>5, <3>1, <3>3
      <3>5. i \in Subtree(l, at[n])
        BY <2>7, <3>1, <3>3
      <3>6. at[n] \in Subtree(l, at[n + 1])
        BY <1>2, <3>3, <3>4 DEF Below, Upwards, Downwards
      <3>7. Subtree(l, at[n]) \subseteq Subtree(l, at[n + 1])
        <4>1. Below(l, V, at[n], Subtree(l, at[n])) /\ Below(l, V, at[n + 1], Subtree(l, at[n + 1]))
          BY <1>2, <3>4
        <4> QED BY <3>4, <3>6, <4>1, BelowSmallest DEF Below
      <3> QED BY <3>5, <3>7
    <2>8. Nat \subseteq S
      <3> HIDE DEF S
      <3> QED BY <2>6, <2>7, Induction
    <2>9. PICK n \in 0..Capacity : a = at[n] /\ a # Nil
      BY <2>1, <2>4 DEF Trail, ToSet
    <2> QED BY <2>5, <2>8, <2>9
  <1> QED
    BY <1>3, <1>4

\* The root of a node.
LEMMA RootIs ==
  ASSUME NEW l, NEW V, NEW X, Good(l, V, X), V \subseteq 0..(count - 1), NEW i \in V
  PROVE  /\ RootOf(l, i) \in V /\ l[RootOf(l, i)].parent = Nil /\ i \in Subtree(l, RootOf(l, i))
         /\ \A r \in V : l[r].parent = Nil /\ i \in Subtree(l, r) => r = RootOf(l, i)
  <1>0. /\ V \subseteq Slot /\ Nil \notin Slot /\ Typed(l) /\ i # Nil /\ i \in Link
        /\ NoCycle(l, "parent") /\ "parent" \in {"parent", "next", "last"}
    BY NilNoSlot DEF Good, Link
  <1>1. PICK T : T = Trail(l, i, "parent")
    OBVIOUS
  <1>2. \A a : a \in T <=> a \in V /\ i \in Subtree(l, a)
    BY <1>1, TrailAbove
  <1>3. \E r \in T : l[r].parent = Nil
    <2>1. i \in T /\ T \subseteq Slot /\ \A x \in T : l[x]["parent"] \in T \cup {Nil}
      BY <1>0, <1>1, TrailClosed
    <2>2. \E r \in T : l[r]["parent"] \notin T
      BY <1>0, <2>1 DEF NoCycle
    <2> QED BY <2>1, <2>2
  <1>4. ASSUME NEW r \in T, l[r].parent = Nil, NEW s \in T, l[s].parent = Nil PROVE r = s
    <2>1. r \in V /\ s \in V /\ i \in Subtree(l, r) /\ i \in Subtree(l, s)
      BY <1>2
    <2>2. Below(l, V, r, Subtree(l, r)) /\ Below(l, V, s, Subtree(l, s))
      BY <2>1, SubtreeBelow
    <2>3. r \in Subtree(l, s) \/ s \in Subtree(l, r)
      BY <2>1, <2>2, BelowNested
    <2>4. Nil \notin V
      BY <1>0
    <2> QED BY <1>4, <2>2, <2>3, <2>4 DEF Below, Upwards
  <1>5. RootOf(l, i) = CHOOSE r \in T : l[r].parent = Nil
    BY <1>1 DEF RootOf
  <1>6. RootOf(l, i) \in T /\ l[RootOf(l, i)].parent = Nil
    BY <1>3, <1>5
  <1> QED
    BY <1>2, <1>4, <1>6

\* The functions ReadsInOrder speaks of.
KidsIn(l, V) == [i \in V |-> Chain(l, i)]
BelowIn(l, V) == [i \in V |-> Subtree(l, i)]
RootsIn(l, V) == [i \in V |-> RootOf(l, i)]

\* The children of p, and what is below them.
LEMMA BelowKids ==
  ASSUME NEW l, NEW V, NEW X, Good(l, V, X), V \subseteq 0..(count - 1), NEW p \in V,
         NEW b \in Subtree(l, p), b # p
  PROVE  \E j \in 1..Len(Chain(l, p)) : b \in Subtree(l, Chain(l, p)[j])
  <1>0. ChainOf(l, V, p, Chain(l, p))
    BY ChainIs
  <1>1. PICK c : c = Chain(l, p)
    OBVIOUS
  <1>2. /\ \A k \in 1..Len(c) : c[k] \in V /\ l[c[k]].parent = p
        /\ \A y \in V : l[y].parent = p => \E k \in 1..Len(c) : c[k] = y
    BY <1>0, <1>1 DEF ChainOf
  <1>3. \A a \in V : Below(l, V, a, Subtree(l, a))
    BY SubtreeBelow
  <1> DEFINE D == {p} \cup UNION {Subtree(l, c[k]) : k \in 1..Len(c)}
  <1>4. ASSUME NEW y \in V, l[y].parent \in D PROVE y \in D
    <2>1. CASE l[y].parent = p
      <3>1. PICK k \in 1..Len(c) : c[k] = y
        BY <1>2, <2>1
      <3>2. y \in Subtree(l, y)
        BY <1>3 DEF Below, Upwards
      <3> QED BY <3>1, <3>2
    <2>2. CASE l[y].parent # p
      <3>1. PICK k \in 1..Len(c) : l[y].parent \in Subtree(l, c[k])
        BY <1>4, <2>2
      <3>2. y \in Subtree(l, c[k])
        BY <1>2, <1>3, <3>1 DEF Below, Downwards
      <3> QED BY <3>2
    <2> QED BY <2>1, <2>2
  <1>5. Downwards(l, V, D) /\ p \in D
    <2> HIDE DEF D
    <2>1. Downwards(l, V, D)
      BY <1>4 DEF Downwards
    <2>2. p \in D
      BY DEF D
    <2> QED BY <2>1, <2>2
  <1>6. Subtree(l, p) \subseteq D
    <2> HIDE DEF D
    <2>1. Below(l, V, p, Subtree(l, p))
      BY <1>3
    <2> QED BY <1>5, <2>1, BelowSmallest
  <1> QED
    BY <1>1, <1>6

\* A node below another has its root.
LEMMA RootBelow ==
  ASSUME NEW l, NEW V, NEW X, Good(l, V, X), V \subseteq 0..(count - 1), NEW a \in V,
         NEW b \in Subtree(l, a)
  PROVE  b \in V /\ Subtree(l, b) \subseteq Subtree(l, a) /\ RootOf(l, b) = RootOf(l, a)
  <1>1. ASSUME NEW x \in V PROVE Below(l, V, x, Subtree(l, x))
    BY SubtreeBelow
  <1>2. b \in V
    BY <1>1 DEF Below, Upwards
  <1>3. ASSUME NEW x \in V, NEW y \in Subtree(l, x) PROVE Subtree(l, y) \subseteq Subtree(l, x)
    <2>1. y \in V /\ Below(l, V, x, Subtree(l, x))
      BY <1>1 DEF Below, Upwards
    <2>2. Below(l, V, y, Subtree(l, y))
      BY <1>1, <2>1
    <2>3. Downwards(l, V, Subtree(l, x))
      BY <2>1 DEF Below
    <2> QED BY <2>1, <2>2, <2>3, BelowSmallest
  <1>4. RootOf(l, a) \in V /\ l[RootOf(l, a)].parent = Nil /\ a \in Subtree(l, RootOf(l, a))
    BY RootIs
  <1>5. b \in Subtree(l, RootOf(l, a))
    BY <1>3, <1>4
  <1>6. RootOf(l, a) = RootOf(l, b)
    BY <1>2, <1>4, <1>5, RootIs
  <1> QED
    BY <1>2, <1>3, <1>6

\* The nodes of one tree that are not one below the other part below some node.
LEMMA RootParts ==
  ASSUME NEW l, NEW V, NEW X, Good(l, V, X), V \subseteq 0..(count - 1),
         NEW a \in V, NEW b \in V, RootOf(l, a) = RootOf(l, b),
         a \notin Subtree(l, b), b \notin Subtree(l, a)
  PROVE  \E p \in V : \E j, k \in 1..Len(Chain(l, p)) :
            j # k /\ a \in Subtree(l, Chain(l, p)[j]) /\ b \in Subtree(l, Chain(l, p)[k])
  <1>0. /\ V \subseteq Slot /\ Nil \notin Slot /\ Within(l, V) /\ NoCycle(l, "parent")
    BY NilNoSlot DEF Good
  <1>1. ASSUME NEW x \in V PROVE Below(l, V, x, Subtree(l, x))
    BY SubtreeBelow
  <1> DEFINE W == {c \in V : a \in Subtree(l, c) /\ b \notin Subtree(l, c)}
  <1>2. a \in W
    BY <1>1 DEF Below, Upwards
  <1>3. \E c \in W : l[c]["parent"] \notin W
    <2>1. W \in SUBSET Slot /\ W # {}
      BY <1>0, <1>2
    <2> HIDE DEF W
    <2> QED BY <1>0, <2>1 DEF NoCycle
  <1>4. PICK c \in V : a \in Subtree(l, c) /\ b \notin Subtree(l, c) /\ l[c].parent \notin W
    BY <1>3
  <1>5. l[c].parent # Nil
    <2> SUFFICES ASSUME l[c].parent = Nil PROVE FALSE
      OBVIOUS
    <2>1. c = RootOf(l, a)
      BY <1>4, RootIs
    <2>2. b \in Subtree(l, c)
      BY <2>1, RootIs
    <2> QED BY <1>4, <2>2
  <1>6. PICK p \in V : p = l[c].parent
    BY <1>0, <1>5 DEF Within
  <1>7. c \in Subtree(l, p)
    BY <1>1, <1>6 DEF Below, Upwards, Downwards
  <1>8. a \in Subtree(l, p)
    BY <1>4, <1>7, RootBelow
  <1>9. b \in Subtree(l, p)
    BY <1>4, <1>6, <1>8
  <1>10. b # p
    BY <1>8
  <1>11. PICK k \in 1..Len(Chain(l, p)) : b \in Subtree(l, Chain(l, p)[k])
    BY <1>9, <1>10, BelowKids
  <1>12. PICK j \in 1..Len(Chain(l, p)) : Chain(l, p)[j] = c
    <2>1. ChainOf(l, V, p, Chain(l, p))
      BY ChainIs
    <2> QED BY <1>6, <2>1 DEF ChainOf
  <1>13. j # k
    BY <1>4, <1>11, <1>12
  <1> QED
    BY <1>4, <1>11, <1>12, <1>13

\* c is a child of a: it is below a, and a not below it.
ChildIn(l, V, a, c) ==
  /\ c \in V /\ l[c].parent = a /\ c \in Subtree(l, a) /\ a \notin Subtree(l, c)
  /\ Below(l, V, c, Subtree(l, c))

\* A node in the chain of children of a.
LEMMA ChildBelow ==
  ASSUME NEW l, NEW V, NEW X, Good(l, V, X), V \subseteq 0..(count - 1), NEW a \in V,
         NEW j \in 1..Len(Chain(l, a)), NEW c, c = Chain(l, a)[j]
  PROVE  ChildIn(l, V, a, c)
  <1>1. ChainOf(l, V, a, Chain(l, a))
    BY ChainIs
  <1>2. c \in V /\ l[c].parent = a
    BY <1>1 DEF ChainOf
  <1>3. Below(l, V, a, Subtree(l, a)) /\ Below(l, V, c, Subtree(l, c))
    BY <1>2, SubtreeBelow
  <1>4. c \in Subtree(l, a)
    BY <1>2, <1>3 DEF Below, Upwards, Downwards
  <1>5. a \notin Subtree(l, c)
    BY <1>2, <1>3, NotBelowItself
  <1> QED
    BY <1>2, <1>3, <1>4, <1>5 DEF ChildIn

\* Nothing is below two children.
LEMMA KidsApart ==
  ASSUME NEW l, NEW V, NEW X, Good(l, V, X), V \subseteq 0..(count - 1), NEW a \in V,
         NEW j \in 1..Len(Chain(l, a)), NEW k \in 1..Len(Chain(l, a)), NEW x,
         x \in Subtree(l, Chain(l, a)[j]), x \in Subtree(l, Chain(l, a)[k])
  PROVE  j = k
  <1>0. PICK c : c = Chain(l, a)[j]
    OBVIOUS
  <1>1. PICK d : d = Chain(l, a)[k]
    OBVIOUS
  <1>2. /\ c \in V /\ l[c].parent = a /\ a \notin Subtree(l, c) /\ Below(l, V, c, Subtree(l, c))
        /\ d \in V /\ l[d].parent = a /\ a \notin Subtree(l, d) /\ Below(l, V, d, Subtree(l, d))
    <2>1. ChildIn(l, V, a, c)
      BY <1>0, ChildBelow
    <2>2. ChildIn(l, V, a, d)
      BY <1>1, ChildBelow
    <2> QED BY <2>1, <2>2 DEF ChildIn
  <1>3. c \in Subtree(l, d) \/ d \in Subtree(l, c)
    BY <1>0, <1>1, <1>2, BelowNested
  <1>4. c = d
    BY <1>2, <1>3 DEF Below, Upwards
  <1>5. ChainOf(l, V, a, Chain(l, a)) /\ Nil \notin V
    BY ChainIs, NilNoSlot DEF Good
  <1> QED
    BY <1>0, <1>1, <1>4, <1>5, ChainInjective

\* The nodes are such a forest.
LEMMA ForestOrdered ==
  ASSUME NEW l, NEW V, NEW X, Good(l, V, X), V \subseteq 0..(count - 1)
  PROVE  Ordered(V, KidsIn(l, V), BelowIn(l, V), RootsIn(l, V))
  <1>0. ASSUME NEW a \in V, NEW j \in 1..Len(Chain(l, a))
        PROVE  /\ Chain(l, a)[j] \in V /\ Chain(l, a)[j] \in Subtree(l, a)
               /\ a \notin Subtree(l, Chain(l, a)[j])
    <2>1. PICK c : c = Chain(l, a)[j]
      OBVIOUS
    <2>2. ChildIn(l, V, a, c)
      BY <2>1, ChildBelow
    <2> QED BY <2>1, <2>2 DEF ChildIn
  <1>1. ASSUME NEW x \in V PROVE Below(l, V, x, Subtree(l, x))
    BY SubtreeBelow
  <1>2. PICK kids : kids = KidsIn(l, V)
    OBVIOUS
  <1>3. PICK below : below = BelowIn(l, V)
    OBVIOUS
  <1>4. PICK root : root = RootsIn(l, V)
    OBVIOUS
  <1>5. /\ \A a \in V : kids[a] = Chain(l, a) /\ below[a] = Subtree(l, a) /\ root[a] = RootOf(l, a)
        /\ DOMAIN kids = V /\ DOMAIN below = V /\ DOMAIN root = V
    BY <1>2, <1>3, <1>4 DEF KidsIn, BelowIn, RootsIn
  <1>6. kids \in [V -> Seq(V)] /\ below \in [V -> SUBSET V] /\ root \in [V -> V]
    <2>1. ASSUME NEW a \in V PROVE Chain(l, a) \in Seq(V)
      BY ChainIs DEF ChainOf
    <2>2. ASSUME NEW a \in V PROVE Subtree(l, a) \subseteq V
      BY <1>1 DEF Below, Upwards
    <2>3. ASSUME NEW a \in V PROVE RootOf(l, a) \in V
      BY RootIs
    <2>4. kids \in [V -> Seq(V)]
      BY <1>2, <2>1 DEF KidsIn
    <2>5. below \in [V -> SUBSET V]
      BY <1>3, <2>2 DEF BelowIn
    <2>6. root \in [V -> V]
      BY <1>4, <2>3 DEF RootsIn
    <2> QED BY <2>4, <2>5, <2>6
  <1>7. ASSUME NEW a \in V PROVE a \in below[a]
    BY <1>1, <1>5 DEF Below, Upwards
  <1>8. ASSUME NEW a \in V, NEW b \in below[a]
        PROVE  below[b] \subseteq below[a] /\ root[b] = root[a]
    <2>1. b \in Subtree(l, a)
      BY <1>5, <1>8
    <2>2. b \in V /\ Subtree(l, b) \subseteq Subtree(l, a) /\ RootOf(l, b) = RootOf(l, a)
      <3>1. Subtree(l, b) \subseteq Subtree(l, a)
        BY <2>1, RootBelow
      <3>2. b \in V /\ RootOf(l, b) = RootOf(l, a)
        BY <2>1, RootBelow
      <3> QED BY <3>1, <3>2
    <2> QED BY <1>5, <2>2
  <1>9. ASSUME NEW a \in V, NEW b \in below[a], b # a
        PROVE  \E j \in 1..Len(kids[a]) : b \in below[kids[a][j]]
    <2>1. PICK j \in 1..Len(Chain(l, a)) : b \in Subtree(l, Chain(l, a)[j])
      BY <1>5, <1>9, BelowKids
    <2>2. Chain(l, a)[j] \in V
      BY ChildBelow DEF ChildIn
    <2> QED BY <1>5, <2>1, <2>2
  <1>10. ASSUME NEW a \in V, NEW j \in 1..Len(kids[a])
         PROVE  kids[a][j] \in V /\ kids[a][j] \in below[a] /\ a \notin below[kids[a][j]]
    <2>1. j \in 1..Len(Chain(l, a)) /\ kids[a][j] = Chain(l, a)[j]
      BY <1>5
    <2>2. PICK c : c = kids[a][j]
      OBVIOUS
    <2>3. c \in V /\ c \in Subtree(l, a) /\ a \notin Subtree(l, c)
      BY <1>0, <2>1, <2>2, Zenon
    <2>4. c \in below[a] /\ a \notin below[c]
      BY <1>5, <2>3
    <2> QED BY <2>2, <2>3, <2>4
  <1>11. ASSUME NEW a \in V, NEW j \in 1..Len(kids[a]), NEW k \in 1..Len(kids[a]), NEW x \in V,
                x \in below[kids[a][j]], x \in below[kids[a][k]]
         PROVE  j = k
    <2>1. /\ j \in 1..Len(Chain(l, a)) /\ kids[a][j] = Chain(l, a)[j]
          /\ k \in 1..Len(Chain(l, a)) /\ kids[a][k] = Chain(l, a)[k]
      BY <1>5
    <2>2. x \in Subtree(l, Chain(l, a)[j]) /\ x \in Subtree(l, Chain(l, a)[k])
      <3>1. PICK c, d : c = kids[a][j] /\ d = kids[a][k]
        OBVIOUS
      <3>2. c \in V /\ d \in V /\ x \in below[c] /\ x \in below[d]
        BY <1>10, <1>11, <3>1
      <3>3. x \in Subtree(l, c) /\ x \in Subtree(l, d)
        BY <1>5, <3>2
      <3> QED BY <2>1, <3>1, <3>3
    <2> QED BY <2>1, <2>2, KidsApart
  <1>12. ASSUME NEW a \in V, NEW b \in V, NEW x \in V, x \in below[a], x \in below[b]
         PROVE  a \in below[b] \/ b \in below[a]
    <2>1. x \in Subtree(l, a) /\ x \in Subtree(l, b)
      BY <1>5, <1>12
    <2>2. Below(l, V, a, Subtree(l, a)) /\ Below(l, V, b, Subtree(l, b))
      BY <1>1
    <2>3. a \in Subtree(l, b) \/ b \in Subtree(l, a)
      BY <2>1, <2>2, BelowNested
    <2> QED BY <1>5, <2>3
  <1>13. ASSUME NEW a \in V, NEW b \in V, root[a] = root[b], a \notin below[b], b \notin below[a]
         PROVE  \E p \in V : \E j, k \in 1..Len(kids[p]) :
                   j # k /\ a \in below[kids[p][j]] /\ b \in below[kids[p][k]]
    <2>1. RootOf(l, a) = RootOf(l, b) /\ a \notin Subtree(l, b) /\ b \notin Subtree(l, a)
      BY <1>5, <1>13
    <2>2. PICK p \in V : \E j, k \in 1..Len(Chain(l, p)) :
            j # k /\ a \in Subtree(l, Chain(l, p)[j]) /\ b \in Subtree(l, Chain(l, p)[k])
      BY <2>1, RootParts
    <2>3. PICK j \in 1..Len(Chain(l, p)), k \in 1..Len(Chain(l, p)) :
            j # k /\ a \in Subtree(l, Chain(l, p)[j]) /\ b \in Subtree(l, Chain(l, p)[k])
      BY <2>2
    <2>4. PICK c, d : c = Chain(l, p)[j] /\ d = Chain(l, p)[k]
      OBVIOUS
    <2>5. kids[p] = Chain(l, p)
      BY <1>5
    <2>6. j \in 1..Len(kids[p]) /\ k \in 1..Len(kids[p]) /\ c = kids[p][j] /\ d = kids[p][k]
      BY <2>4, <2>5
    <2>7. c \in V /\ d \in V
      BY <1>10, <2>6
    <2>8. a \in below[c] /\ b \in below[d]
      BY <1>5, <2>3, <2>4, <2>7
    <2> QED BY <2>3, <2>6, <2>8
  <1>14. Ordered(V, kids, below, root)
    BY <1>6, <1>7, <1>8, <1>9, <1>10, <1>11, <1>12, <1>13 DEF Ordered
  <1> QED
    BY <1>2, <1>3, <1>4, <1>14

\* Two nodes below one another are one.
LEMMA BelowOnce ==
  ASSUME NEW V, NEW kids, NEW below, NEW root, Ordered(V, kids, below, root),
         NEW a \in V, NEW b \in V, a \in below[b], b \in below[a]
  PROVE  a = b
  <1> SUFFICES ASSUME a # b PROVE FALSE
    OBVIOUS
  <1>1. PICK j \in 1..Len(kids[a]) : b \in below[kids[a][j]]
    BY DEF Ordered
  <1>2. kids[a][j] \in V /\ a \notin below[kids[a][j]]
    BY DEF Ordered
  <1>3. below[b] \subseteq below[kids[a][j]]
    BY <1>1, <1>2 DEF Ordered
  <1> QED
    BY <1>2, <1>3

\* A child of p below a child of q: the same one, or p is below that child of q too.
LEMMA ChildUnder ==
  ASSUME NEW V, NEW kids, NEW below, NEW root, Ordered(V, kids, below, root),
         NEW p \in V, NEW j \in 1..Len(kids[p]), NEW q \in V, NEW m \in 1..Len(kids[q]),
         kids[p][j] \in below[kids[q][m]]
  PROVE  p \in below[kids[q][m]] \/ (p = q /\ j = m)
  <1>1. PICK t : t = kids[p][j]
    OBVIOUS
  <1>2. PICK s : s = kids[q][m]
    OBVIOUS
  <1>3. /\ t \in V /\ t \in below[p] /\ p \notin below[t] /\ t \in below[t]
        /\ s \in V /\ s \in below[q] /\ q \notin below[s] /\ s \in below[s] /\ t \in below[s]
    BY <1>1, <1>2 DEF Ordered
  <1>4. below[t] \subseteq below[s] /\ t \in below[q]
    BY <1>3 DEF Ordered
  <1>5. p \in below[s] \/ q \in below[p]
    BY <1>2, <1>3, BelowChild
  <1>6. q \in below[t] \/ p \in below[q]
    BY <1>1, <1>3, <1>4, BelowChild
  <1>7. CASE q \in below[p] /\ p \in below[q]
    <2>1. p = q
      BY <1>7, BelowOnce
    <2>2. j = m
      BY <1>1, <1>2, <1>3, <2>1 DEF Ordered
    <2> QED BY <2>1, <2>2
  <1> QED
    BY <1>2, <1>3, <1>4, <1>5, <1>6, <1>7

\* What comes after x: its first child and what comes after that.
LEMMA FirstFollows ==
  ASSUME NEW V, NEW kids, NEW below, NEW root, Ordered(V, kids, below, root),
         NEW x \in V, 1 \in 1..Len(kids[x]), NEW y, y = kids[x][1], NEW z \in V
  PROVE  Leads(V, kids, below, x, z) <=> z = y \/ Leads(V, kids, below, y, z)
  <1>1. y \in V /\ y \in below[x] /\ x \notin below[y] /\ y \in below[y] /\ y # x
    BY DEF Ordered
  <1>2. Leads(V, kids, below, x, y)
    BY <1>1 DEF Leads
  <1>3. Leads(V, kids, below, y, z) => Leads(V, kids, below, x, z)
    BY <1>1, <1>2, LeadsTransitive
  <1>4. ASSUME x # z, z \in below[x] PROVE z = y \/ Leads(V, kids, below, y, z)
    <2>1. PICK j \in 1..Len(kids[x]) : z \in below[kids[x][j]]
      BY <1>4 DEF Ordered
    <2>2. CASE j = 1
      BY <2>1, <2>2 DEF Leads
    <2>3. CASE j # 1
      BY <1>1, <2>1, <2>3 DEF Leads, Splits
    <2> QED BY <2>2, <2>3
  <1>5. ASSUME Splits(V, kids, below, x, z) PROVE Leads(V, kids, below, y, z)
    <2>1. PICK p \in V : \E j, k \in 1..Len(kids[p]) :
                 j < k /\ x \in below[kids[p][j]] /\ z \in below[kids[p][k]]
      BY <1>5 DEF Splits
    <2>2. PICK j \in 1..Len(kids[p]), k \in 1..Len(kids[p]) :
                 j < k /\ x \in below[kids[p][j]] /\ z \in below[kids[p][k]]
      BY <2>1
    <2>3. kids[p][j] \in V
      BY DEF Ordered
    <2>5. below[x] \subseteq below[kids[p][j]]
      BY <2>2, <2>3 DEF Ordered
    <2>4. y \in below[kids[p][j]]
      BY <1>1, <2>5
    <2> QED BY <2>2, <2>4 DEF Leads, Splits
  <1> QED
    BY <1>2, <1>3, <1>4, <1>5 DEF Leads

\* y is the sibling after the nearest node t above x that has one.
NextOf(V, kids, below, x, t, y) ==
  /\ x \in below[t]
  /\ \E p \in V : \E j \in 1..Len(kids[p]) :
       j + 1 \in 1..Len(kids[p]) /\ t = kids[p][j] /\ y = kids[p][j + 1]
  /\ \A q \in V : \A m \in 1..Len(kids[q]) :
       m + 1 \in 1..Len(kids[q]) /\ x \in below[kids[q][m]] => t \in below[kids[q][m]]

\* What comes after x and is not below it: y, and what comes after y.
LEMMA NextFollows ==
  ASSUME NEW V, NEW kids, NEW below, NEW root, Ordered(V, kids, below, root),
         NEW x \in V, NEW t, NEW y, NextOf(V, kids, below, x, t, y), NEW z \in V
  PROVE  Leads(V, kids, below, x, z) /\ z \notin below[x] <=> z = y \/ Leads(V, kids, below, y, z)
  <1>6. PICK p \in V : \E j \in 1..Len(kids[p]) :
               j + 1 \in 1..Len(kids[p]) /\ t = kids[p][j] /\ y = kids[p][j + 1]
    BY DEF NextOf
  <1>7. PICK j \in 1..Len(kids[p]) :
               j + 1 \in 1..Len(kids[p]) /\ t = kids[p][j] /\ y = kids[p][j + 1]
    BY <1>6
  <1>8. /\ x \in below[t]
        /\ \A q \in V : \A m \in 1..Len(kids[q]) :
             m + 1 \in 1..Len(kids[q]) /\ x \in below[kids[q][m]] => t \in below[kids[q][m]]
    BY DEF NextOf
  <1>0. /\ y \in V /\ y \in below[p] /\ y \in below[y] /\ t \in V /\ t \in below[t]
        /\ j < j + 1 /\ j # j + 1
    BY <1>7 DEF Ordered
  <1>1. Leads(V, kids, below, x, y)
    BY <1>0, <1>7, <1>8 DEF Leads, Splits
  <1>2. y \notin below[x]
    BY <1>0, <1>7, <1>8, SplitApart
  <1>3. Leads(V, kids, below, y, z) => Leads(V, kids, below, x, z)
    BY <1>0, <1>1, LeadsTransitive
  <1>4. ASSUME Leads(V, kids, below, y, z), z \in below[x] PROVE FALSE
    <2>1. z \in below[t]
      BY <1>0, <1>4, <1>8 DEF Ordered
    <2>2. Leads(V, kids, below, z, y)
      BY <1>0, <1>7, <2>1 DEF Leads, Splits
    <2>3. Leads(V, kids, below, y, y)
      BY <1>0, <1>4, <2>2, LeadsTransitive
    <2> QED BY <1>0, <2>3, LeadsOnce
  <1>5. ASSUME Leads(V, kids, below, x, z), z \notin below[x]
        PROVE  z = y \/ Leads(V, kids, below, y, z)
    <2>1. PICK q \in V : \E m, k \in 1..Len(kids[q]) :
                 m < k /\ x \in below[kids[q][m]] /\ z \in below[kids[q][k]]
      BY <1>5 DEF Leads, Splits
    <2>2. PICK m \in 1..Len(kids[q]), k \in 1..Len(kids[q]) :
                 m < k /\ x \in below[kids[q][m]] /\ z \in below[kids[q][k]]
      BY <2>1
    <2>3. m + 1 \in 1..Len(kids[q]) /\ kids[q][m] \in V
      <3>1. kids[q] \in Seq(V)
        BY DEF Ordered
      <3>2. Len(kids[q]) \in Nat
        BY <3>1
      <3>3. m + 1 \in 1..Len(kids[q])
        BY <2>2, <3>2
      <3> QED BY <3>3 DEF Ordered
    <2>4. t \in below[kids[q][m]]
      BY <1>8, <2>2, <2>3
    <2>5. p \in below[kids[q][m]] \/ (p = q /\ j = m)
      BY <1>7, <2>4, ChildUnder
    <2>6. CASE p \in below[kids[q][m]]
      <3>1. y \in below[kids[q][m]]
        <4>1. below[p] \subseteq below[kids[q][m]]
          BY <2>3, <2>6 DEF Ordered
        <4> QED BY <1>0, <4>1
      <3> QED BY <2>2, <3>1 DEF Leads, Splits
    <2>7. CASE p = q /\ j = m
      <3>1. CASE k = j + 1
        BY <1>7, <2>2, <2>7, <3>1 DEF Leads
      <3>2. CASE k # j + 1
        <4>1. j + 1 < k
          BY <2>2, <2>7, <3>2
        <4> QED BY <1>0, <1>7, <2>2, <2>7, <4>1 DEF Leads, Splits
      <3> QED BY <3>1, <3>2
    <2> QED BY <2>5, <2>6, <2>7
  <1> QED
    BY <1>1, <1>2, <1>3, <1>4, <1>5

\* Where no node above x has a sibling after it, only what is below x comes after it.
LEMMA NoneFollows ==
  ASSUME NEW V, NEW kids, NEW below, NEW root, Ordered(V, kids, below, root), NEW x \in V,
         \A q \in V : \A m \in 1..Len(kids[q]) :
            x \in below[kids[q][m]] => m + 1 \notin 1..Len(kids[q]),
         NEW z \in V, Leads(V, kids, below, x, z)
  PROVE  z \in below[x]
  <1> SUFFICES ASSUME Splits(V, kids, below, x, z) PROVE FALSE
    BY DEF Leads
  <1>1. PICK q \in V : \E m, k \in 1..Len(kids[q]) :
                 m < k /\ x \in below[kids[q][m]] /\ z \in below[kids[q][k]]
    BY DEF Splits
  <1>2. PICK m \in 1..Len(kids[q]), k \in 1..Len(kids[q]) :
                 m < k /\ x \in below[kids[q][m]] /\ z \in below[kids[q][k]]
    BY <1>1
  <1>3. Len(kids[q]) \in Nat
    <2>1. kids[q] \in Seq(V)
      BY DEF Ordered
    <2> QED BY <2>1
  <1>4. m + 1 \in 1..Len(kids[q])
    BY <1>2, <1>3
  <1> QED
    BY <1>2, <1>4

\* d is the sibling before x, and e the last node below d.
PrevOf(V, kids, below, x, d, e) ==
  /\ \E p \in V : \E j \in 1..Len(kids[p]) :
       j + 1 \in 1..Len(kids[p]) /\ d = kids[p][j] /\ x = kids[p][j + 1]
  /\ e \in below[d] /\ \A z \in below[d] : z = e \/ Leads(V, kids, below, z, e)

\* What comes before x: e and what comes before it.
LEMMA PrevLeads ==
  ASSUME NEW V, NEW kids, NEW below, NEW root, Ordered(V, kids, below, root),
         NEW x, NEW d, NEW e \in V, PrevOf(V, kids, below, x, d, e), NEW z \in V
  PROVE  Leads(V, kids, below, z, x) <=> z = e \/ Leads(V, kids, below, z, e)
  <1>6. PICK p \in V : \E j \in 1..Len(kids[p]) :
               j + 1 \in 1..Len(kids[p]) /\ d = kids[p][j] /\ x = kids[p][j + 1]
    BY DEF PrevOf
  <1>7. PICK j \in 1..Len(kids[p]) :
               j + 1 \in 1..Len(kids[p]) /\ d = kids[p][j] /\ x = kids[p][j + 1]
    BY <1>6
  <1>8. e \in below[d] /\ \A y \in below[d] : y = e \/ Leads(V, kids, below, y, e)
    BY DEF PrevOf
  <1>0. /\ x \in V /\ x \in below[x] /\ x \in below[p] /\ d \in V /\ d \in below[p]
        /\ j < j + 1 /\ j # j + 1
    BY <1>7 DEF Ordered
  <1>1. Leads(V, kids, below, e, x)
    BY <1>0, <1>7, <1>8 DEF Leads, Splits
  <1>2. Leads(V, kids, below, z, e) => Leads(V, kids, below, z, x)
    BY <1>0, <1>1, LeadsTransitive
  <1>3. e \in below[p]
    BY <1>0, <1>8 DEF Ordered
  <1>4. ASSUME z # x, x \in below[z] PROVE z = e \/ Leads(V, kids, below, z, e)
    <2>1. z \in below[x] \/ p \in below[z]
      BY <1>0, <1>4, <1>7, BelowChild
    <2>2. z \notin below[x]
      BY <1>0, <1>4, BelowOnce
    <2>3. e \in below[z]
      BY <1>3, <2>1, <2>2 DEF Ordered
    <2> QED BY <2>3 DEF Leads
  <1>5. ASSUME Splits(V, kids, below, z, x) PROVE z = e \/ Leads(V, kids, below, z, e)
    <2>1. PICK q \in V : \E m, k \in 1..Len(kids[q]) :
                 m < k /\ z \in below[kids[q][m]] /\ x \in below[kids[q][k]]
      BY <1>5 DEF Splits
    <2>2. PICK m \in 1..Len(kids[q]), k \in 1..Len(kids[q]) :
                 m < k /\ z \in below[kids[q][m]] /\ x \in below[kids[q][k]]
      BY <2>1
    <2>3. kids[q][k] \in V
      BY DEF Ordered
    <2>4. p \in below[kids[q][k]] \/ (p = q /\ j + 1 = k)
      BY <1>7, <2>2, ChildUnder
    <2>5. CASE p \in below[kids[q][k]]
      <3>1. e \in below[kids[q][k]]
        BY <1>3, <2>3, <2>5 DEF Ordered
      <3> QED BY <2>2, <3>1 DEF Leads, Splits
    <2>6. CASE p = q /\ j + 1 = k
      <3>1. CASE m = j
        BY <1>7, <1>8, <2>2, <2>6, <3>1
      <3>2. CASE m # j
        <4>1. m < j
          BY <2>2, <2>6, <3>2
        <4> QED BY <1>7, <1>8, <2>2, <2>6, <4>1 DEF Leads, Splits
      <3> QED BY <3>1, <3>2
    <2> QED BY <2>4, <2>5, <2>6
  <1> QED
    BY <1>1, <1>2, <1>4, <1>5 DEF Leads

\* What comes before a first child: the parent and what comes before that.
LEMMA ParentLeads ==
  ASSUME NEW V, NEW kids, NEW below, NEW root, Ordered(V, kids, below, root),
         NEW p \in V, 1 \in 1..Len(kids[p]), NEW x, x = kids[p][1], NEW z \in V
  PROVE  Leads(V, kids, below, z, x) <=> z = p \/ Leads(V, kids, below, z, p)
  <1>0. x \in V /\ x \in below[x] /\ x \in below[p] /\ p \notin below[x] /\ x # p /\ p \in below[p]
    BY DEF Ordered
  <1>1. Leads(V, kids, below, p, x)
    BY <1>0 DEF Leads
  <1>2. Leads(V, kids, below, z, p) => Leads(V, kids, below, z, x)
    BY <1>0, <1>1, LeadsTransitive
  <1>4. ASSUME z # x, x \in below[z] PROVE z = p \/ Leads(V, kids, below, z, p)
    <2>1. z \in below[x] \/ p \in below[z]
      BY <1>0, <1>4, BelowChild
    <2>2. z \notin below[x]
      BY <1>0, <1>4, BelowOnce
    <2> QED BY <2>1, <2>2 DEF Leads
  <1>5. ASSUME Splits(V, kids, below, z, x) PROVE Leads(V, kids, below, z, p)
    <2>1. PICK q \in V : \E m, k \in 1..Len(kids[q]) :
                 m < k /\ z \in below[kids[q][m]] /\ x \in below[kids[q][k]]
      BY <1>5 DEF Splits
    <2>2. PICK m \in 1..Len(kids[q]), k \in 1..Len(kids[q]) :
                 m < k /\ z \in below[kids[q][m]] /\ x \in below[kids[q][k]]
      BY <2>1
    <2>3. p \in below[kids[q][k]] \/ (p = q /\ 1 = k)
      BY <2>2, ChildUnder
    <2>4. k # 1
      BY <2>2
    <2> QED BY <2>2, <2>3, <2>4 DEF Leads, Splits
  <1> QED
    BY <1>1, <1>2, <1>4, <1>5 DEF Leads

\* x is the j-th child of p.
PlacedAt(l, x, p, j) ==
  /\ p = l[x].parent /\ j \in 1..Len(Chain(l, p)) /\ Chain(l, p)[j] = x
  /\ Len(Chain(l, p)) \in Nat
  /\ l[x].prev = IF j = 1 THEN Nil ELSE Chain(l, p)[j - 1]
  /\ l[x].next = IF j = Len(Chain(l, p)) THEN Nil ELSE Chain(l, p)[j + 1]

\* Every node with a parent has a place.
LEMMA PlaceOf ==
  ASSUME NEW l, NEW V, NEW X, Good(l, V, X), NEW x \in V, l[x].parent # Nil
  PROVE  \E p \in V, j \in Nat : PlacedAt(l, x, p, j)
  <1>1. PICK p \in V : p = l[x].parent
    BY DEF Good, Within
  <1>2. PICK c : c = Chain(l, p)
    OBVIOUS
  <1>3. ChainOf(l, V, p, c)
    BY <1>2, ChainIs
  <1>4. PICK j \in 1..Len(c) : c[j] = x
    BY <1>1, <1>3 DEF ChainOf
  <1>5. /\ l[c[j]].prev = IF j = 1 THEN Nil ELSE c[j - 1]
        /\ l[c[j]].next = IF j = Len(c) THEN Nil ELSE c[j + 1]
    BY <1>3, ChainSides DEF Sides
  <1>6. Len(c) \in Nat
    BY <1>3 DEF ChainOf
  <1> QED
    BY <1>1, <1>2, <1>4, <1>5, <1>6 DEF PlacedAt

\* A child that is not the last has a sibling after it.
Followed(l, V, q, m) ==
  /\ Chain(l, q)[m] \in V /\ Chain(l, q)[m + 1] \in V
  /\ l[Chain(l, q)[m]].next = Chain(l, q)[m + 1] /\ l[Chain(l, q)[m]].next # Nil

\* So the links say.
LEMMA KidNext ==
  ASSUME NEW l, NEW V, NEW X, Good(l, V, X), NEW q \in V, NEW m,
         m \in 1..Len(Chain(l, q)), m + 1 \in 1..Len(Chain(l, q))
  PROVE  Followed(l, V, q, m)
  <1>1. PICK c : c = Chain(l, q)
    OBVIOUS
  <1>2. ChainOf(l, V, q, c)
    BY <1>1, ChainIs
  <1>3. \A k \in 1..Len(c) : c[k] \in V /\ l[c[k]].next = IF k = Len(c) THEN Nil ELSE c[k + 1]
    BY <1>2, ChainSides DEF Sides
  <1>4. m # Len(c) /\ Nil \notin V
    BY <1>1, <1>2, NilNoSlot DEF ChainOf, Good
  <1> QED
    BY <1>1, <1>3, <1>4 DEF Followed

\* Of nodes above x, one is below all others.
LEMMA NearestAbove ==
  ASSUME NEW l, NEW V, NEW X, Good(l, V, X), V \subseteq 0..(count - 1), NEW x \in V,
         NEW P \in SUBSET V, P # {}, \A b \in P : x \in Subtree(l, b)
  PROVE  \E a \in P : \A b \in P : a \in Subtree(l, b)
  <1>0. V \subseteq Slot /\ Nil \notin Slot /\ Within(l, V) /\ NoCycle(l, "parent")
    BY NilNoSlot DEF Good
  <1>1. ASSUME NEW y \in V PROVE Below(l, V, y, Subtree(l, y))
    BY SubtreeBelow
  <1> DEFINE W == {c \in V : \A b \in P : c \in Subtree(l, b)}
  <1>2. x \in W /\ W \in SUBSET Slot
    BY <1>0
  <1>3. \E c \in W : l[c]["parent"] \notin W
    <2> HIDE DEF W
    <2> QED BY <1>0, <1>2 DEF NoCycle
  <1>4. PICK c \in V : (\A b \in P : c \in Subtree(l, b)) /\ l[c].parent \notin W
    BY <1>3
  <1>5. \E b \in P : l[c].parent \notin Subtree(l, b)
    <2>1. CASE l[c].parent = Nil
      <3>1. PICK b \in P : TRUE
        OBVIOUS
      <3>2. Nil \notin Subtree(l, b)
        BY <1>0, <1>1 DEF Below, Upwards
      <3> QED BY <2>1, <3>2
    <2>2. CASE l[c].parent # Nil
      <3>1. l[c].parent \in V
        BY <1>0, <2>2 DEF Within
      <3> QED BY <1>4, <3>1
    <2> QED BY <2>1, <2>2
  <1>6. PICK b \in P : l[c].parent \notin Subtree(l, b)
    BY <1>5
  <1>7. c = b
    BY <1>1, <1>4, <1>6 DEF Below, Upwards
  <1> QED
    BY <1>4, <1>7

\* Without a child and without a sibling after it or a node above it, a node is the last.
LEMMA AdvanceEnds ==
  ASSUME NEW l, NEW V, NEW X, Good(l, V, X), V \subseteq 0..(count - 1), NEW x \in V,
         Advance(l, Nil, x) = Nil
  PROVE  l[x].first = Nil /\ \A a \in V : x \in Subtree(l, a) => l[a].next = Nil
  <1>0. /\ V \subseteq Slot /\ Nil \notin Slot /\ Typed(l) /\ x # Nil /\ x \in Link
        /\ NoCycle(l, "parent") /\ "parent" \in {"parent", "next", "last"}
        /\ \A z \in V : l[z].next \in V \cup {Nil} /\ l[z].first \in V \cup {Nil}
    BY NilNoSlot DEF Good, Within, Link
  <1> DEFINE steps == Steps(l, x, "parent")
             ends == {n \in DOMAIN steps : steps[n] = Nil \/ steps[n] = Nil \/ l[steps[n]].next # Nil}
             least == CHOOSE n \in ends : \A m \in ends : n <= m
  <1>1. Advance(l, Nil, x) = IF l[x].first # Nil THEN l[x].first
                             ELSE IF steps[least] = Nil \/ steps[least] = Nil THEN Nil
                             ELSE l[steps[least]].next
    BY DEF Advance
  <1>2. PICK up : up = steps
    OBVIOUS
  <1>3. IsWalk(up, Capacity, l, x, "parent")
    BY <1>2, StepsAre
  <1>4. /\ Capacity \in Nat /\ DOMAIN up = 0..Capacity
    <2>1. Walked(up, l, x, "parent")
      BY <1>0, <1>3, WalkTyped
    <2> QED BY <2>1, SlotsCount DEF Walked
  <1>5. PICK m \in 0..Capacity : /\ \A n \in 0..(m - 1) : up[n] # Nil
                                 /\ \A n \in m..Capacity : up[n] = Nil
    <2>1. \E m \in 0..Capacity : /\ \A n \in 0..(m - 1) : up[n] # Nil
                                 /\ \A n \in m..Capacity : up[n] = Nil
                                 /\ Cardinality({n \in DOMAIN up : up[n] # Nil}) = m
      <3> HIDE DEF steps, ends, least
      <3> QED BY <1>0, <1>3, WalkLength
    <2> QED BY <2>1
  <1>6. PICK stops : stops = ends
    OBVIOUS
  <1>7. stops = {n \in 0..Capacity : up[n] = Nil \/ l[up[n]].next # Nil}
    BY <1>2, <1>4, <1>6
  <1>8. \E k \in stops : \A n \in stops : k <= n
    <2>1. m \in stops /\ stops \in SUBSET Nat
      BY <1>4, <1>5, <1>7
    <2> QED BY <2>1, LeastNat
  <1>9. PICK k : k = least
    OBVIOUS
  <1>10. k \in stops /\ \A n \in stops : k <= n
    <2> HIDE DEF steps, ends
    <2> QED BY <1>6, <1>8, <1>9
  <1>11. Nil = IF l[x].first # Nil THEN l[x].first ELSE IF up[k] = Nil THEN Nil ELSE l[up[k]].next
    <2> HIDE DEF steps, ends, least
    <2> QED BY <1>1, <1>2, <1>9
  <1>12. l[x].first = Nil /\ up[k] = Nil
    BY <1>7, <1>10, <1>11
  <1>13. ASSUME NEW a \in V, x \in Subtree(l, a), l[a].next # Nil PROVE FALSE
    <2>1. a \in Trail(l, x, "parent")
      BY <1>13, TrailAbove
    <2>2. PICK n \in 0..Capacity : a = up[n] /\ a # Nil
      BY <1>2, <1>4, <2>1 DEF Trail, ToSet
    <2>3. k <= n /\ k \in 0..Capacity
      BY <1>7, <1>10, <1>13, <2>2
    <2>4. m <= k
      <3> SUFFICES ASSUME k < m PROVE FALSE
        BY <1>4, <2>3
      <3>1. k \in 0..(m - 1)
        BY <1>4, <2>3
      <3> QED BY <1>5, <1>12, <3>1
    <2>5. n \in m..Capacity
      BY <1>4, <2>3, <2>4
    <2> QED BY <1>5, <2>2, <2>5
  <1> QED
    BY <1>12, <1>13

\* A climb from x ends at the nearest node above x that has a sibling after it.
LEMMA ClimbNearest ==
  ASSUME NEW l, NEW V, NEW X, Good(l, V, X), V \subseteq 0..(count - 1), NEW x \in V,
         NEW top \in V, NEW C, Climb(l, V, x, top, C)
  PROVE  /\ x \in Subtree(l, top)
         /\ \A a \in V : x \in Subtree(l, a) /\ l[a].next # Nil => top \in Subtree(l, a)
  <1>0. V \subseteq Slot /\ Nil \notin Slot /\ NoCycle(l, "parent")
    BY NilNoSlot DEF Good
  <1>1. ASSUME NEW y \in V PROVE Below(l, V, y, Subtree(l, y))
    BY SubtreeBelow
  <1>2. /\ C \subseteq V /\ x \in C /\ top \in C
        /\ \A c \in C \ {top} : l[c].next = Nil /\ l[c].parent \in C
    BY DEF Climb
  <1>3. x \in Subtree(l, top)
    <2> SUFFICES ASSUME x \notin Subtree(l, top) PROVE FALSE
      OBVIOUS
    <2> DEFINE W == {c \in C : c \notin Subtree(l, top)}
    <2>1. W \in SUBSET Slot /\ x \in W
      BY <1>0, <1>2
    <2>2. \E c \in W : l[c]["parent"] \notin W
      <3> HIDE DEF W
      <3> QED BY <1>0, <2>1 DEF NoCycle
    <2>3. PICK c \in C : c \notin Subtree(l, top) /\ l[c].parent \notin W
      BY <2>2
    <2>4. c # top /\ c \in V
      BY <1>1, <1>2, <2>3 DEF Below, Upwards
    <2>5. l[c].parent \in Subtree(l, top)
      BY <1>2, <2>3, <2>4
    <2> QED BY <1>1, <2>3, <2>4, <2>5 DEF Below, Downwards
  <1>4. ASSUME NEW a \in V, x \in Subtree(l, a), l[a].next # Nil PROVE top \in Subtree(l, a)
    <2> DEFINE W == {c \in C : c \in Subtree(l, a)}
    <2>1. W \in SUBSET Slot /\ x \in W
      BY <1>0, <1>2, <1>4
    <2>2. \E c \in W : l[c]["parent"] \notin W
      <3> HIDE DEF W
      <3> QED BY <1>0, <2>1 DEF NoCycle
    <2>3. PICK c \in C : c \in Subtree(l, a) /\ l[c].parent \notin W
      BY <2>2
    <2>4. c = top
      <3> SUFFICES ASSUME c # top PROVE FALSE
        OBVIOUS
      <3>1. l[c].next = Nil /\ l[c].parent \in C
        BY <1>2
      <3>2. c # a
        BY <1>4, <3>1
      <3>3. l[c].parent \in Subtree(l, a)
        BY <1>1, <2>3, <3>2 DEF Below, Upwards
      <3> QED BY <2>3, <3>1, <3>3
    <2> QED BY <2>3, <2>4
  <1> QED
    BY <1>3, <1>4

\* b comes after a in the tree of a.
InOrder(l, V, a, b) == Leads(V, KidsIn(l, V), BelowIn(l, V), a, b)

\* What comes after x and is not below it: y, and what comes after y.
AfterTree(l, V, x, y) ==
  /\ y \in V
  /\ \A z \in V : InOrder(l, V, x, z) /\ z \notin Subtree(l, x) <=> z = y \/ InOrder(l, V, y, z)

\* That is the sibling after the nearest node t above x that has one.
LEMMA NextInOrder ==
  ASSUME NEW l, NEW V, NEW X, Good(l, V, X), V \subseteq 0..(count - 1), NEW x \in V,
         NEW t \in V, x \in Subtree(l, t), NEW y, y = l[t].next, y # Nil,
         \A a \in V : x \in Subtree(l, a) /\ l[a].next # Nil => t \in Subtree(l, a)
  PROVE  AfterTree(l, V, x, y)
  <1>0. y \in V /\ l[t].parent # Nil
    BY DEF Good, Within, NearSides
  <1>1. PICK p \in V, j \in Nat : PlacedAt(l, t, p, j)
    BY <1>0, PlaceOf
  <1>2. j + 1 \in 1..Len(Chain(l, p)) /\ y = Chain(l, p)[j + 1]
    BY <1>1 DEF PlacedAt
  <1>3. PICK kids : kids = KidsIn(l, V)
    OBVIOUS
  <1>4. PICK below : below = BelowIn(l, V)
    OBVIOUS
  <1>5. \A a \in V : kids[a] = Chain(l, a) /\ below[a] = Subtree(l, a)
    BY <1>3, <1>4 DEF KidsIn, BelowIn
  <1>6. Ordered(V, kids, below, RootsIn(l, V))
    BY <1>3, <1>4, ForestOrdered
  <1>7. ASSUME NEW q \in V, NEW m \in 1..Len(kids[q]),
               m + 1 \in 1..Len(kids[q]), x \in below[kids[q][m]]
        PROVE  t \in below[kids[q][m]]
    <2>1. m \in 1..Len(Chain(l, q)) /\ m + 1 \in 1..Len(Chain(l, q)) /\ kids[q][m] = Chain(l, q)[m]
      BY <1>5, <1>7
    <2>2. PICK c : c = Chain(l, q)[m]
      OBVIOUS
    <2>3. c \in V /\ l[c].next # Nil
      <3>1. Followed(l, V, q, m)
        BY <2>1, KidNext
      <3> QED BY <2>2, <3>1 DEF Followed
    <2>4. x \in Subtree(l, c)
      BY <1>5, <1>7, <2>1, <2>2, <2>3
    <2>5. t \in Subtree(l, c)
      BY <2>3, <2>4
    <2> QED BY <1>5, <2>1, <2>2, <2>3, <2>5
  <1>11. \A q \in V : \A m \in 1..Len(kids[q]) :
            m + 1 \in 1..Len(kids[q]) /\ x \in below[kids[q][m]] => t \in below[kids[q][m]]
    BY <1>7
  <1>8. /\ j \in 1..Len(kids[p]) /\ j + 1 \in 1..Len(kids[p])
        /\ t = kids[p][j] /\ y = kids[p][j + 1] /\ x \in below[t]
    BY <1>1, <1>2, <1>5 DEF PlacedAt
  <1>12. NextOf(V, kids, below, x, t, y)
    BY <1>8, <1>11 DEF NextOf
  <1>9. ASSUME NEW z \in V
        PROVE  Leads(V, kids, below, x, z) /\ z \notin below[x] <=> z = y \/ Leads(V, kids, below, y, z)
    BY <1>6, <1>12, NextFollows
  <1> QED
    BY <1>0, <1>3, <1>4, <1>5, <1>9 DEF InOrder, AfterTree

\* The functions of the forest at a node.
LEMMA FunctionsAt ==
  ASSUME NEW l, NEW V, NEW a \in V
  PROVE  KidsIn(l, V)[a] = Chain(l, a) /\ BelowIn(l, V)[a] = Subtree(l, a)
  BY DEF KidsIn, BelowIn

\* The order of a tree, for the links.
LEMMA InOrderIs ==
  ASSUME NEW l, NEW V, NEW X, Good(l, V, X), V \subseteq 0..(count - 1), NEW a \in V
  PROVE  /\ ~InOrder(l, V, a, a)
         /\ \A b \in Subtree(l, a) : b # a => InOrder(l, V, a, b)
         /\ \A b, c \in V : InOrder(l, V, a, b) /\ InOrder(l, V, b, c) => InOrder(l, V, a, c)
         /\ \A b \in V : InOrder(l, V, a, b) => RootOf(l, a) = RootOf(l, b)
         /\ \A b \in V : RootOf(l, a) = RootOf(l, b) =>
               a = b \/ InOrder(l, V, a, b) \/ InOrder(l, V, b, a)
  <1>1. Ordered(V, KidsIn(l, V), BelowIn(l, V), RootsIn(l, V))
    BY ForestOrdered
  <1>2. ~InOrder(l, V, a, a)
    BY <1>1, LeadsOnce DEF InOrder
  <1>3. ASSUME NEW b \in Subtree(l, a), b # a PROVE InOrder(l, V, a, b)
    BY <1>3, FunctionsAt DEF InOrder, Leads
  <1>4. ASSUME NEW b \in V, NEW c \in V, InOrder(l, V, a, b), InOrder(l, V, b, c)
        PROVE  InOrder(l, V, a, c)
    BY <1>1, <1>4, LeadsTransitive DEF InOrder
  <1>5. \A b \in V : RootsIn(l, V)[b] = RootOf(l, b)
    BY DEF RootsIn
  <1>6. ASSUME NEW b \in V, InOrder(l, V, a, b) PROVE RootOf(l, a) = RootOf(l, b)
    <2>1. RootsIn(l, V)[a] = RootsIn(l, V)[b]
      BY <1>1, <1>6, LeadsInTree DEF InOrder
    <2> QED BY <1>5, <2>1
  <1>7. ASSUME NEW b \in V, RootOf(l, a) = RootOf(l, b)
        PROVE  a = b \/ InOrder(l, V, a, b) \/ InOrder(l, V, b, a)
    <2>1. RootsIn(l, V)[a] = RootsIn(l, V)[b]
      BY <1>5, <1>7
    <2> QED BY <1>1, <2>1, LeadsTotal DEF InOrder
  <1> QED
    BY <1>2, <1>3, <1>4, <1>6, <1>7

\* Siblings and what is below them are in the order of the siblings.
LEMMA SiblingsInOrder ==
  ASSUME NEW l, NEW V, NEW X, Good(l, V, X), V \subseteq 0..(count - 1), NEW p \in V,
         NEW j \in 1..Len(Chain(l, p)), NEW k \in 1..Len(Chain(l, p)), j < k,
         NEW a \in Subtree(l, Chain(l, p)[j]), NEW b \in Subtree(l, Chain(l, p)[k])
  PROVE  InOrder(l, V, a, b)
  <1>1. PICK kids : kids = KidsIn(l, V)
    OBVIOUS
  <1>2. PICK below : below = BelowIn(l, V)
    OBVIOUS
  <1>3. PICK c, d : c = Chain(l, p)[j] /\ d = Chain(l, p)[k]
    OBVIOUS
  <1>4. c \in V /\ d \in V
    <2>1. ChainOf(l, V, p, Chain(l, p))
      BY ChainIs
    <2> QED BY <1>3, <2>1 DEF ChainOf
  <1>5. kids[p] = Chain(l, p) /\ below[c] = Subtree(l, c) /\ below[d] = Subtree(l, d)
    BY <1>1, <1>2, <1>4, FunctionsAt
  <1>6. Splits(V, kids, below, a, b)
    BY <1>3, <1>5 DEF Splits
  <1> QED
    BY <1>1, <1>2, <1>6 DEF InOrder, Leads

\* Without a first child nothing is below.
LEMMA LeafBelow ==
  ASSUME NEW l, NEW V, NEW X, Good(l, V, X), V \subseteq 0..(count - 1), NEW x \in V,
         l[x].first = Nil
  PROVE  Subtree(l, x) = {x}
  <1>1. PICK c : c = Chain(l, x)
    OBVIOUS
  <1>2. ChainOf(l, V, x, c)
    BY <1>1, ChainIs
  <1>3. l[x].first = IF Len(c) = 0 THEN Nil ELSE c[1]
    BY <1>2, ChainSides DEF Sides
  <1>4. c \in Seq(V) /\ Nil \notin V
    BY <1>2, NilNoSlot DEF ChainOf, Good
  <1>5. Len(c) = 0
    BY <1>3, <1>4
  <1>6. \A b \in Subtree(l, x) : b = x
    <2> SUFFICES ASSUME NEW b \in Subtree(l, x), b # x PROVE FALSE
      OBVIOUS
    <2>1. \E j \in 1..Len(c) : b \in Subtree(l, c[j])
      BY <1>1, BelowKids
    <2> QED BY <1>5, <2>1
  <1>7. x \in Subtree(l, x)
    BY SubtreeBelow DEF Below, Upwards
  <1> QED
    BY <1>6, <1>7

\* The nodes after x are y and the nodes after y; y is Nil where there are none.
Follows(l, V, x, y) ==
  /\ y \in V \cup {Nil}
  /\ \A z \in V : InOrder(l, V, x, z) <=> y \in V /\ (z = y \/ InOrder(l, V, y, z))

\* After a node with children comes its first child.
LEMMA FirstInOrder ==
  ASSUME NEW l, NEW V, NEW X, Good(l, V, X), V \subseteq 0..(count - 1), NEW x \in V,
         NEW y, y = l[x].first, y # Nil
  PROVE  Follows(l, V, x, y)
  <1>1. PICK kids : kids = KidsIn(l, V)
    OBVIOUS
  <1>2. PICK below : below = BelowIn(l, V)
    OBVIOUS
  <1>3. PICK c : c = Chain(l, x)
    OBVIOUS
  <1>4. ChainOf(l, V, x, c)
    BY <1>3, ChainIs
  <1>5. l[x].first = IF Len(c) = 0 THEN Nil ELSE c[1]
    BY <1>4, ChainSides DEF Sides
  <1>6. 1 \in 1..Len(c) /\ y = c[1] /\ y \in V
    <2>1. c \in Seq(V)
      BY <1>4 DEF ChainOf
    <2> QED BY <1>5, <2>1
  <1>7. 1 \in 1..Len(kids[x]) /\ y = kids[x][1]
    BY <1>1, <1>3, <1>6, FunctionsAt
  <1>8. Ordered(V, kids, below, RootsIn(l, V))
    BY <1>1, <1>2, ForestOrdered
  <1>9. ASSUME NEW z \in V
        PROVE  Leads(V, kids, below, x, z) <=> z = y \/ Leads(V, kids, below, y, z)
    BY <1>7, <1>8, FirstFollows
  <1> QED
    BY <1>1, <1>2, <1>6, <1>9 DEF InOrder, Follows

\* Where no node above x has a sibling after it, only what is below x comes after it.
LEMMA NoneInOrder ==
  ASSUME NEW l, NEW V, NEW X, Good(l, V, X), V \subseteq 0..(count - 1), NEW x \in V,
         \A a \in V : x \in Subtree(l, a) => l[a].next = Nil,
         NEW z \in V, InOrder(l, V, x, z)
  PROVE  z \in Subtree(l, x)
  <1>1. PICK kids : kids = KidsIn(l, V)
    OBVIOUS
  <1>2. PICK below : below = BelowIn(l, V)
    OBVIOUS
  <1>3. \A a \in V : kids[a] = Chain(l, a) /\ below[a] = Subtree(l, a)
    BY <1>1, <1>2, FunctionsAt
  <1>4. Ordered(V, kids, below, RootsIn(l, V))
    BY <1>1, <1>2, ForestOrdered
  <1>5. ASSUME NEW q \in V, NEW m \in 1..Len(kids[q]), x \in below[kids[q][m]]
        PROVE  m + 1 \notin 1..Len(kids[q])
    <2> SUFFICES ASSUME m + 1 \in 1..Len(kids[q]) PROVE FALSE
      OBVIOUS
    <2>1. m \in 1..Len(Chain(l, q)) /\ m + 1 \in 1..Len(Chain(l, q)) /\ kids[q][m] = Chain(l, q)[m]
      BY <1>3
    <2>2. Followed(l, V, q, m)
      BY <2>1, KidNext
    <2>3. PICK c : c = Chain(l, q)[m]
      OBVIOUS
    <2>4. c \in V /\ l[c].next # Nil
      BY <2>2, <2>3 DEF Followed
    <2>5. x \in Subtree(l, c)
      BY <1>3, <1>5, <2>1, <2>3, <2>4
    <2> QED BY <2>4, <2>5
  <1>6. \A q \in V : \A m \in 1..Len(kids[q]) :
           x \in below[kids[q][m]] => m + 1 \notin 1..Len(kids[q])
    BY <1>5
  <1>7. Leads(V, kids, below, x, z)
    BY <1>1, <1>2 DEF InOrder
  <1>8. z \in below[x]
    BY <1>4, <1>6, <1>7, NoneFollows
  <1> QED
    BY <1>3, <1>8

\* Advance leads to the next node.
LEMMA AdvanceFollows ==
  ASSUME NEW l, NEW V, NEW X, Good(l, V, X), V \subseteq 0..(count - 1), NEW x \in V
  PROVE  Follows(l, V, x, Advance(l, Nil, x))
  <1>0. Nil \notin V
    BY NilNoSlot DEF Good
  <1>1. PICK y : y = Advance(l, Nil, x)
    OBVIOUS
  <1>2. ~InOrder(l, V, x, x)
    BY InOrderIs
  <1>3. CASE y = Nil
    <2>1. l[x].first = Nil /\ \A a \in V : x \in Subtree(l, a) => l[a].next = Nil
      BY <1>1, <1>3, AdvanceEnds
    <2>2. Subtree(l, x) = {x}
      BY <2>1, LeafBelow
    <2>3. \A z \in V : InOrder(l, V, x, z) => z \in Subtree(l, x)
      BY <2>1, NoneInOrder
    <2>4. \A z \in V : ~InOrder(l, V, x, z)
      BY <1>2, <2>2, <2>3
    <2> QED BY <1>0, <1>1, <1>3, <2>4 DEF Follows
  <1>4. CASE y # Nil
    <2>1. After(l, V, x, y) /\ y \in V
      BY <1>1, <1>4, AdvanceIs
    <2>2. CASE l[x].first = y
      BY <1>1, <1>4, <2>2, FirstInOrder
    <2>3. CASE l[x].first # y
      <3>1. PICK top \in V : /\ l[x].first = Nil /\ l[top].next = y
                             /\ \E C : Climb(l, V, x, top, C)
        BY <2>1, <2>3 DEF After
      <3>2. PICK C : Climb(l, V, x, top, C)
        BY <3>1
      <3>3. /\ x \in Subtree(l, top)
            /\ \A a \in V : x \in Subtree(l, a) /\ l[a].next # Nil => top \in Subtree(l, a)
        BY <3>2, ClimbNearest
      <3>4. AfterTree(l, V, x, y)
        BY <1>4, <3>1, <3>3, NextInOrder
      <3>5. Subtree(l, x) = {x}
        BY <3>1, LeafBelow
      <3>6. \A z \in V : InOrder(l, V, x, z) => z \notin Subtree(l, x)
        BY <1>2, <3>5
      <3> QED BY <1>1, <2>1, <3>4, <3>6 DEF AfterTree, Follows
    <2> QED BY <2>2, <2>3
  <1> QED
    BY <1>3, <1>4

\* Following last children never comes back either: every one of them leads up again.
LEMMA LastEnds ==
  ASSUME NEW l, NEW V, NEW X, Good(l, V, X)
  PROVE  NoCycle(l, "last")
  <1> SUFFICES ASSUME NEW W \in SUBSET Slot, W # {}, \A x \in W : l[x]["last"] \in W
               PROVE  FALSE
    BY DEF NoCycle
  <1>0. Nil \notin Slot /\ IsFiniteSet(W) /\ NoCycle(l, "parent")
    BY NilNoSlot, SlotsCount, FS_Subset DEF Good
  <1>1. ASSUME NEW x \in W PROVE l[x].last \in W /\ l[l[x].last].parent = x
    <2>1. l[x].last \in W /\ l[x].last # Nil /\ x \in Slot
      BY <1>0
    <2>2. x \in V
      <3> SUFFICES ASSUME x \notin V PROVE FALSE
        OBVIOUS
      <3>1. l[x] = Blank
        BY <2>1 DEF Good
      <3> QED BY <2>1, <3>1 DEF Blank
    <2>3. NearEnds(l, x)
      BY <2>2 DEF Good
    <2> QED BY <2>1, <2>3 DEF NearEnds
  <1>2. PICK f : f = [x \in W |-> l[x].last]
    OBVIOUS
  <1>3. f \in [W -> W] /\ \A x \in W : f[x] = l[x].last
    BY <1>1, <1>2
  <1>4. f \in Injection(W, W)
    <2>1. \A x, y \in W : f[x] = f[y] => x = y
      BY <1>1, <1>3
    <2> QED BY <1>3, <2>1 DEF Injection, IsInjective
  <1>5. f \in Surjection(W, W)
    BY <1>0, <1>4, FS_Injection
  <1>6. \A w \in W : \E x \in W : f[x] = w
    BY <1>5 DEF Surjection
  <1>7. \A w \in W : l[w]["parent"] \in W
    BY <1>1, <1>3, <1>6
  <1> QED
    BY <1>0, <1>7 DEF NoCycle

\* e is the last node of the tree below d.
LastOf(l, V, d, e) == e \in Subtree(l, d) /\ \A z \in Subtree(l, d) : z = e \/ InOrder(l, V, z, e)

\* What of the tree below d comes no earlier than x is below x.
EndsIn(l, V, d, x) ==
  x \in Subtree(l, d) /\ \A z \in Subtree(l, d) : z \in Subtree(l, x) \/ InOrder(l, V, z, x)

\* That passes on to the last child.
LEMMA LastEndsIn ==
  ASSUME NEW l, NEW V, NEW X, Good(l, V, X), V \subseteq 0..(count - 1), NEW d \in V,
         NEW y \in V, EndsIn(l, V, d, y), NEW x \in V, l[x].parent = y, l[x].next = Nil
  PROVE  EndsIn(l, V, d, x)
  <1>1. PICK c : c = Chain(l, y)
    OBVIOUS
  <1>2. ChainOf(l, V, y, c)
    BY <1>1, ChainIs
  <1>3. c \in Seq(V) /\ Len(c) \in 1..Len(c) /\ x = c[Len(c)]
    <2>1. c \in Seq(V) /\ Nil \notin V
      BY <1>2, NilNoSlot DEF ChainOf, Good
    <2>2. PICK k \in 1..Len(c) : c[k] = x
      BY <1>2 DEF ChainOf
    <2>3. \A m \in 1..Len(c) : l[c[m]].next = IF m = Len(c) THEN Nil ELSE c[m + 1]
      BY <1>2, ChainSides DEF Sides
    <2>4. k = Len(c)
      <3> SUFFICES ASSUME k # Len(c) PROVE FALSE
        OBVIOUS
      <3>1. k + 1 \in 1..Len(c) /\ c[k + 1] \in V
        BY <2>1
      <3> QED BY <2>1, <2>2, <2>3, <3>1
    <2> QED BY <2>1, <2>2, <2>4
  <1>4. x \in Subtree(l, y) /\ x # y
    <2>1. Below(l, V, y, Subtree(l, y))
      BY SubtreeBelow
    <2>2. x \in Subtree(l, y)
      BY <2>1 DEF Below, Upwards, Downwards
    <2>3. x # y
      <3>1. NoCycle(l, "parent") /\ {x} \in SUBSET Slot
        BY DEF Good
      <3> QED BY <3>1 DEF NoCycle
    <2> QED BY <2>2, <2>3
  <1>5. InOrder(l, V, y, x)
    BY <1>4, InOrderIs
  <1>6. x \in Subtree(l, d)
    <2>1. y \in Subtree(l, d)
      BY DEF EndsIn
    <2> QED BY <1>4, <2>1, RootBelow
  <1>7. ASSUME NEW z \in Subtree(l, d) PROVE z \in Subtree(l, x) \/ InOrder(l, V, z, x)
    <2>0. z \in V
      BY <1>7, RootBelow
    <2>1. CASE InOrder(l, V, z, y)
      BY <1>3, <1>5, <2>0, <2>1, InOrderIs
    <2>2. CASE z = y
      BY <1>5, <2>2
    <2>3. CASE z \in Subtree(l, y) /\ z # y
      <3>1. PICK j \in 1..Len(c) : z \in Subtree(l, c[j])
        BY <1>1, <2>3, BelowKids
      <3>2. CASE j = Len(c)
        BY <1>3, <3>1, <3>2
      <3>3. CASE j # Len(c)
        <4>1. j < Len(c)
          BY <1>3, <3>3
        <4>2. x \in Subtree(l, x)
          BY <1>3, SubtreeBelow DEF Below, Upwards
        <4>3. InOrder(l, V, z, x)
          BY <1>1, <1>3, <3>1, <4>1, <4>2, SiblingsInOrder
        <4> QED BY <4>3
      <3> QED BY <3>2, <3>3
    <2>4. z \in Subtree(l, y) \/ InOrder(l, V, z, y)
      BY DEF EndsIn
    <2> QED BY <2>1, <2>2, <2>3, <2>4
  <1> QED
    BY <1>6, <1>7 DEF EndsIn

\* Last children lead from d to the last node of its tree.
LEMMA LastIs ==
  ASSUME NEW l, NEW V, NEW X, Good(l, V, X), V \subseteq 0..(count - 1), NEW d \in V
  PROVE  /\ \E e \in Trail(l, d, "last") : l[e].last = Nil
         /\ \A e \in Trail(l, d, "last") : l[e].last = Nil => e \in V /\ LastOf(l, V, d, e)
  <1>0. /\ V \subseteq Slot /\ Nil \notin Slot /\ Typed(l) /\ d \in Link /\ d # Nil
        /\ NoCycle(l, "parent") /\ "last" \in {"parent", "next", "last"} /\ NoCycle(l, "last")
    BY NilNoSlot, LastEnds DEF Good, Link
  <1>1. PICK T : T = Trail(l, d, "last")
    OBVIOUS
  <1>2. T \subseteq Slot /\ d \in T /\ \A x \in T : l[x]["last"] \in T \cup {Nil}
    BY <1>0, <1>1, TrailClosed
  <1>3. \E e \in T : l[e].last = Nil
    <2>1. T # {} /\ T \in SUBSET Slot
      BY <1>2
    <2>2. \E e \in T : l[e]["last"] \notin T
      BY <1>0, <2>1 DEF NoCycle
    <2> QED BY <1>2, <2>2
  <1>4. \A x \in T : x # d => \E y \in T : l[y]["last"] = x
    BY <1>0, <1>1, TrailLinked
  <1> DEFINE W == {x \in T : ~(x \in V /\ EndsIn(l, V, d, x))}
  <1>5. d \notin W
    <2>1. d \in Subtree(l, d)
      BY SubtreeBelow DEF Below, Upwards
    <2> QED BY <2>1 DEF EndsIn
  <1>6. ASSUME NEW x \in W PROVE l[x]["parent"] \in W
    <2>1. PICK y \in T : l[y]["last"] = x
      BY <1>4, <1>5
    <2>2. x \in T /\ x # Nil /\ y \in Slot
      BY <1>0, <1>2
    <2>3. y \in V
      <3> SUFFICES ASSUME y \notin V PROVE FALSE
        OBVIOUS
      <3>1. l[y] = Blank
        BY <2>2 DEF Good
      <3> QED BY <2>1, <2>2, <3>1 DEF Blank
    <2>4. x \in V /\ l[x].parent = y /\ l[x].next = Nil
      <3>1. NearEnds(l, y) /\ l[y].last \in V \cup {Nil}
        BY <2>3 DEF Good, Within
      <3> QED BY <2>1, <2>2, <3>1 DEF NearEnds
    <2>5. y \in W
      <3> SUFFICES ASSUME EndsIn(l, V, d, y) PROVE FALSE
        OBVIOUS
      <3>1. EndsIn(l, V, d, x)
        BY <2>3, <2>4, LastEndsIn
      <3> QED BY <2>4, <3>1
    <2> QED BY <2>4, <2>5
  <1>7. W = {}
    <2> SUFFICES ASSUME W # {} PROVE FALSE
      OBVIOUS
    <2>1. W \in SUBSET Slot
      BY <1>2
    <2> HIDE DEF W
    <2> QED BY <1>0, <1>6, <2>1 DEF NoCycle
  <1>8. ASSUME NEW e \in T, l[e].last = Nil PROVE e \in V /\ LastOf(l, V, d, e)
    <2>1. e \in V /\ EndsIn(l, V, d, e)
      BY <1>7
    <2>2. l[e].first = Nil
      <3>1. NearEnds(l, e)
        BY <2>1 DEF Good
      <3> QED BY <1>8, <3>1 DEF NearEnds
    <2>3. Subtree(l, e) = {e}
      BY <2>1, <2>2, LeafBelow
    <2> QED BY <2>1, <2>3 DEF EndsIn, LastOf
  <1> QED
    BY <1>1, <1>3, <1>8

\* A step of the walk of Preceding.
Backward(l, x) ==
  IF l[x].prev # Nil THEN CHOOSE e \in Trail(l, l[x].prev, "last") : l[e].last = Nil
  ELSE l[x].parent

\* The nodes before x are y and the nodes before y; y is Nil where there are none.
Precedes(l, V, x, y) ==
  /\ y \in V \cup {Nil}
  /\ \A z \in V : InOrder(l, V, z, x) <=> y \in V /\ (z = y \/ InOrder(l, V, z, y))

\* Nothing comes before a root in its tree.
LEMMA RootFirst ==
  ASSUME NEW l, NEW V, NEW X, Good(l, V, X), V \subseteq 0..(count - 1), NEW x \in V,
         l[x].parent = Nil, NEW z \in V
  PROVE  ~InOrder(l, V, z, x)
  <1> SUFFICES ASSUME InOrder(l, V, z, x) PROVE FALSE
    OBVIOUS
  <1>1. x = RootOf(l, x)
    <2>1. x \in Subtree(l, x)
      BY SubtreeBelow DEF Below, Upwards
    <2> QED BY <2>1, RootIs
  <1>2. RootOf(l, z) = x
    BY <1>1, InOrderIs
  <1>3. z \in Subtree(l, x)
    BY <1>2, RootIs
  <1>4. z # x
    BY InOrderIs
  <1>5. InOrder(l, V, x, z)
    BY <1>3, <1>4, InOrderIs
  <1> QED
    BY <1>5, InOrderIs

\* The walk of Preceding goes back by one node.
LEMMA BackPrecedes ==
  ASSUME NEW l, NEW V, NEW X, Good(l, V, X), V \subseteq 0..(count - 1), NEW x \in V
  PROVE  Precedes(l, V, x, Backward(l, x))
  <1>0. Nil \notin V /\ Within(l, V) /\ NearSides(l, x)
    BY NilNoSlot DEF Good
  <1>1. CASE l[x].parent = Nil
    <2>1. Backward(l, x) = Nil
      BY <1>0, <1>1 DEF Backward, NearSides
    <2>2. \A z \in V : ~InOrder(l, V, z, x)
      BY <1>1, RootFirst
    <2> QED BY <1>0, <2>1, <2>2 DEF Precedes
  <1>2. CASE l[x].parent # Nil
    <2>1. PICK p \in V, j \in Nat : PlacedAt(l, x, p, j)
      BY <1>2, PlaceOf
    <2>2. PICK c : c = Chain(l, p)
      OBVIOUS
    <2>3. /\ p = l[x].parent /\ j \in 1..Len(c) /\ c[j] = x /\ Len(c) \in Nat
          /\ l[x].prev = IF j = 1 THEN Nil ELSE c[j - 1]
      BY <2>1, <2>2 DEF PlacedAt
    <2>4. PICK kids : kids = KidsIn(l, V)
      OBVIOUS
    <2>5. PICK below : below = BelowIn(l, V)
      OBVIOUS
    <2>6. Ordered(V, kids, below, RootsIn(l, V))
      BY <2>4, <2>5, ForestOrdered
    <2>7. kids[p] = c
      BY <2>2, <2>4, FunctionsAt
    <2>8. CASE j = 1
      <3>1. Backward(l, x) = p
        BY <2>3, <2>8 DEF Backward
      <3>2. 1 \in 1..Len(kids[p]) /\ x = kids[p][1]
        BY <2>3, <2>7, <2>8
      <3>3. ASSUME NEW z \in V
            PROVE  Leads(V, kids, below, z, x) <=> z = p \/ Leads(V, kids, below, z, p)
        BY <2>6, <3>2, ParentLeads
      <3> QED BY <2>4, <2>5, <3>1, <3>3 DEF Precedes, InOrder
    <2>9. CASE j # 1
      <3>1. PICK d : d = c[j - 1]
        OBVIOUS
      <3>2. d \in V
        <4>1. ChainOf(l, V, p, c)
          BY <2>2, ChainIs
        <4>2. j - 1 \in 1..Len(c)
          BY <2>3, <2>9
        <4> QED BY <3>1, <4>1, <4>2 DEF ChainOf
      <3>3. PICK e : e = CHOOSE w \in Trail(l, d, "last") : l[w].last = Nil
        OBVIOUS
      <3>4. e \in Trail(l, d, "last") /\ l[e].last = Nil
        <4>1. \E w \in Trail(l, d, "last") : l[w].last = Nil
          BY <3>2, LastIs
        <4> QED BY <3>3, <4>1
      <3>5. e \in V /\ LastOf(l, V, d, e)
        BY <3>2, <3>4, LastIs
      <3>6. Backward(l, x) = e
        BY <1>0, <2>3, <2>9, <3>1, <3>2, <3>3 DEF Backward
      <3>7. PrevOf(V, kids, below, x, d, e)
        <4>1. j - 1 \in 1..Len(kids[p]) /\ (j - 1) + 1 \in 1..Len(kids[p]) /\ (j - 1) + 1 = j
          BY <2>3, <2>7, <2>9
        <4>2. d = kids[p][j - 1] /\ x = kids[p][(j - 1) + 1]
          BY <2>3, <2>7, <3>1, <4>1
        <4>3. below[d] = Subtree(l, d)
          BY <2>5, <3>2, FunctionsAt
        <4>4. \A z \in below[d] : z = e \/ Leads(V, kids, below, z, e)
          BY <2>4, <2>5, <3>5, <4>3 DEF LastOf, InOrder
        <4> QED BY <3>5, <4>1, <4>2, <4>3, <4>4 DEF PrevOf, LastOf
      <3>8. ASSUME NEW z \in V
            PROVE  Leads(V, kids, below, z, x) <=> z = e \/ Leads(V, kids, below, z, e)
        BY <2>6, <3>5, <3>7, PrevLeads
      <3> QED BY <2>4, <2>5, <3>5, <3>6, <3>8 DEF Precedes, InOrder
    <2> QED BY <2>8, <2>9
  <1> QED
    BY <1>1, <1>2

\* at goes from i along the order R: each step leads to what comes next, and to Nil at the end.
Lined(at, V, R, i) ==
  /\ i \in V /\ at[0] = i
  /\ \A n \in 1..Capacity : at[n - 1] = Nil => at[n] = Nil
  /\ \A n \in 1..Capacity : at[n - 1] \in V =>
       /\ at[n] \in V \cup {Nil}
       /\ \A z \in V : <<at[n - 1], z>> \in R <=> at[n] \in V /\ (z = at[n] \/ <<at[n], z>> \in R)

\* R is an order of V, of one node after another.
Strict(V, R) ==
  /\ \A a \in V : <<a, a>> \notin R
  /\ \A a, b, c \in V : <<a, b>> \in R /\ <<b, c>> \in R => <<a, c>> \in R

\* The first K places of at are i and what comes after it, in order, and nothing else.
Spans(at, V, R, i, K) ==
  /\ K \in 1..Capacity /\ at[0] = i
  /\ \A n \in 0..(K - 1) : at[n] \in V
  /\ \A n \in K..Capacity : at[n] = Nil
  /\ \A m, n \in 0..(K - 1) : m < n => <<at[m], at[n]>> \in R
  /\ \A z \in V : <<i, z>> \in R => \E n \in 1..(K - 1) : at[n] = z

\* Such a walk leaves a finite order, and then it met everything.
LEMMA LinedSpans ==
  ASSUME NEW V \in SUBSET Slot, NEW R, Strict(V, R), NEW i, NEW at, Lined(at, V, R, i)
  PROVE  \E K \in 1..Capacity : Spans(at, V, R, i, K)
  <1>0. /\ Capacity \in Nat \ {0} /\ Nil \notin V /\ IsFiniteSet(Slot) /\ Cardinality(Slot) = Capacity
        /\ i \in V /\ at[0] = i
    BY SlotsCount, NilNoSlot DEF Lined
  <1>1. ASSUME NEW n \in Nat, n + 1 <= Capacity, at[n] \in V
        PROVE  /\ at[n + 1] \in V \cup {Nil}
               /\ \A z \in V : <<at[n], z>> \in R <=> at[n + 1] \in V /\ (z = at[n + 1] \/ <<at[n + 1], z>> \in R)
    <2>1. n + 1 \in 1..Capacity /\ (n + 1) - 1 = n
      BY <1>0, <1>1
    <2> QED BY <1>1, <2>1 DEF Lined
  <1>2. ASSUME NEW n \in Nat, n + 1 <= Capacity, at[n] = Nil
        PROVE  at[n + 1] = Nil
    <2>1. n + 1 \in 1..Capacity /\ (n + 1) - 1 = n
      BY <1>0, <1>2
    <2> QED BY <1>2, <2>1 DEF Lined
  <1> DEFINE S == {n \in Nat : n <= Capacity => at[n] \in V \cup {Nil}}
  <1>3. \A n \in Nat : n <= Capacity => at[n] \in V \cup {Nil}
    <2>1. 0 \in S
      BY <1>0
    <2>2. ASSUME NEW n \in Nat, n \in S PROVE n + 1 \in S
      <3> SUFFICES ASSUME n + 1 <= Capacity PROVE at[n + 1] \in V \cup {Nil}
        OBVIOUS
      <3>1. at[n] \in V \cup {Nil}
        BY <1>0, <2>2
      <3> QED BY <1>1, <1>2, <3>1
    <2>3. Nat \subseteq S
      <3> HIDE DEF S
      <3> QED BY <2>1, <2>2, Induction
    <2> QED BY <2>3
  <1> DEFINE Passed(n) == \A m \in 0..(n - 1) : at[m] \in V /\ <<at[m], at[n]>> \in R
             T == {n \in Nat : n <= Capacity /\ at[n] \in V => Passed(n)}
  <1>4. \A n \in Nat : n <= Capacity /\ at[n] \in V => Passed(n)
    <2>1. 0 \in T
      OBVIOUS
    <2>2. ASSUME NEW n \in Nat, n \in T PROVE n + 1 \in T
      <3> SUFFICES ASSUME n + 1 <= Capacity, at[n + 1] \in V, NEW m \in 0..((n + 1) - 1)
                   PROVE  at[m] \in V /\ <<at[m], at[n + 1]>> \in R
        OBVIOUS
      <3>1. at[n] \in V
        BY <1>0, <1>2, <1>3
      <3>2. <<at[n], at[n + 1]>> \in R
        BY <1>1, <3>1
      <3>3. CASE m = n
        BY <3>1, <3>2, <3>3
      <3>4. CASE m # n
        <4>1. m \in 0..(n - 1) /\ n <= Capacity
          BY <1>0, <3>4
        <4>2. at[m] \in V /\ <<at[m], at[n]>> \in R
          BY <2>2, <3>1, <4>1
        <4> QED BY <3>1, <3>2, <4>2 DEF Strict
      <3> QED BY <3>3, <3>4
    <2>3. Nat \subseteq T
      <3> HIDE DEF T
      <3> QED BY <2>1, <2>2, Induction
    <2> QED BY <2>3
  <1>5. \E n \in 0..Capacity : at[n] = Nil
    <2> SUFFICES ASSUME \A n \in 0..Capacity : at[n] # Nil PROVE FALSE
      OBVIOUS
    <2>1. \A n \in 0..Capacity : at[n] \in V
      BY <1>0, <1>3
    <2>2. ASSUME NEW m \in 0..Capacity, NEW n \in 0..Capacity, m < n PROVE at[m] # at[n]
      <3>1. n \in Nat /\ n <= Capacity /\ m \in 0..(n - 1) /\ at[n] \in V
        BY <1>0, <2>1, <2>2
      <3>2. <<at[m], at[n]>> \in R
        BY <1>4, <3>1
      <3> QED BY <3>1, <3>2 DEF Strict
    <2>3. \A m, n \in 0..Capacity : at[m] = at[n] => m = n
      BY <1>0, <2>2
    <2>4. PICK f : f = [n \in 0..Capacity |-> at[n]]
      OBVIOUS
    <2>5. f \in Injection(0..Capacity, Slot)
      BY <2>1, <2>3, <2>4 DEF Injection, IsInjective
    <2>6. Cardinality(0..Capacity) <= Capacity
      BY <1>0, <2>5, FS_Injection, Zenon
    <2>7. Cardinality(0..Capacity) = Capacity + 1
      BY <1>0, FS_Interval
    <2> QED BY <1>0, <2>6, <2>7
  <1>6. PICK K \in 0..Capacity : at[K] = Nil /\ \A n \in 0..Capacity : at[n] = Nil => K <= n
    <2> DEFINE Z == {n \in 0..Capacity : at[n] = Nil}
    <2>1. Z \in SUBSET Nat /\ Z # {}
      BY <1>0, <1>5
    <2>2. \E x \in Z : \A y \in Z : x <= y
      <3> HIDE DEF Z
      <3> QED BY <2>1, LeastNat
    <2> QED BY <2>2
  <1>7. K \in 1..Capacity /\ K \in Nat
    <2>1. K # 0
      BY <1>0, <1>6
    <2> QED BY <1>0, <2>1
  <1>8. ASSUME NEW n \in 0..(K - 1) PROVE at[n] \in V /\ n \in Nat /\ n <= Capacity
    <2>1. n \in 0..Capacity /\ ~(K <= n) /\ n \in Nat /\ n <= Capacity
      BY <1>0, <1>7
    <2> QED BY <1>3, <1>6, <2>1
  <1>9. ASSUME NEW n \in K..Capacity PROVE at[n] = Nil
    <2>1. n \in Nat /\ n <= Capacity /\ (n = K \/ K \in 0..(n - 1))
      BY <1>0, <1>7
    <2>2. ASSUME at[n] \in V, K \in 0..(n - 1) PROVE FALSE
      BY <1>0, <1>4, <1>6, <2>1, <2>2
    <2> QED BY <1>3, <1>6, <2>1, <2>2
  <1>10. ASSUME NEW m \in 0..(K - 1), NEW n \in 0..(K - 1), m < n PROVE <<at[m], at[n]>> \in R
    <2>1. m \in 0..(n - 1)
      BY <1>7, <1>10
    <2> QED BY <1>4, <1>8, <2>1
  <1>11. ASSUME NEW z \in V, <<i, z>> \in R PROVE \E n \in 1..(K - 1) : at[n] = z
    <2> SUFFICES ASSUME \A n \in 1..(K - 1) : at[n] # z PROVE FALSE
      OBVIOUS
    <2> DEFINE U == {n \in Nat : n <= K - 1 => <<at[n], z>> \in R}
    <2>1. 0 \in U
      BY <1>0, <1>11
    <2>2. ASSUME NEW n \in Nat, n \in U PROVE n + 1 \in U
      <3> SUFFICES ASSUME n + 1 <= K - 1 PROVE <<at[n + 1], z>> \in R
        OBVIOUS
      <3>1. n \in 0..(K - 1) /\ n + 1 \in 1..(K - 1) /\ n + 1 <= Capacity /\ n <= K - 1
        BY <1>0, <1>7
      <3>2. at[n] \in V /\ <<at[n], z>> \in R
        BY <1>8, <2>2, <3>1
      <3> QED BY <1>1, <3>1, <3>2
    <2>3. Nat \subseteq U
      <3> HIDE DEF U
      <3> QED BY <2>1, <2>2, Induction
    <2>4. K - 1 \in Nat /\ K - 1 \in 0..(K - 1) /\ (K - 1) + 1 = K /\ (K - 1) + 1 <= Capacity
      BY <1>7
    <2>5. <<at[K - 1], z>> \in R /\ at[K - 1] \in V
      BY <1>8, <2>3, <2>4
    <2>6. at[K] \in V
      BY <1>1, <2>4, <2>5
    <2> QED BY <1>0, <1>6, <2>6
  <1> QED
    BY <1>0, <1>7, <1>8, <1>9, <1>10, <1>11 DEF Spans

NodesOn(at) == Cardinality({n \in DOMAIN at : at[n] # Nil})

\* The places that are not Nil are the first K.
LEMMA SpansCount ==
  ASSUME NEW V \in SUBSET Slot, NEW R, NEW i, NEW at, DOMAIN at = 0..Capacity,
         NEW K \in 1..Capacity, Spans(at, V, R, i, K)
  PROVE  NodesOn(at) = K
  <1>1. Capacity \in Nat /\ Nil \notin V /\ K \in Nat /\ K <= Capacity
    BY SlotsCount, NilNoSlot
  <1>2. \A n \in 0..Capacity : n \in 0..(K - 1) \/ n \in K..Capacity
    BY <1>1
  <1>3. \A n \in 0..(K - 1) : n \in 0..Capacity
    BY <1>1
  <1>4. {n \in DOMAIN at : at[n] # Nil} = 0..(K - 1)
    BY <1>1, <1>2, <1>3 DEF Spans
  <1>5. Cardinality(0..(K - 1)) = K
    BY <1>1, FS_Interval
  <1> QED
    BY <1>4, <1>5 DEF NodesOn

-----------------------------------------------------------------------------
(* Pre order.                                                              *)

\* Document order as a set of pairs.
Pairs(l, V) == {w \in V \X V : InOrder(l, V, w[1], w[2])}
LEMMA PairsAre ==
  ASSUME NEW l, NEW V, NEW a \in V, NEW b \in V
  PROVE  <<a, b>> \in Pairs(l, V) <=> InOrder(l, V, a, b)
  BY DEF Pairs

\* It is an order.
LEMMA PairsStrict ==
  ASSUME NEW l, NEW V, NEW X, Good(l, V, X), V \subseteq 0..(count - 1)
  PROVE  Strict(V, Pairs(l, V))
  <1>1. ASSUME NEW a \in V PROVE <<a, a>> \notin Pairs(l, V)
    <2>1. ~InOrder(l, V, a, a)
      BY InOrderIs
    <2> QED BY <2>1, PairsAre
  <1>2. ASSUME NEW a \in V, NEW b \in V, NEW c \in V,
               <<a, b>> \in Pairs(l, V), <<b, c>> \in Pairs(l, V)
        PROVE  <<a, c>> \in Pairs(l, V)
    <2>1. InOrder(l, V, a, b) /\ InOrder(l, V, b, c)
      BY <1>2, PairsAre
    <2>2. InOrder(l, V, a, c)
      BY <2>1, InOrderIs
    <2> QED BY <2>2, PairsAre
  <1> QED
    BY <1>1, <1>2 DEF Strict

\* walk is i and all that comes after it in its tree, in order.
InTurn(l, V, i, walk) ==
  /\ walk \in Seq(V) /\ Len(walk) \in 1..Capacity /\ walk[1] = i
  /\ \A j, k \in 1..Len(walk) : j < k => InOrder(l, V, walk[j], walk[k])
  /\ \A z \in V : InOrder(l, V, i, z) => \E k \in 1..Len(walk) : walk[k] = z

\* The unbounded pre order walk does that.
LEMMA PreOrderInTurn ==
  ASSUME NEW l, NEW V, NEW X, Good(l, V, X), V \subseteq 0..(count - 1), NEW i \in V
  PROVE  InTurn(l, V, i, PreOrder(l, i))
  <1>0. Nil \notin V /\ V \in SUBSET Slot /\ Capacity \in Nat \ {0}
    BY NilNoSlot, SlotsCount DEF Good
  <1>1. PICK R : R = Pairs(l, V)
    OBVIOUS
  <1>2. Strict(V, R) /\ \A a, b \in V : <<a, b>> \in R <=> InOrder(l, V, a, b)
    BY <1>1, PairsStrict, PairsAre
  <1>3. PICK walk : walk = PreOrder(l, i)
    OBVIOUS
  <1>4. PICK at : Toured(at, l, i, walk)
    BY <1>3, PreOrderTour
  <1>5. IsTour(at, Capacity, l, i) /\ walk = [k \in 1..Cardinality({n \in DOMAIN at : at[n] # Nil}) |-> at[k - 1]]
    BY <1>4 DEF Toured
  <1>6. /\ DOMAIN at = 0..Capacity /\ at[0] = i
        /\ \A n \in 1..Capacity : at[n] = Ahead(l, at[n - 1])
    <2>1. DOMAIN at = 0..Capacity /\ \A n \in 0..Capacity : at[n] = IF n = 0 THEN i ELSE Ahead(l, at[n - 1])
      BY <1>5 DEF IsTour
    <2> QED BY <1>0, <2>1
  <1>7. ASSUME NEW x \in V
        PROVE  /\ Ahead(l, x) \in V \cup {Nil}
               /\ \A z \in V : <<x, z>> \in R <=> Ahead(l, x) \in V /\ (z = Ahead(l, x) \/ <<Ahead(l, x), z>> \in R)
    <2>1. Ahead(l, x) = Advance(l, Nil, x)
      BY <1>0 DEF Ahead
    <2>2. Follows(l, V, x, Ahead(l, x))
      BY <2>1, AdvanceFollows
    <2> QED BY <1>2, <2>2 DEF Follows
  <1>8. Lined(at, V, R, i)
    <2>1. ASSUME NEW n \in 1..Capacity, at[n - 1] = Nil PROVE at[n] = Nil
      BY <1>6, <2>1 DEF Ahead
    <2>2. ASSUME NEW n \in 1..Capacity, at[n - 1] \in V
          PROVE  /\ at[n] \in V \cup {Nil}
                 /\ \A z \in V : <<at[n - 1], z>> \in R <=> at[n] \in V /\ (z = at[n] \/ <<at[n], z>> \in R)
      <3>1. PICK x \in V : x = at[n - 1]
        BY <2>2
      <3>2. at[n] = Ahead(l, x)
        BY <1>6, <3>1
      <3> QED BY <1>7, <3>1, <3>2
    <2> QED BY <1>6, <2>1, <2>2 DEF Lined
  <1>9. PICK K \in 1..Capacity : Spans(at, V, R, i, K)
    BY <1>0, <1>2, <1>8, LinedSpans
  <1>10. walk = [k \in 1..K |-> at[k - 1]]
    <2>1. NodesOn(at) = K
      BY <1>0, <1>6, <1>9, SpansCount
    <2> QED BY <1>5, <2>1 DEF NodesOn
  <1>11. K \in Nat /\ 1 \in 1..K /\ K \in 1..Capacity /\ \A k \in 1..K : k - 1 \in 0..(K - 1)
    BY <1>0
  <1>12. walk \in Seq(V) /\ Len(walk) = K /\ walk[1] = i
    <2>1. \A k \in 1..K : at[k - 1] \in V
      BY <1>9, <1>11 DEF Spans
    <2> QED BY <1>6, <1>10, <1>11, <2>1
  <1>13. ASSUME NEW j \in 1..K, NEW k \in 1..K, j < k PROVE InOrder(l, V, walk[j], walk[k])
    <2>1. <<at[j - 1], at[k - 1]>> \in R
      BY <1>9, <1>11, <1>13 DEF Spans
    <2>2. at[j - 1] \in V /\ at[k - 1] \in V
      BY <1>9, <1>11 DEF Spans
    <2> QED BY <1>2, <1>10, <2>1, <2>2
  <1>14. ASSUME NEW z \in V, InOrder(l, V, i, z) PROVE \E k \in 1..K : walk[k] = z
    <2>1. <<i, z>> \in R
      BY <1>2, <1>14
    <2>2. PICK n \in 1..(K - 1) : at[n] = z
      BY <1>9, <2>1 DEF Spans
    <2>3. n + 1 \in 1..K /\ (n + 1) - 1 = n
      BY <1>11
    <2> QED BY <1>10, <2>2, <2>3
  <1> QED
    BY <1>3, <1>11, <1>12, <1>13, <1>14 DEF InTurn

-----------------------------------------------------------------------------
(* The following and the preceding axis.                                   *)

\* A walk in turn meets i and what comes after it.
LEMMA InTurnSet ==
  ASSUME NEW l, NEW V, NEW i \in V, NEW walk, InTurn(l, V, i, walk)
  PROVE  ToSet(walk) = {z \in V : z = i \/ InOrder(l, V, i, z)}
  <1>1. /\ walk \in Seq(V) /\ Len(walk) \in Nat /\ 1 \in 1..Len(walk) /\ walk[1] = i
        /\ \A j, k \in 1..Len(walk) : j < k => InOrder(l, V, walk[j], walk[k])
        /\ \A z \in V : InOrder(l, V, i, z) => \E k \in 1..Len(walk) : walk[k] = z
    BY SlotsCount DEF InTurn
  <1>2. \A x : x \in ToSet(walk) <=> \E k \in 1..Len(walk) : walk[k] = x
    BY <1>1 DEF ToSet
  <1>3. ASSUME NEW k \in 1..Len(walk) PROVE walk[k] = i \/ InOrder(l, V, i, walk[k])
    <2>1. k = 1 \/ 1 < k
      BY <1>1
    <2> QED BY <1>1, <2>1
  <1>4. \A k \in 1..Len(walk) : walk[k] \in V
    BY <1>1
  <1> QED
    BY <1>1, <1>2, <1>3, <1>4

\* list is the part of the tree of i that comes after it and is not below it, in order.
FollowingOf(i, list) ==
  /\ list \in Seq(live)
  /\ \A z \in live : z \in ToSet(list) <=> InOrder(links, live, i, z) /\ z \notin Subtree(links, i)
  /\ \A j, k \in 1..Len(list) : j < k => InOrder(links, live, list[j], list[k])

\* Following is that.
LEMMA FollowingIs ==
  ASSUME Linked, NEW i \in live
  PROVE  FollowingOf(i, Following(i))
  <1>0. Good(links, live, texts) /\ live \subseteq 0..(count - 1) /\ Nil \notin live
    BY NilNoSlot DEF Linked, Good, Places
  <1>1. PICK up : up = Trail(links, i, "parent")
    OBVIOUS
  <1>2. \A a : a \in up <=> a \in live /\ i \in Subtree(links, a)
    BY <1>0, <1>1, TrailAbove
  <1>3. PICK ends : ends = {a \in up : links[a].next # Nil}
    OBVIOUS
  <1>4. PICK near : near = {a \in ends : \A b \in ends : b \in Trail(links, a, "parent")}
    OBVIOUS
  <1>5. Following(i) = IF ends = {} THEN <<>>
                       ELSE PreOrder(links, links[CHOOSE a \in near : TRUE].next)
    BY <1>1, <1>3, <1>4 DEF Following
  <1>6. CASE ends = {}
    <2>1. \A a \in live : i \in Subtree(links, a) => links[a].next = Nil
      BY <1>2, <1>3, <1>6
    <2>2. \A z \in live : InOrder(links, live, i, z) => z \in Subtree(links, i)
      BY <1>0, <2>1, NoneInOrder
    <2>3. Following(i) = <<>>
      BY <1>5, <1>6
    <2>4. ToSet(<<>>) = {}
      BY DEF ToSet
    <2> QED BY <2>2, <2>3, <2>4 DEF FollowingOf
  <1>7. CASE ends # {}
    <2>1. ends \in SUBSET live /\ \A b \in ends : i \in Subtree(links, b) /\ links[b].next # Nil
      BY <1>2, <1>3
    <2>2. PICK a \in ends : \A b \in ends : a \in Subtree(links, b)
      BY <1>0, <1>7, <2>1, NearestAbove
    <2>3. a \in near
      <3>1. \A b \in ends : b \in Trail(links, a, "parent")
        BY <1>0, <2>1, <2>2, TrailAbove
      <3> QED BY <1>4, <3>1
    <2>4. PICK t : t = CHOOSE w \in near : TRUE
      OBVIOUS
    <2>5. t \in near
      BY <2>3, <2>4
    <2>6. t \in live /\ i \in Subtree(links, t) /\ links[t].next # Nil
      BY <1>4, <2>1, <2>5
    <2>7. ASSUME NEW b \in live, i \in Subtree(links, b), links[b].next # Nil
          PROVE  t \in Subtree(links, b)
      <3>1. b \in ends
        BY <1>2, <1>3, <2>7
      <3>2. b \in Trail(links, t, "parent")
        BY <1>4, <2>5, <3>1
      <3> QED BY <1>0, <2>6, <3>2, TrailAbove
    <2>8. PICK y : y = links[t].next
      OBVIOUS
    <2>9. AfterTree(links, live, i, y)
      BY <1>0, <2>6, <2>7, <2>8, NextInOrder
    <2>10. y \in live
      BY <2>9 DEF AfterTree
    <2>11. PICK walk : walk = PreOrder(links, y)
      OBVIOUS
    <2>12. InTurn(links, live, y, walk)
      BY <1>0, <2>10, <2>11, PreOrderInTurn
    <2>13. ToSet(walk) = {z \in live : z = y \/ InOrder(links, live, y, z)}
      BY <2>10, <2>12, InTurnSet
    <2>14. Following(i) = walk
      BY <1>5, <1>7, <2>4, <2>8, <2>11
    <2> QED BY <2>9, <2>12, <2>13, <2>14 DEF FollowingOf, AfterTree, InTurn
  <1> QED
    BY <1>6, <1>7

\* f starts with i, and its n-th step is that of g.
Runs(f, N, S, i, g) == f \in [0..N -> S] /\ f[0] = i /\ \A n \in 1..N : f[n] = g[n][f[n - 1]]

\* There is such a function, so that a recursive definition over the numbers has a value.
LEMMA Recursion ==
  ASSUME NEW N \in Nat, NEW S, NEW i \in S, NEW g \in [1..N -> [S -> S]]
  PROVE  \E f : Runs(f, N, S, i, g)
  <1> DEFINE Made(m, f) == f \in [0..m -> S] /\ f[0] = i /\ \A n \in 1..m : f[n] = g[n][f[n - 1]]
             T == {m \in Nat : m <= N => \E f : Made(m, f)}
  <1>1. 0 \in T
    <2>1. PICK f : f = [n \in 0..0 |-> i]
      OBVIOUS
    <2>2. Made(0, f)
      BY <2>1
    <2> QED BY <2>2
  <1>2. ASSUME NEW m \in Nat, m \in T PROVE m + 1 \in T
    <2> SUFFICES ASSUME m + 1 <= N PROVE \E f : Made(m + 1, f)
      OBVIOUS
    <2>1. PICK f : Made(m, f)
      BY <1>2
    <2>2. PICK h : h = [n \in 0..(m + 1) |-> IF n <= m THEN f[n] ELSE g[m + 1][f[m]]]
      OBVIOUS
    <2>3. m + 1 \in 1..N /\ f[m] \in S
      BY <2>1
    <2>4. g[m + 1][f[m]] \in S
      BY <2>3
    <2>5. h \in [0..(m + 1) -> S] /\ h[0] = i
      BY <2>1, <2>2, <2>4
    <2>6. ASSUME NEW n \in 1..(m + 1) PROVE h[n] = g[n][h[n - 1]]
      <3>1. CASE n <= m
        <4>1. n \in 1..m /\ n - 1 \in 0..(m + 1) /\ n - 1 <= m /\ n \in 0..(m + 1)
          BY <3>1
        <4> QED BY <2>1, <2>2, <3>1, <4>1
      <3>2. CASE n = m + 1
        <4>1. n - 1 = m /\ m \in 0..(m + 1) /\ ~(n <= m) /\ n \in 0..(m + 1)
          BY <3>2
        <4> QED BY <2>2, <3>2, <4>1
      <3> QED BY <3>1, <3>2
    <2> QED BY <2>5, <2>6
  <1>3. Nat \subseteq T
    <2> HIDE DEF T
    <2> QED BY <1>1, <1>2, Induction
  <1> QED
    BY <1>3 DEF Runs

\* Document order backwards.
PairsBack(l, V) == {w \in V \X V : InOrder(l, V, w[2], w[1])}
LEMMA PairsBackAre ==
  ASSUME NEW l, NEW V, NEW a \in V, NEW b \in V
  PROVE  <<a, b>> \in PairsBack(l, V) <=> InOrder(l, V, b, a)
  BY DEF PairsBack

\* It is an order too.
LEMMA PairsBackStrict ==
  ASSUME NEW l, NEW V, NEW X, Good(l, V, X), V \subseteq 0..(count - 1)
  PROVE  Strict(V, PairsBack(l, V))
  <1>1. ASSUME NEW a \in V PROVE <<a, a>> \notin PairsBack(l, V)
    <2>1. ~InOrder(l, V, a, a)
      BY InOrderIs
    <2> QED BY <2>1, PairsBackAre
  <1>2. ASSUME NEW a \in V, NEW b \in V, NEW c \in V,
               <<a, b>> \in PairsBack(l, V), <<b, c>> \in PairsBack(l, V)
        PROVE  <<a, c>> \in PairsBack(l, V)
    <2>1. InOrder(l, V, b, a) /\ InOrder(l, V, c, b)
      BY <1>2, PairsBackAre
    <2>2. InOrder(l, V, c, a)
      BY <2>1, InOrderIs
    <2> QED BY <2>2, PairsBackAre
  <1> QED
    BY <1>1, <1>2 DEF Strict

\* The walk of Preceding, and what its first n steps yield where the slots of bad are skipped.
Retreat(l, x) == IF x = Nil THEN Nil ELSE Backward(l, x)
IsRetreat(at, l, i) == at = [n \in 0..Capacity |-> IF n = 0 THEN i ELSE Retreat(l, at[n - 1])]
Met(s, x, bad) == IF x = Nil \/ x \in bad THEN s ELSE Append(s, x)
IsMet(met, at, bad) ==
  met = [n \in 0..Capacity |-> IF n = 0 THEN <<>> ELSE Met(met[n - 1], at[n], bad)]

\* What preceding computes: the walk and what is met on it.
RetreatFrom(l, i) ==
  LET at[n \in 0..Capacity] == IF n = 0 THEN i ELSE Retreat(l, at[n - 1]) IN at
MetOn(at, bad) ==
  LET met[n \in 0..Capacity] == IF n = 0 THEN <<>> ELSE Met(met[n - 1], at[n], bad) IN met

\* The loop of the preceding axis.
LEMMA PrecedingMet ==
  ASSUME NEW i
  PROVE  Preceding(i) = MetOn(RetreatFrom(links, i), Trail(links, i, "parent"))[Capacity]
  BY DEF Preceding, MetOn, RetreatFrom, Backward, Retreat, Met

\* The walk.
LEMMA RetreatExists ==
  ASSUME NEW l, NEW V, NEW X, Good(l, V, X), V \subseteq 0..(count - 1), NEW i \in V
  PROVE  \E at : IsRetreat(at, l, i)
  <1>1. \A x \in V \cup {Nil} : Retreat(l, x) \in V \cup {Nil}
    <2>1. ASSUME NEW x \in V PROVE Backward(l, x) \in V \cup {Nil}
      BY BackPrecedes DEF Precedes
    <2> QED BY <2>1 DEF Retreat
  <1>2. PICK g : g = [n \in 1..Capacity |-> [x \in V \cup {Nil} |-> Retreat(l, x)]]
    OBVIOUS
  <1>3. g \in [1..Capacity -> [V \cup {Nil} -> V \cup {Nil}]]
    BY <1>1, <1>2
  <1>4. Capacity \in Nat /\ i \in V \cup {Nil}
    BY SlotsCount
  <1>5. PICK f : Runs(f, Capacity, V \cup {Nil}, i, g)
    BY <1>3, <1>4, Recursion
  <1>6. ASSUME NEW n \in 0..Capacity PROVE f[n] = IF n = 0 THEN i ELSE Retreat(l, f[n - 1])
    <2>1. CASE n = 0
      BY <1>5, <2>1 DEF Runs
    <2>2. CASE n # 0
      <3>1. n \in 1..Capacity /\ n - 1 \in 0..Capacity
        BY <1>4, <2>2
      <3>2. f[n - 1] \in V \cup {Nil} /\ f[n] = g[n][f[n - 1]]
        BY <1>5, <3>1 DEF Runs
      <3> QED BY <1>2, <2>2, <3>1, <3>2
    <2> QED BY <2>1, <2>2
  <1> QED
    BY <1>5, <1>6 DEF IsRetreat, Runs

\* What it yields.
LEMMA MetExists ==
  ASSUME NEW V, NEW at, \A n \in 0..Capacity : at[n] \in V \cup {Nil}, NEW bad
  PROVE  \E met : IsMet(met, at, bad)
  <1>1. Capacity \in Nat /\ <<>> \in Seq(V)
    BY SlotsCount
  <1>2. PICK g : g = [n \in 1..Capacity |-> [s \in Seq(V) |-> Met(s, at[n], bad)]]
    OBVIOUS
  <1>3. ASSUME NEW n \in 1..Capacity, NEW s \in Seq(V) PROVE Met(s, at[n], bad) \in Seq(V)
    <2>1. at[n] \in V \cup {Nil}
      BY <1>1
    <2> QED BY <2>1 DEF Met
  <1>4. g \in [1..Capacity -> [Seq(V) -> Seq(V)]]
    BY <1>2, <1>3
  <1>5. PICK f : Runs(f, Capacity, Seq(V), <<>>, g)
    BY <1>1, <1>4, Recursion
  <1>6. ASSUME NEW n \in 0..Capacity PROVE f[n] = IF n = 0 THEN <<>> ELSE Met(f[n - 1], at[n], bad)
    <2>1. CASE n = 0
      BY <1>5, <2>1 DEF Runs
    <2>2. CASE n # 0
      <3>1. n \in 1..Capacity /\ n - 1 \in 0..Capacity
        BY <1>1, <2>2
      <3>2. f[n - 1] \in Seq(V) /\ f[n] = g[n][f[n - 1]]
        BY <1>5, <3>1 DEF Runs
      <3> QED BY <1>2, <2>2, <3>1, <3>2
    <2> QED BY <2>1, <2>2
  <1> QED
    BY <1>5, <1>6 DEF IsMet, Runs

\* s holds the first n places of at that are nodes and not in bad, in order.
Yielded(s, at, n, bad, V, R) ==
  /\ s \in Seq(V)
  /\ \A k \in 1..Len(s) : \E m \in 1..n : at[m] = s[k] /\ s[k] \notin bad
  /\ \A m \in 1..n : at[m] \in V \ bad => \E k \in 1..Len(s) : s[k] = at[m]
  /\ \A j, k \in 1..Len(s) : j < k => <<s[j], s[k]>> \in R

\* One more place.
LEMMA YieldsOn ==
  ASSUME NEW V, Nil \notin V, NEW R, NEW at, NEW bad, NEW n \in Nat, NEW s, Yielded(s, at, n, bad, V, R),
         NEW x, x = at[n + 1], x \in V \cup {Nil},
         x \in V => \A m \in 1..n : at[m] \in V => <<at[m], x>> \in R,
         NEW t, t = Met(s, x, bad)
  PROVE  Yielded(t, at, n + 1, bad, V, R)
  <1>0. \A m \in 1..(n + 1) : m \in 1..n \/ m = n + 1
    OBVIOUS
  <1>1. \A m \in 1..n : m \in 1..(n + 1)
    OBVIOUS
  <1>2. CASE x = Nil \/ x \in bad
    <2>1. t = s /\ at[n + 1] \notin V \ bad
      BY <1>2 DEF Met
    <2> QED BY <1>0, <1>1, <2>1 DEF Yielded
  <1>3. CASE ~(x = Nil \/ x \in bad)
    <2>1. t = Append(s, x) /\ x \in V /\ x \notin bad
      BY <1>3 DEF Met
    <2>2. s \in Seq(V) /\ Len(s) \in Nat
      BY DEF Yielded
    <2>3. /\ t \in Seq(V) /\ Len(t) = Len(s) + 1 /\ t[Len(s) + 1] = x
          /\ \A k \in 1..Len(s) : t[k] = s[k]
      BY <2>1, <2>2
    <2>4. \A k \in 1..Len(t) : k \in 1..Len(s) \/ k = Len(s) + 1
      BY <2>2, <2>3
    <2>5. \A k \in 1..Len(s) : k \in 1..Len(t)
      BY <2>2, <2>3
    <2>6. Len(s) + 1 \in 1..Len(t) /\ n + 1 \in 1..(n + 1)
      BY <2>2, <2>3
    <2>7. ASSUME NEW k \in 1..Len(t) PROVE \E m \in 1..(n + 1) : at[m] = t[k] /\ t[k] \notin bad
      <3>1. CASE k \in 1..Len(s)
        <4>1. PICK m \in 1..n : at[m] = s[k] /\ s[k] \notin bad
          BY <3>1 DEF Yielded
        <4> QED BY <1>1, <2>3, <3>1, <4>1
      <3>2. CASE k = Len(s) + 1
        BY <2>1, <2>3, <2>6, <3>2
      <3> QED BY <2>4, <3>1, <3>2
    <2>8. ASSUME NEW m \in 1..(n + 1), at[m] \in V \ bad PROVE \E k \in 1..Len(t) : t[k] = at[m]
      <3>1. CASE m \in 1..n
        <4>1. PICK k \in 1..Len(s) : s[k] = at[m]
          BY <2>8, <3>1 DEF Yielded
        <4> QED BY <2>3, <2>5, <4>1
      <3>2. CASE m = n + 1
        BY <2>3, <2>6, <3>2
      <3> QED BY <1>0, <3>1, <3>2
    <2>9. ASSUME NEW j \in 1..Len(t), NEW k \in 1..Len(t), j < k PROVE <<t[j], t[k]>> \in R
      <3>0. j \in 1..Len(s)
        BY <2>2, <2>3, <2>9
      <3>1. CASE k \in 1..Len(s)
        BY <2>3, <2>9, <3>0, <3>1 DEF Yielded
      <3>2. CASE k = Len(s) + 1
        <4>1. PICK m \in 1..n : at[m] = s[j]
          BY <3>0 DEF Yielded
        <4>2. s[j] \in V
          BY <2>2, <3>0
        <4>3. <<s[j], x>> \in R
          BY <2>1, <4>1, <4>2
        <4> QED BY <2>3, <3>0, <3>2, <4>3
      <3> QED BY <2>4, <3>1, <3>2
    <2> QED BY <2>3, <2>7, <2>8, <2>9 DEF Yielded
  <1> QED
    BY <1>2, <1>3

\* list is the part of the tree of i that comes before it and is not above it, nearest first.
PrecedingOf(i, list) ==
  /\ list \in Seq(live)
  /\ \A z \in live : z \in ToSet(list) <=> InOrder(links, live, z, i) /\ i \notin Subtree(links, z)
  /\ \A j, k \in 1..Len(list) : j < k => InOrder(links, live, list[k], list[j])

\* The walk back goes through everything before i.
LEMMA RetreatSpans ==
  ASSUME NEW l, NEW V, NEW X, Good(l, V, X), V \subseteq 0..(count - 1), NEW i \in V,
         NEW at, IsRetreat(at, l, i)
  PROVE  \E K \in 1..Capacity : Spans(at, V, PairsBack(l, V), i, K)
  <1>0. Nil \notin V /\ V \in SUBSET Slot /\ Capacity \in Nat \ {0}
    BY NilNoSlot, SlotsCount DEF Good
  <1>1. PICK R : R = PairsBack(l, V)
    OBVIOUS
  <1>2. Strict(V, R) /\ \A a, b \in V : <<a, b>> \in R <=> InOrder(l, V, b, a)
    BY <1>1, PairsBackStrict, PairsBackAre
  <1>6. at[0] = i /\ \A n \in 1..Capacity : at[n] = Retreat(l, at[n - 1])
    <2>1. \A n \in 0..Capacity : at[n] = IF n = 0 THEN i ELSE Retreat(l, at[n - 1])
      BY DEF IsRetreat
    <2> QED BY <1>0, <2>1
  <1>7. ASSUME NEW x \in V, NEW y, y = Retreat(l, x)
        PROVE  /\ y \in V \cup {Nil}
               /\ \A z \in V : <<x, z>> \in R <=> y \in V /\ (z = y \/ <<y, z>> \in R)
    <2>1. y = Backward(l, x)
      BY <1>0, <1>7 DEF Retreat
    <2>2. Precedes(l, V, x, y)
      BY <2>1, BackPrecedes
    <2> QED BY <1>2, <2>2 DEF Precedes
  <1>8. Lined(at, V, R, i)
    <2>1. ASSUME NEW n \in 1..Capacity, at[n - 1] = Nil PROVE at[n] = Nil
      BY <1>6, <2>1 DEF Retreat
    <2>2. ASSUME NEW n \in 1..Capacity, at[n - 1] \in V
          PROVE  /\ at[n] \in V \cup {Nil}
                 /\ \A z \in V : <<at[n - 1], z>> \in R <=> at[n] \in V /\ (z = at[n] \/ <<at[n], z>> \in R)
      <3>1. PICK x \in V : x = at[n - 1]
        BY <2>2
      <3>2. at[n] = Retreat(l, x)
        BY <1>6, <3>1
      <3> QED BY <1>7, <3>1, <3>2
    <2> QED BY <1>6, <2>1, <2>2 DEF Lined
  <1> QED
    BY <1>0, <1>1, <1>2, <1>8, LinedSpans

\* Preceding takes the walk without what is above i.
LEMMA PrecedingIs ==
  ASSUME Linked, NEW i \in live
  PROVE  PrecedingOf(i, Preceding(i))
  <1>0. /\ Good(links, live, texts) /\ live \subseteq 0..(count - 1) /\ Nil \notin live
        /\ live \in SUBSET Slot /\ Capacity \in Nat \ {0}
    BY NilNoSlot, SlotsCount DEF Linked, Good, Places
  <1>1. PICK bad : bad = Trail(links, i, "parent")
    OBVIOUS
  <1>2. \A a : a \in bad <=> a \in live /\ i \in Subtree(links, a)
    BY <1>0, <1>1, TrailAbove
  <1>3. PICK R : R = PairsBack(links, live)
    OBVIOUS
  <1>4. \A a, b \in live : <<a, b>> \in R <=> InOrder(links, live, b, a)
    BY <1>3, PairsBackAre
  <1>5. PICK at : at = RetreatFrom(links, i)
    OBVIOUS
  <1>6. IsRetreat(at, links, i)
    <2>1. \E f : IsRetreat(f, links, i)
      BY <1>0, RetreatExists
    <2> QED BY <1>5, <2>1 DEF IsRetreat, RetreatFrom
  <1>7. PICK K \in 1..Capacity : Spans(at, live, R, i, K)
    BY <1>0, <1>3, <1>6, RetreatSpans
  <1>8. ASSUME NEW n \in 0..Capacity PROVE at[n] \in live \cup {Nil} /\ (at[n] \in live <=> n \in 0..(K - 1))
    <2>1. n \in 0..(K - 1) \/ n \in K..Capacity
      BY <1>0
    <2>2. n \in K..Capacity => n \notin 0..(K - 1)
      BY <1>0
    <2> QED BY <1>0, <1>7, <2>1, <2>2 DEF Spans
  <1>9. PICK met : met = MetOn(at, bad)
    OBVIOUS
  <1>10. IsMet(met, at, bad)
    <2>1. \E f : IsMet(f, at, bad)
      BY <1>8, MetExists
    <2> QED BY <1>9, <2>1 DEF IsMet, MetOn
  <1>11. met[0] = <<>> /\ \A n \in 1..Capacity : met[n] = Met(met[n - 1], at[n], bad)
    <2>1. \A n \in 0..Capacity : met[n] = IF n = 0 THEN <<>> ELSE Met(met[n - 1], at[n], bad)
      BY <1>10 DEF IsMet
    <2> QED BY <1>0, <2>1
  <1>12. Preceding(i) = met[Capacity]
    BY <1>1, <1>5, <1>9, PrecedingMet
  <1> DEFINE T == {n \in Nat : n <= Capacity => Yielded(met[n], at, n, bad, live, R)}
  <1>13. 0 \in T
    <2>1. <<>> \in Seq(live) /\ 1..Len(<<>>) = {} /\ 1..0 = {}
      OBVIOUS
    <2>2. Yielded(<<>>, at, 0, bad, live, R)
      BY <2>1 DEF Yielded
    <2> QED BY <1>11, <2>2
  <1>14. ASSUME NEW n \in Nat, n \in T PROVE n + 1 \in T
    <2> SUFFICES ASSUME n + 1 <= Capacity PROVE Yielded(met[n + 1], at, n + 1, bad, live, R)
      OBVIOUS
    <2>1. n + 1 \in 1..Capacity /\ (n + 1) - 1 = n /\ n + 1 \in 0..Capacity /\ n <= Capacity
      BY <1>0
    <2>2. PICK s : s = met[n]
      OBVIOUS
    <2>3. Yielded(s, at, n, bad, live, R)
      BY <1>14, <2>1, <2>2
    <2>4. PICK x : x = at[n + 1]
      OBVIOUS
    <2>5. PICK t : t = met[n + 1]
      OBVIOUS
    <2>6. t = Met(s, x, bad)
      BY <1>11, <2>1, <2>2, <2>4, <2>5
    <2>7. x \in live \cup {Nil}
      BY <1>8, <2>1, <2>4
    <2>8. ASSUME x \in live, NEW m \in 1..n PROVE <<at[m], x>> \in R
      <3>1. n + 1 \in 0..(K - 1)
        BY <1>8, <2>1, <2>4, <2>8
      <3>2. m \in 0..(K - 1) /\ m < n + 1
        BY <3>1
      <3> QED BY <1>7, <2>4, <3>1, <3>2 DEF Spans
    <2>9. x \in live => \A m \in 1..n : at[m] \in live => <<at[m], x>> \in R
      BY <2>8
    <2>10. Yielded(t, at, n + 1, bad, live, R)
      BY <1>0, <2>3, <2>4, <2>6, <2>7, <2>9, YieldsOn
    <2> QED BY <2>5, <2>10
  <1>15. Nat \subseteq T
    <2> HIDE DEF T
    <2> QED BY <1>13, <1>14, Induction
  <1>16. PICK list : list = met[Capacity]
    OBVIOUS
  <1>17. Yielded(list, at, Capacity, bad, live, R)
    BY <1>0, <1>15, <1>16
  <1>18. list \in Seq(live) /\ \A z : z \in ToSet(list) <=> \E k \in 1..Len(list) : list[k] = z
    BY <1>17 DEF Yielded, ToSet
  <1>19. ASSUME NEW j \in 1..Len(list), NEW k \in 1..Len(list), j < k
         PROVE  InOrder(links, live, list[k], list[j])
    <2>1. <<list[j], list[k]>> \in R
      BY <1>17, <1>19 DEF Yielded
    <2>2. list[j] \in live /\ list[k] \in live
      BY <1>18
    <2> QED BY <1>4, <2>1, <2>2
  <1>20. ASSUME NEW z \in live, z \in ToSet(list)
         PROVE  InOrder(links, live, z, i) /\ i \notin Subtree(links, z)
    <2>1. PICK k \in 1..Len(list) : list[k] = z
      BY <1>18, <1>20
    <2>2. PICK m \in 1..Capacity : at[m] = z /\ z \notin bad
      BY <1>17, <2>1 DEF Yielded
    <2>3. m \in 0..(K - 1) /\ 0 \in 0..(K - 1) /\ 0 < m
      BY <1>0, <1>8, <2>2
    <2>4. <<i, z>> \in R
      BY <1>7, <2>2, <2>3 DEF Spans
    <2> QED BY <1>2, <1>4, <2>2, <2>4
  <1>21. ASSUME NEW z \in live, InOrder(links, live, z, i), i \notin Subtree(links, z)
         PROVE  z \in ToSet(list)
    <2>1. <<i, z>> \in R /\ z \notin bad
      BY <1>2, <1>4, <1>21
    <2>2. PICK n \in 1..(K - 1) : at[n] = z
      BY <1>7, <2>1 DEF Spans
    <2>3. n \in 1..Capacity
      BY <1>0
    <2> QED BY <1>17, <1>18, <2>1, <2>2, <2>3 DEF Yielded
  <1> QED
    BY <1>12, <1>16, <1>18, <1>19, <1>20, <1>21 DEF PrecedingOf

-----------------------------------------------------------------------------
(* The comparison without a numbering.                                     *)

\* at climbs from i through all K nodes above it and itself.
Rising(l, V, i, at, K) ==
  /\ K \in 1..Capacity /\ at[0] = i /\ at[K] = Nil
  /\ \A n \in 0..(K - 1) : at[n] \in V /\ i \in Subtree(l, at[n]) /\ l[at[n]].parent = at[n + 1]
  /\ \A z \in V : i \in Subtree(l, z) => \E n \in 0..(K - 1) : at[n] = z

\* What is above each node.
AboveOf(l, V) == {w \in V \X V : w[1] # w[2] /\ w[1] \in Subtree(l, w[2])}
LEMMA AboveOfAre ==
  ASSUME NEW l, NEW V, NEW a \in V, NEW b \in V
  PROVE  <<a, b>> \in AboveOf(l, V) <=> a # b /\ a \in Subtree(l, b)
  BY DEF AboveOf

\* Two nodes are not below one another.
LEMMA NotBothBelow ==
  ASSUME NEW l, NEW V, NEW X, Good(l, V, X), V \subseteq 0..(count - 1), NEW a \in V, NEW b \in V,
         a # b, a \in Subtree(l, b)
  PROVE  b \notin Subtree(l, a)
  <1> SUFFICES ASSUME b \in Subtree(l, a) PROVE FALSE
    OBVIOUS
  <1>1. InOrder(l, V, a, b) /\ InOrder(l, V, b, a)
    BY InOrderIs
  <1>2. InOrder(l, V, a, a)
    BY <1>1, InOrderIs
  <1> QED
    BY <1>2, InOrderIs

\* Being above is an order.
LEMMA AboveStrict ==
  ASSUME NEW l, NEW V, NEW X, Good(l, V, X), V \subseteq 0..(count - 1)
  PROVE  Strict(V, AboveOf(l, V))
  <1>1. \A a \in V : <<a, a>> \notin AboveOf(l, V)
    BY AboveOfAre
  <1>2. ASSUME NEW a \in V, NEW b \in V, NEW c \in V,
               <<a, b>> \in AboveOf(l, V), <<b, c>> \in AboveOf(l, V)
        PROVE  <<a, c>> \in AboveOf(l, V)
    <2>1. a # b /\ a \in Subtree(l, b) /\ b # c /\ b \in Subtree(l, c)
      BY <1>2, AboveOfAre
    <2>2. a \in Subtree(l, c)
      BY <2>1, RootBelow
    <2>3. b \notin Subtree(l, a)
      BY <2>1, NotBothBelow
    <2>4. a # c
      BY <2>1, <2>3
    <2> QED BY <2>2, <2>4, AboveOfAre
  <1> QED
    BY <1>1, <1>2 DEF Strict

\* The nodes above x are y and the nodes above y; y is Nil where there are none.
Rises(l, V, x, y) ==
  /\ y \in V \cup {Nil}
  /\ \A z \in V : <<x, z>> \in AboveOf(l, V) <=> y \in V /\ (z = y \/ <<y, z>> \in AboveOf(l, V))

\* Above a node are its parent and what is above that.
LEMMA AboveParent ==
  ASSUME NEW l, NEW V, NEW X, Good(l, V, X), V \subseteq 0..(count - 1), NEW x \in V
  PROVE  Rises(l, V, x, l[x].parent)
  <1> DEFINE y == l[x].parent
  <1>0. y \in V \cup {Nil} /\ NoCycle(l, "parent") /\ V \subseteq Slot /\ Nil \notin V
    BY NilNoSlot DEF Good, Within
  <1>1. ASSUME NEW w \in V PROVE Below(l, V, w, Subtree(l, w))
    BY SubtreeBelow
  <1>2. ASSUME NEW z \in V, <<x, z>> \in AboveOf(l, V)
        PROVE  y \in V /\ (z = y \/ <<y, z>> \in AboveOf(l, V))
    <2>1. x # z /\ x \in Subtree(l, z)
      BY <1>2, AboveOfAre
    <2>2. y \in Subtree(l, z) /\ y \in V
      BY <1>1, <2>1 DEF Below, Upwards
    <2> QED BY <2>2, AboveOfAre
  <1>3. ASSUME NEW z \in V, y \in V, z = y \/ <<y, z>> \in AboveOf(l, V)
        PROVE  <<x, z>> \in AboveOf(l, V)
    <2>1. x \in Subtree(l, y)
      BY <1>1, <1>3 DEF Below, Upwards, Downwards
    <2>2. x # y
      <3>1. {x} \in SUBSET Slot
        BY <1>0
      <3> QED BY <1>0, <3>1 DEF NoCycle
    <2>3. <<x, y>> \in AboveOf(l, V)
      BY <1>3, <2>1, <2>2, AboveOfAre
    <2>4. Strict(V, AboveOf(l, V))
      BY AboveStrict
    <2> QED BY <1>3, <2>3, <2>4 DEF Strict
  <1> QED
    BY <1>0, <1>2, <1>3 DEF Rises

\* So a walk up rises, and the trail up has a node for each of its steps.
LEMMA StepsRise ==
  ASSUME NEW l, NEW V, NEW X, Good(l, V, X), V \subseteq 0..(count - 1), NEW i \in V,
         NEW at, at = Steps(l, i, "parent"), NEW K, K = Cardinality(Trail(l, i, "parent"))
  PROVE  Rising(l, V, i, at, K)
  <1>0. /\ Nil \notin V /\ V \in SUBSET Slot /\ Capacity \in Nat \ {0} /\ Typed(l) /\ i \in Link
        /\ "parent" \in {"parent", "next", "last"}
    BY NilNoSlot, SlotsCount DEF Good, Link
  <1>1. PICK R : R = AboveOf(l, V)
    OBVIOUS
  <1>2. Strict(V, R) /\ \A a, b \in V : <<a, b>> \in R <=> a # b /\ a \in Subtree(l, b)
    BY <1>1, AboveStrict, AboveOfAre
  <1>3. IsWalk(at, Capacity, l, i, "parent")
    BY StepsAre
  <1>4. /\ at \in [0..Capacity -> Link] /\ at[0] = i
        /\ \A n \in 1..Capacity : at[n] = StepOn(l, "parent", at[n - 1])
    BY <1>0, <1>3, WalkTyped DEF Walked
  <1>5. Lined(at, V, R, i)
    <2>1. ASSUME NEW n \in 1..Capacity, at[n - 1] = Nil PROVE at[n] = Nil
      BY <1>4, <2>1 DEF StepOn
    <2>2. ASSUME NEW n \in 1..Capacity, at[n - 1] \in V
          PROVE  /\ at[n] \in V \cup {Nil}
                 /\ \A z \in V : <<at[n - 1], z>> \in R <=> at[n] \in V /\ (z = at[n] \/ <<at[n], z>> \in R)
      <3>1. PICK x \in V : x = at[n - 1]
        BY <2>2
      <3>2. PICK y : y = at[n]
        OBVIOUS
      <3>3. y = l[x].parent
        BY <1>0, <1>4, <3>1, <3>2 DEF StepOn
      <3>4. y \in V \cup {Nil}
        BY <3>3 DEF Good, Within
      <3>5. Rises(l, V, x, y)
        BY <3>3, AboveParent
      <3> QED BY <1>1, <3>1, <3>2, <3>4, <3>5 DEF Rises
    <2> QED BY <1>4, <2>1, <2>2 DEF Lined
  <1>6. PICK M \in 1..Capacity : Spans(at, V, R, i, M)
    BY <1>0, <1>2, <1>5, LinedSpans
  <1>7. M \in Nat /\ M <= Capacity /\ M \in M..Capacity /\ 0 \in 0..(M - 1)
    BY <1>0
  <1>8. ASSUME NEW n \in 0..(M - 1) PROVE at[n] \in V /\ i \in Subtree(l, at[n]) /\ l[at[n]].parent = at[n + 1]
    <2>1. at[n] \in V
      BY <1>6 DEF Spans
    <2>2. n + 1 \in 1..Capacity /\ (n + 1) - 1 = n
      BY <1>0, <1>7
    <2>3. l[at[n]].parent = at[n + 1]
      BY <1>0, <1>4, <2>1, <2>2 DEF StepOn
    <2>4. CASE n = 0
      <3>1. i \in Subtree(l, i)
        BY SubtreeBelow DEF Below, Upwards
      <3> QED BY <1>4, <2>1, <2>3, <2>4, <3>1
    <2>5. CASE n # 0
      <3>1. <<i, at[n]>> \in R
        BY <1>6, <1>7, <2>5 DEF Spans
      <3> QED BY <1>2, <2>1, <2>3, <3>1
    <2> QED BY <2>4, <2>5
  <1>9. ASSUME NEW z \in V, i \in Subtree(l, z) PROVE \E n \in 0..(M - 1) : at[n] = z
    <2>1. CASE z = i
      BY <1>4, <1>7, <2>1
    <2>2. CASE z # i
      <3>1. <<i, z>> \in R
        BY <1>2, <1>9, <2>2
      <3>2. PICK n \in 1..(M - 1) : at[n] = z
        BY <1>6, <3>1 DEF Spans
      <3> QED BY <1>7, <3>2
    <2> QED BY <2>1, <2>2
  <1>10. Trail(l, i, "parent") = {at[n] : n \in 0..(M - 1)}
    <2>1. \A a : a \in Trail(l, i, "parent") <=> a \in V /\ i \in Subtree(l, a)
      BY TrailAbove
    <2> QED BY <1>8, <1>9, <2>1
  <1>11. M = K
    <2>1. PICK f : f = [n \in 0..(M - 1) |-> at[n]]
      OBVIOUS
    <2>2. f \in Surjection(0..(M - 1), Trail(l, i, "parent"))
      BY <1>10, <2>1 DEF Surjection
    <2>3. ASSUME NEW m \in 0..(M - 1), NEW n \in 0..(M - 1), f[m] = f[n] PROVE m = n
      <3>1. ~(m < n) /\ ~(n < m)
        BY <1>2, <1>6, <1>8, <2>1, <2>3 DEF Spans
      <3> QED BY <3>1
    <2>4. f \in Injection(0..(M - 1), Trail(l, i, "parent"))
      BY <2>2, <2>3 DEF Surjection, Injection, IsInjective
    <2>5. IsFiniteSet(0..(M - 1)) /\ Cardinality(0..(M - 1)) = M
      BY <1>7, FS_Interval
    <2> QED BY <2>2, <2>4, <2>5, FS_Surjection
  <1> QED
    BY <1>4, <1>6, <1>7, <1>8, <1>9, <1>11 DEF Rising, Spans

\* Of two climbs the same number of steps below their roots: where their next steps agree first.
Meet(l, A, x, B, y, J, d, n) ==
  /\ n \in J /\ n \in 0..(d - 1) /\ \A m \in 0..(n - 1) : m \notin J
  /\ A[x] # B[y] => A[x + n] # B[y + n]

\* They do agree, above the roots at the latest.
LEMMA ClimbsMeet ==
  ASSUME NEW l, NEW V, NEW a, NEW b, NEW A, NEW B, NEW da, NEW db,
         Rising(l, V, a, A, da), Rising(l, V, b, B, db),
         NEW x \in Nat, NEW y \in Nat, NEW d \in Nat \ {0}, da = x + d, db = y + d,
         NEW J, J = {n \in 0..Capacity : l[A[x + n]].parent = l[B[y + n]].parent}
  PROVE  \E n : Meet(l, A, x, B, y, J, d, n)
  <1>0. Capacity \in Nat /\ da <= Capacity /\ da \in Nat /\ db \in Nat
    BY SlotsCount DEF Rising
  <1>1. \A n \in 0..(d - 1) : /\ l[A[x + n]].parent = A[(x + n) + 1]
                              /\ l[B[y + n]].parent = B[(y + n) + 1]
    <2>1. \A n \in 0..(d - 1) : x + n \in 0..(da - 1) /\ y + n \in 0..(db - 1)
      OBVIOUS
    <2> QED BY <2>1 DEF Rising
  <1>2. d - 1 \in J
    <2>1. d - 1 \in 0..(d - 1) /\ d - 1 \in 0..Capacity
          /\ (x + (d - 1)) + 1 = da /\ (y + (d - 1)) + 1 = db
      BY <1>0
    <2>2. A[da] = Nil /\ B[db] = Nil
      BY DEF Rising
    <2> QED BY <1>1, <2>1, <2>2
  <1>3. PICK n \in J : \A m \in J : n <= m
    <2>1. J \in SUBSET Nat /\ J # {}
      <3>1. J \subseteq 0..Capacity
        OBVIOUS
      <3> QED BY <1>2, <3>1
    <2>2. \E k \in J : \A m \in J : k <= m
      BY <2>1, LeastNat
    <2> QED BY <2>2
  <1>4. n \in 0..(d - 1) /\ n \in Nat
    <2>1. n <= d - 1 /\ n \in Nat
      BY <1>0, <1>2, <1>3
    <2> QED BY <2>1
  <1>5. \A m \in 0..(n - 1) : m \notin J
    <2>1. \A m \in 0..(n - 1) : ~(n <= m)
      BY <1>4
    <2> QED BY <1>3, <2>1
  <1>6. ASSUME A[x] # B[y] PROVE A[x + n] # B[y + n]
    <2>1. CASE n = 0
      BY <1>6, <2>1
    <2>2. CASE n # 0
      <3>1. n - 1 \in 0..(d - 1) /\ n - 1 \in 0..(n - 1) /\ n - 1 \in 0..Capacity
            /\ (x + (n - 1)) + 1 = x + n /\ (y + (n - 1)) + 1 = y + n
        BY <1>0, <1>4, <2>2
      <3>2. l[A[x + (n - 1)]].parent = A[x + n] /\ l[B[y + (n - 1)]].parent = B[y + n]
        BY <1>1, <3>1
      <3>3. n - 1 \notin J
        BY <1>5, <3>1
      <3>4. l[A[x + (n - 1)]].parent # l[B[y + (n - 1)]].parent
        BY <3>1, <3>3
      <3> QED BY <3>2, <3>4
    <2> QED BY <2>1, <2>2
  <1> QED
    BY <1>3, <1>4, <1>5, <1>6 DEF Meet

\* Siblings are in the order of their chain.
LEMMA KidsInOrder ==
  ASSUME NEW l, NEW V, NEW X, Good(l, V, X), V \subseteq 0..(count - 1), NEW p \in V,
         NEW c, c = Chain(l, p), NEW s \in 1..Len(c), NEW t \in 1..Len(c)
  PROVE  InOrder(l, V, c[s], c[t]) <=> s < t
  <1>1. ChainOf(l, V, p, c)
    BY ChainIs
  <1>2. Len(c) \in Nat /\ c[s] \in V /\ c[t] \in V
    BY <1>1 DEF ChainOf
  <1>3. c[s] \in Subtree(l, c[s]) /\ c[t] \in Subtree(l, c[t])
    BY <1>2, SubtreeBelow DEF Below, Upwards
  <1>4. s < t => InOrder(l, V, c[s], c[t])
    BY <1>3, SiblingsInOrder
  <1>5. t < s => InOrder(l, V, c[t], c[s])
    BY <1>3, SiblingsInOrder
  <1>6. ~InOrder(l, V, c[s], c[s])
    BY <1>2, InOrderIs
  <1>7. ~(InOrder(l, V, c[s], c[t]) /\ InOrder(l, V, c[t], c[s]))
    BY <1>2, <1>6, InOrderIs
  <1>8. s < t \/ t < s \/ s = t
    BY <1>2
  <1> QED
    BY <1>4, <1>5, <1>6, <1>7, <1>8

\* Among the siblings U, after w come y and the siblings after y; y is Nil where there are none.
NextIn(l, V, U, w, y) ==
  /\ y \in U \cup {Nil}
  /\ \A z \in U : InOrder(l, V, w, z) <=> y \in U /\ (z = y \/ InOrder(l, V, y, z))

\* The next sibling is the first of the later ones.
LEMMA NextKid ==
  ASSUME NEW l, NEW V, NEW X, Good(l, V, X), V \subseteq 0..(count - 1), NEW p \in V,
         NEW U, U = {z \in V : l[z].parent = p}, NEW w \in U, NEW y, y = l[w].next
  PROVE  NextIn(l, V, U, w, y)
  <1>0. Nil \notin V /\ p # Nil /\ w \in V /\ l[w].parent = p
    BY NilNoSlot DEF Good
  <1>1. PICK c : c = Chain(l, p)
    OBVIOUS
  <1>2. PICK s \in Nat : PlacedAt(l, w, p, s)
    <2>1. \E q \in V, j \in Nat : PlacedAt(l, w, q, j)
      BY <1>0, PlaceOf
    <2>2. PICK q \in V : \E j \in Nat : PlacedAt(l, w, q, j)
      BY <2>1
    <2>3. PICK j \in Nat : PlacedAt(l, w, q, j)
      BY <2>2
    <2>4. q = p
      BY <1>0, <2>3 DEF PlacedAt
    <2> QED BY <2>3, <2>4
  <1>3. /\ s \in 1..Len(c) /\ c[s] = w /\ Len(c) \in Nat
        /\ y = IF s = Len(c) THEN Nil ELSE c[s + 1]
    BY <1>1, <1>2 DEF PlacedAt
  <1>4. ChainOf(l, V, p, c)
    BY <1>1, ChainIs
  <1>5. \A k \in 1..Len(c) : c[k] \in U
    BY <1>4 DEF ChainOf
  <1>6. \A z \in U : \E k \in 1..Len(c) : c[k] = z
    BY <1>4 DEF ChainOf
  <1>7. ASSUME NEW j \in 1..Len(c), NEW k \in 1..Len(c)
        PROVE  InOrder(l, V, c[j], c[k]) <=> j < k
    BY <1>1, KidsInOrder
  <1>8. s # Len(c) => s + 1 \in 1..Len(c) /\ y \in U
    BY <1>3, <1>5
  <1>9. ASSUME NEW z \in U
        PROVE  InOrder(l, V, w, z) <=> y \in U /\ (z = y \/ InOrder(l, V, y, z))
    <2>1. PICK k \in 1..Len(c) : c[k] = z
      BY <1>6
    <2>2. InOrder(l, V, w, z) <=> s < k
      BY <1>3, <1>7, <2>1
    <2>3. CASE s = Len(c)
      <3>1. ~(s < k) /\ y = Nil
        BY <1>3, <2>3
      <3> QED BY <1>0, <2>2, <3>1
    <2>4. CASE s # Len(c)
      <3>1. s + 1 \in 1..Len(c) /\ y \in U /\ y = c[s + 1]
        BY <1>3, <1>8, <2>4
      <3>2. InOrder(l, V, y, z) <=> s + 1 < k
        BY <1>7, <2>1, <3>1
      <3>3. InOrder(l, V, w, y)
        <4>1. s < s + 1
          BY <1>3
        <4> QED BY <1>3, <1>7, <3>1, <4>1
      <3>4. s < k => k = s + 1 \/ s + 1 < k
        BY <1>3
      <3>5. k = s + 1 => z = y
        BY <2>1, <3>1
      <3>6. s + 1 < k => s < k
        BY <1>3
      <3> QED BY <2>2, <3>1, <3>2, <3>3, <3>4, <3>5, <3>6
    <2> QED BY <2>3, <2>4
  <1>10. y \in U \cup {Nil}
    BY <1>3, <1>8
  <1> QED
    BY <1>9, <1>10 DEF NextIn

\* The trail from a child: it and its later siblings.
LEMMA TrailOn ==
  ASSUME NEW l, NEW V, NEW X, Good(l, V, X), V \subseteq 0..(count - 1), NEW u \in V, NEW v \in V,
         l[u].parent # Nil, l[v].parent = l[u].parent
  PROVE  v \in Trail(l, u, "next") <=> v = u \/ InOrder(l, V, u, v)
  <1>0. /\ Nil \notin V /\ V \in SUBSET Slot /\ Capacity \in Nat \ {0} /\ Typed(l) /\ u \in Link
        /\ "next" \in {"parent", "next", "last"} /\ l[u].parent \in V
    BY NilNoSlot, SlotsCount DEF Good, Within, Link
  <1>1. PICK p \in V : p = l[u].parent
    BY <1>0
  <1>2. PICK U : U = {z \in V : l[z].parent = p}
    OBVIOUS
  <1>3. U \in SUBSET Slot /\ u \in U /\ v \in U /\ Nil \notin U /\ U \subseteq V
    BY <1>0, <1>1, <1>2
  <1>4. PICK R : R = Pairs(l, V)
    OBVIOUS
  <1>5. Strict(U, R) /\ \A a, b \in V : <<a, b>> \in R <=> InOrder(l, V, a, b)
    <2>1. Strict(V, R)
      BY <1>4, PairsStrict
    <2>2. Strict(U, R)
      BY <1>3, <2>1 DEF Strict
    <2> QED BY <1>4, <2>2, PairsAre
  <1>6. PICK at : at = Steps(l, u, "next")
    OBVIOUS
  <1>7. IsWalk(at, Capacity, l, u, "next")
    BY <1>6, StepsAre
  <1>8. /\ at \in [0..Capacity -> Link] /\ at[0] = u
        /\ \A n \in 1..Capacity : at[n] = StepOn(l, "next", at[n - 1])
    BY <1>0, <1>7, WalkTyped DEF Walked
  <1>9. Lined(at, U, R, u)
    <2>1. ASSUME NEW n \in 1..Capacity, at[n - 1] = Nil PROVE at[n] = Nil
      BY <1>8, <2>1 DEF StepOn
    <2>2. ASSUME NEW n \in 1..Capacity, at[n - 1] \in U
          PROVE  /\ at[n] \in U \cup {Nil}
                 /\ \A z \in U : <<at[n - 1], z>> \in R <=> at[n] \in U /\ (z = at[n] \/ <<at[n], z>> \in R)
      <3>1. PICK w \in U : w = at[n - 1]
        BY <2>2
      <3>2. PICK y : y = at[n]
        OBVIOUS
      <3>3. y = l[w].next
        BY <1>3, <1>8, <3>1, <3>2 DEF StepOn
      <3>4. NextIn(l, V, U, w, y)
        BY <1>2, <3>3, NextKid
      <3>5. \A z \in U : <<w, z>> \in R <=> y \in U /\ (z = y \/ <<y, z>> \in R)
        BY <1>3, <1>5, <3>4 DEF NextIn
      <3> QED BY <3>1, <3>2, <3>4, <3>5 DEF NextIn
    <2> QED BY <1>3, <1>8, <2>1, <2>2 DEF Lined
  <1>10. PICK K \in 1..Capacity : Spans(at, U, R, u, K)
    BY <1>3, <1>5, <1>9, LinedSpans
  <1>11. Trail(l, u, "next") = {at[n] : n \in 0..Capacity} \ {Nil}
    BY <1>6, <1>8 DEF Trail, ToSet
  <1>12. ASSUME v \in Trail(l, u, "next") PROVE v = u \/ InOrder(l, V, u, v)
    <2>1. PICK n \in 0..Capacity : at[n] = v /\ v # Nil
      BY <1>11, <1>12
    <2>2. n \notin K..Capacity
      BY <1>10, <2>1 DEF Spans
    <2>3. n = 0 \/ (n \in 0..(K - 1) /\ 0 \in 0..(K - 1) /\ 0 < n)
      BY <1>0, <2>2
    <2>4. n # 0 => <<u, v>> \in R
      BY <1>8, <1>10, <2>1, <2>3 DEF Spans
    <2> QED BY <1>5, <1>8, <2>1, <2>4
  <1>13. ASSUME v = u \/ InOrder(l, V, u, v) PROVE v \in Trail(l, u, "next")
    <2>1. CASE v = u
      <3>1. 0 \in 0..Capacity /\ at[0] = v /\ v # Nil
        BY <1>0, <1>3, <1>8, <2>1
      <3> QED BY <1>11, <3>1
    <2>2. CASE InOrder(l, V, u, v)
      <3>1. <<u, v>> \in R
        BY <1>5, <2>2
      <3>2. PICK n \in 1..(K - 1) : at[n] = v
        BY <1>3, <1>10, <3>1 DEF Spans
      <3>3. n \in 0..Capacity /\ v # Nil
        BY <1>0, <1>3
      <3> QED BY <1>11, <3>2, <3>3
    <2> QED BY <1>13, <2>1, <2>2
  <1> QED
    BY <1>12, <1>13

\* Document order: of the tree of a node, and of the slots of the roots.
Sooner(a, b) == InOrder(links, live, a, b) \/ RootOf(links, a) < RootOf(links, b)

\* Of two nodes of one tree one is sooner only when it comes earlier.
LEMMA SoonerInTree ==
  ASSUME Linked, NEW a \in live, NEW b \in live
  PROVE  /\ InOrder(links, live, a, b) => Sooner(a, b)
         /\ InOrder(links, live, b, a) => ~Sooner(a, b)
         /\ RootOf(links, a) = RootOf(links, b) => (Sooner(a, b) <=> InOrder(links, live, a, b))
         /\ RootOf(links, a) # RootOf(links, b) =>
              (Sooner(a, b) <=> RootOf(links, a) < RootOf(links, b))
  <1>0. Good(links, live, texts) /\ live \subseteq 0..(count - 1) /\ live \subseteq Slot
    BY DEF Linked, Good, Places
  <1>1. RootOf(links, a) \in Int /\ RootOf(links, b) \in Int
    <2>1. RootOf(links, a) \in live /\ RootOf(links, b) \in live
      BY <1>0, RootIs
    <2>2. Slot \subseteq Int
      BY SlotsCount DEF Slot
    <2> QED BY <1>0, <2>1, <2>2
  <1>2. InOrder(links, live, a, b) => RootOf(links, a) = RootOf(links, b)
    BY <1>0, InOrderIs
  <1>3. InOrder(links, live, b, a) => RootOf(links, a) = RootOf(links, b)
    BY <1>0, InOrderIs
  <1>4. ~(InOrder(links, live, a, b) /\ InOrder(links, live, b, a))
    <2>1. ~InOrder(links, live, a, a)
      BY <1>0, InOrderIs
    <2> QED BY <1>0, <2>1, InOrderIs
  <1>5. RootOf(links, a) = RootOf(links, b) => ~(RootOf(links, a) < RootOf(links, b))
    BY <1>1
  <1> QED
    BY <1>2, <1>3, <1>4, <1>5 DEF Sooner

\* Where the climbs meet: below a common parent, or at two roots.
LEMMA MeetDecides ==
  ASSUME Linked, NEW a \in live, NEW b \in live, NEW u \in live, NEW v \in live, u # v,
         a \in Subtree(links, u), b \in Subtree(links, v), links[u].parent = links[v].parent
  PROVE  Sooner(a, b) <=> IF links[u].parent = Nil THEN u < v ELSE v \in Trail(links, u, "next")
  <1>0. Good(links, live, texts) /\ live \subseteq 0..(count - 1)
    BY DEF Linked, Places
  <1>1. CASE links[u].parent = Nil
    <2>1. u = RootOf(links, a) /\ v = RootOf(links, b)
      BY <1>0, <1>1, RootIs
    <2> QED BY <1>1, <2>1, SoonerInTree
  <1>2. CASE links[u].parent # Nil
    <2>1. PICK p \in live, j \in Nat : PlacedAt(links, u, p, j)
      BY <1>0, <1>2, PlaceOf
    <2>2. PICK q \in live, k \in Nat : PlacedAt(links, v, q, k)
      BY <1>0, <1>2, PlaceOf
    <2>3. PICK c : c = Chain(links, p)
      OBVIOUS
    <2>4. /\ j \in 1..Len(c) /\ c[j] = u /\ k \in 1..Len(c) /\ c[k] = v /\ Len(c) \in Nat
      BY <2>1, <2>2, <2>3 DEF PlacedAt
    <2>5. InOrder(links, live, u, v) <=> j < k
      BY <1>0, <2>3, <2>4, KidsInOrder
    <2>6. v \in Trail(links, u, "next") <=> j < k
      <3>1. v \in Trail(links, u, "next") <=> v = u \/ InOrder(links, live, u, v)
        BY <1>0, <1>2, TrailOn
      <3> QED BY <2>5, <3>1
    <2>7. j < k => InOrder(links, live, a, b)
      BY <1>0, <2>3, <2>4, SiblingsInOrder
    <2>8. k < j => InOrder(links, live, b, a)
      BY <1>0, <2>3, <2>4, SiblingsInOrder
    <2>9. j < k \/ k < j
      BY <2>4
    <2>10. /\ InOrder(links, live, a, b) => Sooner(a, b)
           /\ InOrder(links, live, b, a) => ~Sooner(a, b)
      BY SoonerInTree
    <2> QED BY <1>2, <2>4, <2>6, <2>7, <2>8, <2>9, <2>10
  <1> QED
    BY <1>1, <1>2

\* One node above the other.
LEMMA AboveDecides ==
  ASSUME Linked, NEW a \in live, NEW b \in live, a # b, NEW A, NEW B, NEW da, NEW db,
         Rising(links, live, a, A, da), Rising(links, live, b, B, db),
         NEW x \in Nat, NEW y \in Nat, x = (IF da > db THEN da - db ELSE 0),
         y = (IF db > da THEN db - da ELSE 0), A[x] = B[y]
  PROVE  Sooner(a, b) <=> da < db
  <1>0. /\ Good(links, live, texts) /\ live \subseteq 0..(count - 1) /\ Capacity \in Nat
        /\ da \in Nat /\ db \in Nat /\ da > 0 /\ db > 0
    BY SlotsCount DEF Linked, Places, Rising
  <1>1. CASE da < db
    <2>1. x = 0 /\ y \in 0..(db - 1)
      BY <1>0, <1>1
    <2>2. b \in Subtree(links, a)
      BY <2>1 DEF Rising
    <2>3. InOrder(links, live, a, b)
      BY <1>0, <2>2, InOrderIs
    <2> QED BY <1>1, <2>3, SoonerInTree
  <1>2. CASE db < da
    <2>1. y = 0 /\ x \in 0..(da - 1)
      BY <1>0, <1>2
    <2>2. a \in Subtree(links, b)
      BY <2>1 DEF Rising
    <2>3. InOrder(links, live, b, a)
      BY <1>0, <2>2, InOrderIs
    <2> QED BY <1>0, <1>2, <2>3, SoonerInTree
  <1>3. CASE da = db
    <2>1. x = 0 /\ y = 0
      BY <1>0, <1>3
    <2> QED BY <2>1 DEF Rising
  <1> QED
    BY <1>0, <1>1, <1>2, <1>3

\* order_slow decides document order.
LEMMA SlowIs ==
  ASSUME Linked, NEW a \in live, NEW b \in live, a # b
  PROVE  SlowLess(a, b) <=> Sooner(a, b)
  <1>0. Good(links, live, texts) /\ live \subseteq 0..(count - 1) /\ Capacity \in Nat
    BY SlotsCount DEF Linked, Places
  <1>1. PICK A : A = Steps(links, a, "parent")
    OBVIOUS
  <1>2. PICK B : B = Steps(links, b, "parent")
    OBVIOUS
  <1>3. PICK da : da = Cardinality(Trail(links, a, "parent"))
    OBVIOUS
  <1>4. PICK db : db = Cardinality(Trail(links, b, "parent"))
    OBVIOUS
  <1>5. Rising(links, live, a, A, da) /\ Rising(links, live, b, B, db)
    BY <1>0, <1>1, <1>2, <1>3, <1>4, StepsRise
  <1>6. da \in Nat /\ db \in Nat /\ da > 0 /\ db > 0
    BY <1>0, <1>5 DEF Rising
  <1>15. (IF da > db THEN da - db ELSE 0) \in Nat
    <2>1. CASE da > db
      BY <1>6, <2>1
    <2> QED BY <2>1
  <1>16. (IF db > da THEN db - da ELSE 0) \in Nat
    <2>1. CASE db > da
      BY <1>6, <2>1
    <2> QED BY <2>1
  <1>7. PICK x \in Nat : x = IF da > db THEN da - db ELSE 0
    BY <1>15
  <1>8. PICK y \in Nat : y = IF db > da THEN db - da ELSE 0
    BY <1>16
  <1>9. PICK d \in Nat \ {0} : da = x + d /\ db = y + d
    <2>1. CASE da > db
      BY <1>6, <1>7, <1>8, <2>1
    <2>2. CASE ~(da > db)
      BY <1>6, <1>7, <1>8, <2>2
    <2> QED BY <2>1, <2>2
  <1>10. PICK J : J = {n \in 0..Capacity : links[A[x + n]].parent = links[B[y + n]].parent}
    OBVIOUS
  <1> DEFINE Joins(n) == links[A[x + n]].parent = links[B[y + n]].parent
             up == CHOOSE n \in 0..Capacity : Joins(n) /\ \A m \in 0..(n - 1) : ~Joins(m)
  <1>11. SlowLess(a, b) = IF A[x] = B[y] THEN da < db
                          ELSE IF links[A[x + up]].parent = Nil THEN A[x + up] < B[y + up]
                          ELSE B[y + up] \in Trail(links, A[x + up], "next")
    BY <1>1, <1>2, <1>3, <1>4, <1>7, <1>8 DEF SlowLess
  <1>12. CASE A[x] = B[y]
    <2>1. Sooner(a, b) <=> da < db
      BY <1>5, <1>7, <1>8, <1>12, AboveDecides
    <2>2. SlowLess(a, b) = (da < db)
      <3> HIDE DEF Joins, up
      <3> QED BY <1>11, <1>12
    <2> QED BY <2>1, <2>2
  <1>13. CASE A[x] # B[y]
    <2>1. PICK n : Meet(links, A, x, B, y, J, d, n)
      BY <1>5, <1>9, <1>10, ClimbsMeet
    <2>2. /\ n \in J /\ n \in 0..(d - 1) /\ \A m \in 0..(n - 1) : m \notin J
          /\ A[x + n] # B[y + n]
      BY <1>13, <2>1 DEF Meet
    <2>3. n \in 0..Capacity /\ Joins(n) /\ \A m \in 0..(n - 1) : ~Joins(m)
      <3>1. n \in 0..Capacity /\ n \in Nat
        BY <1>10, <2>2
      <3>2. \A m \in 0..(n - 1) : m \in 0..Capacity
        BY <1>0, <3>1
      <3> QED BY <1>10, <2>2, <3>1, <3>2
    <2>4. up = n
      <3> HIDE DEF Joins
      <3>1. PICK w : w = up
        OBVIOUS
      <3>2. w \in 0..Capacity /\ Joins(w) /\ \A m \in 0..(w - 1) : ~Joins(m)
        BY <2>3, <3>1
      <3>3. ~(w < n) /\ ~(n < w)
        BY <1>0, <2>3, <3>2
      <3> QED BY <1>0, <2>3, <3>1, <3>2, <3>3
    <2>5. PICK u : u = A[x + n]
      OBVIOUS
    <2>6. PICK v : v = B[y + n]
      OBVIOUS
    <2>7. x + n \in 0..(da - 1) /\ y + n \in 0..(db - 1)
      BY <1>6, <1>9, <2>2
    <2>8. u \in live /\ v \in live /\ a \in Subtree(links, u) /\ b \in Subtree(links, v)
      BY <1>5, <2>5, <2>6, <2>7 DEF Rising
    <2>9. u # v /\ links[u].parent = links[v].parent
      BY <2>2, <2>3, <2>5, <2>6
    <2>10. Sooner(a, b) <=> IF links[u].parent = Nil THEN u < v ELSE v \in Trail(links, u, "next")
      BY <2>8, <2>9, MeetDecides
    <2>11. SlowLess(a, b) = IF links[u].parent = Nil THEN u < v ELSE v \in Trail(links, u, "next")
      <3> HIDE DEF Joins, up
      <3> QED BY <1>11, <1>13, <2>4, <2>5, <2>6
    <2> QED BY <2>10, <2>11
  <1> QED
    BY <1>12, <1>13

\* The number of a node of the attached tree is its place in the walk, less one.
LEMMA NumberIs ==
  ASSUME Linked, NEW walk, walk = PreOrder(links, Root), NEW a \in live, Numbering(links)[a] # Nil
  PROVE  \E k \in 1..Len(walk) : walk[k] = a /\ Numbering(links)[a] = k - 1
  <1>0. Good(links, live, texts) /\ live \subseteq 0..(count - 1) /\ a \in Slot /\ Root \in live
    BY DEF Linked, Good, Places
  <1>1. walk \in Seq(live)
    BY <1>0, PreOrderInTurn DEF InTurn
  <1>2. a \in ToSet(walk) /\ Numbering(links)[a] = (CHOOSE k \in DOMAIN walk : walk[k] = a) - 1
    BY <1>0 DEF Numbering
  <1>3. \E k \in 1..Len(walk) : walk[k] = a
    BY <1>1, <1>2 DEF ToSet
  <1>4. DOMAIN walk = 1..Len(walk)
    BY <1>1
  <1>5. PICK k : k = CHOOSE j \in DOMAIN walk : walk[j] = a
    OBVIOUS
  <1>6. k \in 1..Len(walk) /\ walk[k] = a
    BY <1>3, <1>4, <1>5
  <1> QED BY <1>2, <1>5, <1>6

\* The numbers decide document order.
LEMMA NumbersDecide ==
  ASSUME Linked, NEW table, table = Numbering(links), NEW a \in live, NEW b \in live,
         table[a] # Nil, table[b] # Nil
  PROVE  table[a] < table[b] <=> Sooner(a, b)
  <1>0. Good(links, live, texts) /\ live \subseteq 0..(count - 1) /\ Root \in live
    BY DEF Linked, Good, Places
  <1>1. PICK walk : walk = PreOrder(links, Root)
    OBVIOUS
  <1>2. InTurn(links, live, Root, walk)
    BY <1>0, <1>1, PreOrderInTurn
  <1>3. PICK j \in 1..Len(walk) : walk[j] = a /\ table[a] = j - 1
    BY <1>1, NumberIs
  <1>4. PICK k \in 1..Len(walk) : walk[k] = b /\ table[b] = k - 1
    BY <1>1, NumberIs
  <1>5. /\ j < k => InOrder(links, live, a, b)
        /\ k < j => InOrder(links, live, b, a)
    BY <1>2, <1>3, <1>4 DEF InTurn
  <1>6. j \in Nat /\ k \in Nat
    BY <1>2 DEF InTurn
  <1>7. ~InOrder(links, live, a, a)
    BY <1>0, InOrderIs
  <1>8. RootOf(links, a) = RootOf(links, b)
    <2>1. a \in ToSet(walk) /\ b \in ToSet(walk)
      BY <1>2, <1>3, <1>4 DEF ToSet, InTurn
    <2>2. ToSet(walk) = {z \in live : z = Root \/ InOrder(links, live, Root, z)}
      BY <1>0, <1>2, InTurnSet
    <2>3. \A z \in live : InOrder(links, live, Root, z) => RootOf(links, Root) = RootOf(links, z)
      BY <1>0, InOrderIs
    <2> QED BY <2>1, <2>2, <2>3
  <1>9. /\ InOrder(links, live, a, b) => Sooner(a, b)
        /\ InOrder(links, live, b, a) => ~Sooner(a, b)
        /\ Sooner(a, b) <=> InOrder(links, live, a, b)
    BY <1>8, SoonerInTree
  <1>10. CASE j < k
    <2>1. table[a] < table[b]
      BY <1>3, <1>4, <1>6, <1>10
    <2> QED BY <1>5, <1>9, <1>10, <2>1
  <1>11. CASE k < j
    <2>1. ~(table[a] < table[b])
      BY <1>3, <1>4, <1>6, <1>11
    <2> QED BY <1>5, <1>9, <1>11, <2>1
  <1>12. CASE j = k
    <2>1. ~(table[a] < table[b]) /\ a = b
      BY <1>3, <1>4, <1>6, <1>12
    <2> QED BY <1>7, <1>9, <2>1
  <1> QED
    BY <1>6, <1>10, <1>11, <1>12

\* The cached numbers are those of the tree as it is.
Fresh == \A table \in order : table = Numbering(links)

\* compare_order decides document order.
LEMMA LessIs ==
  ASSUME Linked, Fresh, NEW a \in live, NEW b \in live, a # b
  PROVE  Less(a, b) <=> Sooner(a, b)
  <1>1. CASE \E table \in order : Nil \notin {table[a], table[b]}
    <2>1. PICK table \in order : table[a] # Nil /\ table[b] # Nil
      BY <1>1
    <2>2. \A t \in order : t = table
      BY <2>1 DEF Fresh
    <2>3. table[a] < table[b] <=> Sooner(a, b)
      BY <2>1, NumbersDecide DEF Fresh
    <2>4. Less(a, b) = \E t \in order : t[a] < t[b]
      BY <1>1 DEF Less
    <2> QED BY <2>1, <2>2, <2>3, <2>4
  <1>2. CASE ~\E table \in order : Nil \notin {table[a], table[b]}
    <2>1. Less(a, b) = SlowLess(a, b)
      BY <1>2 DEF Less
    <2> QED BY <2>1, SlowIs
  <1> QED
    BY <1>1, <1>2

-----------------------------------------------------------------------------
\* The copy of a single node is linked to nothing, as its slot was.
LEMMA LoneCopy ==
  ASSUME Linked, NEW h, NEW S \in SUBSET Slot, DeepClone(h, S), Cardinality(S) = 1
  PROVE  links' = links
  <1>1. PICK m : m = links'
    OBVIOUS
  <1>2. PICK i : i = h.index
    OBVIOUS
  <1>3. PICK copy : Cloned(m, i, S, copy)
    BY <1>1, <1>2, DeepCloneCopies
  <1>4. PICK from : from = Subtree(links, i)
    OBVIOUS
  <1>5. /\ i \in live /\ S \subseteq Slot \ live /\ Below(links, live, i, from)
        /\ Copied(links, m, i, from, S, copy)
    BY <1>3, <1>4 DEF Cloned
  <1>6. i \in from /\ Closed(links, i, from)
    BY <1>5, SubtreeClosed DEF Linked, Below, Upwards
  <1>7. PICK s \in S : S = {s}
    <2>1. IsFiniteSet(S)
      BY <1>5, SlotsCount, FS_Subset
    <2> QED BY <2>1, FS_Singleton
  <1>8. from = {i}
    BY <1>5, <1>6, <1>7 DEF Copied
  <1>9. links[i].first # i /\ links[i].last # i
    BY <1>6 DEF Closed
  <1>10. m[s] = CopyOf(links, i, from, copy, i)
    BY <1>5, <1>6, <1>7 DEF Copied
  <1>11. m[s] = Blank
    BY <1>8, <1>9, <1>10 DEF CopyOf, Blank
  <1>12. \A x \in Slot : m[x] = links[x]
    BY <1>5, <1>7, <1>11 DEF Copied, Linked, Good
  <1> QED
    BY <1>1, <1>5, <1>12 DEF Copied, Linked, Good, Typed

\* No step leaves a numbering that is not that of the tree.
LEMMA StepFresh ==
  ASSUME Linked, Fresh, [Next]_vars
  PROVE  Fresh'
  <1>1. CASE order' = {}
    BY <1>1 DEF Fresh
  <1>2. CASE UNCHANGED <<links, order>>
    BY <1>2 DEF Fresh
  <1>3. CASE PrepareOrder
    BY <1>3 DEF PrepareOrder, Fresh
  <1>4. CASE UNCHANGED vars
    BY <1>2, <1>4 DEF vars
  <1>5. CASE \E i \in Slot, text \in BOOLEAN : Create(i, text)
    BY <1>2, <1>5 DEF Create
  <1>6. CASE \E p \in issued, i \in Slot, text \in BOOLEAN : AppendNew(p, i, text)
    BY <1>1, <1>6 DEF AppendNew
  <1>7. CASE \/ \E p \in issued, list \in Batches : AppendChildren(p, list)
             \/ \E p \in issued, list \in Batches : PrependChildren(p, list)
             \/ \E r \in issued, list \in Batches : InsertBefore(r, list)
             \/ \E r \in issued, list \in Batches : InsertAfter(r, list)
             \/ \E r \in issued, list \in Batches : ReplaceWith(r, list)
    BY <1>1, <1>7
       DEF AppendChildren, PrependChildren, InsertBefore, InsertAfter, ReplaceWith, Relink
  <1>8. CASE \E h \in issued : Detach(h) \/ RemoveNode(h) \/ ClearChildren(h)
    BY <1>1, <1>8 DEF Detach, RemoveNode, ClearChildren, Relink, Release
  <1>9. CASE \E h \in issued, i \in Slot : SetTextContent(h, i)
    BY <1>1, <1>9 DEF SetTextContent
  <1>10. CASE \E h \in issued, S \in SUBSET Slot : DeepClone(h, S)
    <2>1. PICK h \in issued, S \in SUBSET Slot : DeepClone(h, S)
      BY <1>10
    <2>2. CASE Cardinality(S) = 1
      <3>1. links' = links
        BY <2>1, <2>2, LoneCopy
      <3>2. order' = order
        BY <2>1, <2>2 DEF DeepClone
      <3> QED BY <1>2, <3>1, <3>2
    <2>3. CASE Cardinality(S) # 1
      <3>1. order' = {}
        BY <2>1, <2>3 DEF DeepClone
      <3> QED BY <1>1, <3>1
    <2> QED BY <2>2, <2>3
  <1>11. CASE \E S \in SUBSET Slot : FailBuild(S)
    BY <1>1, <1>11 DEF FailBuild
  <1> QED
    BY <1>3, <1>4, <1>5, <1>6, <1>7, <1>8, <1>9, <1>10, <1>11 DEF Next

\* Document order is that.
LEMMA DocBeforeIs ==
  ASSUME Linked, NEW kids, kids = [i \in live |-> Chain(links, i)],
         NEW below, below = [i \in live |-> Subtree(links, i)], NEW a \in live, NEW b \in live
  PROVE  DocBefore(kids, below, a, b) <=> Sooner(a, b)
  <1>0. Good(links, live, texts) /\ live \subseteq 0..(count - 1)
    BY DEF Linked, Places
  <1>1. kids = KidsIn(links, live) /\ below = BelowIn(links, live)
    BY DEF KidsIn, BelowIn
  <1>2. InOrder(links, live, a, b) <=> (a # b /\ b \in below[a]) \/ Splits(live, kids, below, a, b)
    BY <1>1 DEF InOrder, Leads
  <1>3. DOMAIN kids = live
    OBVIOUS
  <1>4. \A p \in live : DOMAIN kids[p] = 1..Len(kids[p])
    <2>1. ASSUME NEW p \in live PROVE DOMAIN kids[p] = 1..Len(kids[p])
      <3>1. ChainOf(links, live, p, Chain(links, p))
        BY <1>0, ChainIs
      <3> QED BY <3>1 DEF ChainOf
    <2> QED BY <2>1
  <1>5. Splits(live, kids, below, a, b) <=>
          \E p \in DOMAIN kids : \E j, k \in DOMAIN kids[p] :
            j < k /\ a \in below[kids[p][j]] /\ b \in below[kids[p][k]]
    <2> DEFINE Part(p, j, k) == j < k /\ a \in below[kids[p][j]] /\ b \in below[kids[p][k]]
    <2>1. Splits(live, kids, below, a, b) <=> \E p \in live : \E j, k \in 1..Len(kids[p]) : Part(p, j, k)
      BY DEF Splits
    <2> HIDE DEF Part
    <2>2. (\E p \in live : \E j, k \in 1..Len(kids[p]) : Part(p, j, k)) <=>
            \E p \in DOMAIN kids : \E j, k \in DOMAIN kids[p] : Part(p, j, k)
      BY <1>3, <1>4, Zenon
    <2> QED BY <2>1, <2>2, Zenon DEF Part
  <1> QED
    BY <1>2, <1>5 DEF DocBefore, Sooner

\* The readers, given what comes before what.
Reads(before, below) ==
  LET Tree(i) == {b \in live : RootOf(links, b) = RootOf(links, i)}
  IN  \A i \in live :
        /\ \A b \in live \ {i} : Less(i, b) <=> <<i, b>> \in before
        /\ LET list == Following(i)
           IN  /\ ToSet(list) = {b \in Tree(i) \ below[i] : <<i, b>> \in before}
               /\ \A j, k \in DOMAIN list : j < k => <<list[j], list[k]>> \in before
        /\ LET list == Preceding(i)
           IN  /\ ToSet(list) = {b \in Tree(i) : <<b, i>> \in before /\ i \notin below[b]}
               /\ \A j, k \in DOMAIN list : j < k => <<list[k], list[j]>> \in before

\* The following axis.
LEMMA FollowingReads ==
  ASSUME Linked, NEW i \in live, NEW list, list = Following(i),
         NEW before, \A a, b \in live : <<a, b>> \in before <=> Sooner(a, b)
  PROVE  /\ ToSet(list) = {b \in {c \in live : RootOf(links, c) = RootOf(links, i)}
                                 \ Subtree(links, i) : <<i, b>> \in before}
         /\ \A j, k \in DOMAIN list : j < k => <<list[j], list[k]>> \in before
  <1>0. Good(links, live, texts) /\ live \subseteq 0..(count - 1)
    BY DEF Linked, Places
  <1>1. FollowingOf(i, list)
    BY FollowingIs
  <1>2. list \in Seq(live) /\ DOMAIN list = 1..Len(list) /\ \A j \in DOMAIN list : list[j] \in live
    BY <1>1 DEF FollowingOf
  <1>3. ToSet(list) \subseteq live
    BY <1>2 DEF ToSet
  <1>4. ASSUME NEW b \in live
        PROVE  b \in ToSet(list) <=> /\ RootOf(links, b) = RootOf(links, i)
                                     /\ b \notin Subtree(links, i) /\ <<i, b>> \in before
    <2>1. b \in ToSet(list) <=> InOrder(links, live, i, b) /\ b \notin Subtree(links, i)
      BY <1>1 DEF FollowingOf
    <2>2. InOrder(links, live, i, b) => RootOf(links, i) = RootOf(links, b)
      BY <1>0, InOrderIs
    <2>3. RootOf(links, i) = RootOf(links, b) => (Sooner(i, b) <=> InOrder(links, live, i, b))
      BY SoonerInTree
    <2> QED BY <2>1, <2>2, <2>3
  <1>5. ASSUME NEW j \in DOMAIN list, NEW k \in DOMAIN list, j < k
        PROVE  <<list[j], list[k]>> \in before
    <2>1. InOrder(links, live, list[j], list[k]) /\ list[j] \in live /\ list[k] \in live
      BY <1>1, <1>2, <1>5 DEF FollowingOf
    <2>2. Sooner(list[j], list[k])
      BY <2>1 DEF Sooner
    <2> QED BY <2>1, <2>2
  <1> QED
    BY <1>3, <1>4, <1>5

\* The preceding axis.
LEMMA PrecedingReads ==
  ASSUME Linked, NEW i \in live, NEW list, list = Preceding(i),
         NEW before, \A a, b \in live : <<a, b>> \in before <=> Sooner(a, b),
         NEW below, \A x \in live : below[x] = Subtree(links, x)
  PROVE  /\ ToSet(list) = {b \in {c \in live : RootOf(links, c) = RootOf(links, i)} :
                             <<b, i>> \in before /\ i \notin below[b]}
         /\ \A j, k \in DOMAIN list : j < k => <<list[k], list[j]>> \in before
  <1>0. Good(links, live, texts) /\ live \subseteq 0..(count - 1)
    BY DEF Linked, Places
  <1>1. PrecedingOf(i, list)
    BY PrecedingIs
  <1>2. list \in Seq(live) /\ DOMAIN list = 1..Len(list) /\ \A j \in DOMAIN list : list[j] \in live
    BY <1>1 DEF PrecedingOf
  <1>3. ToSet(list) \subseteq live
    BY <1>2 DEF ToSet
  <1>4. ASSUME NEW b \in live
        PROVE  b \in ToSet(list) <=> /\ RootOf(links, b) = RootOf(links, i)
                                     /\ <<b, i>> \in before /\ i \notin below[b]
    <2>1. b \in ToSet(list) <=> InOrder(links, live, b, i) /\ i \notin below[b]
      BY <1>1 DEF PrecedingOf
    <2>2. InOrder(links, live, b, i) => RootOf(links, b) = RootOf(links, i)
      BY <1>0, InOrderIs
    <2>3. RootOf(links, b) = RootOf(links, i) => (Sooner(b, i) <=> InOrder(links, live, b, i))
      BY SoonerInTree
    <2> QED BY <2>1, <2>2, <2>3
  <1>5. ASSUME NEW j \in DOMAIN list, NEW k \in DOMAIN list, j < k
        PROVE  <<list[k], list[j]>> \in before
    <2>1. InOrder(links, live, list[k], list[j]) /\ list[j] \in live /\ list[k] \in live
      BY <1>1, <1>2, <1>5 DEF PrecedingOf
    <2>2. Sooner(list[k], list[j])
      BY <2>1 DEF Sooner
    <2> QED BY <2>1, <2>2
  <1> QED
    BY <1>3, <1>4, <1>5

\* The readers keep to document order.
LEMMA FreshReads ==
  ASSUME Linked, Fresh
  PROVE  ReadsInOrder
  <1>1. PICK kids : kids = [i \in live |-> Chain(links, i)]
    OBVIOUS
  <1>2. PICK below : below = [i \in live |-> Subtree(links, i)]
    OBVIOUS
  <1>3. PICK before : before = {p \in live \X live : DocBefore(kids, below, p[1], p[2])}
    OBVIOUS
  <1>4. \A a, b \in live : <<a, b>> \in before <=> Sooner(a, b)
    <2>1. ASSUME NEW a \in live, NEW b \in live PROVE <<a, b>> \in before <=> Sooner(a, b)
      <3>1. DocBefore(kids, below, a, b) <=> Sooner(a, b)
        BY <1>1, <1>2, DocBeforeIs
      <3> QED BY <1>3, <3>1
    <2> QED BY <2>1
  <1>5. Reads(before, below)
    <2>1. ASSUME NEW i \in live, NEW b \in live \ {i} PROVE Less(i, b) <=> <<i, b>> \in before
      <3>1. Less(i, b) <=> Sooner(i, b)
        BY LessIs
      <3> QED BY <1>4, <3>1
    <2>2. ASSUME NEW i \in live
          PROVE  /\ ToSet(Following(i)) = {b \in {c \in live : RootOf(links, c) = RootOf(links, i)}
                                                 \ below[i] : <<i, b>> \in before}
                 /\ \A j, k \in DOMAIN Following(i) :
                      j < k => <<Following(i)[j], Following(i)[k]>> \in before
      <3>1. below[i] = Subtree(links, i)
        BY <1>2
      <3> QED BY <1>4, <3>1, FollowingReads
    <2>3. ASSUME NEW i \in live
          PROVE  /\ ToSet(Preceding(i)) = {b \in {c \in live : RootOf(links, c) = RootOf(links, i)} :
                                             <<b, i>> \in before /\ i \notin below[b]}
                 /\ \A j, k \in DOMAIN Preceding(i) :
                      j < k => <<Preceding(i)[k], Preceding(i)[j]>> \in before
      <3>1. \A x \in live : below[x] = Subtree(links, x)
        BY <1>2
      <3> QED BY <1>4, <3>1, PrecedingReads
    <2> QED BY <2>1, <2>2, <2>3 DEF Reads
  <1> QED
    BY <1>1, <1>2, <1>3, <1>5 DEF ReadsInOrder, Reads

\* Whatever the calls, compare_order is document order, with or without the cached numbers, and
\* the following and preceding axes are the nodes after and before in that order, nearest first
\* (arena.rs:14-19, 1214, 1242).
THEOREM ReadersKeepOrder == Spec => []ReadsInOrder
  <1>1. Init => Linked /\ Fresh
    BY StartsLinked DEF Init, Fresh
  <1>2. Linked /\ Fresh /\ [Next]_vars => Linked' /\ Fresh'
    BY StepLinks, StepFresh
  <1>3. Linked /\ Fresh => ReadsInOrder
    BY FreshReads
  <1> QED
    BY <1>1, <1>2, <1>3, PTL DEF Spec

=============================================================================

------------------------------- MODULE Arena -------------------------------
(***************************************************************************)
(* The mutable document of the XPath, patch and inheritance engines:       *)
(* ArenaDoc (src/crates/rimstudio-core/src/tree/arena.rs).  Nodes live in  *)
(* slots linked by parent, first, last, prev and next; a handle is a slot  *)
(* and the generation it was issued for; a numbering of the attached tree  *)
(* is cached until a structural change.  One process owns an arena, so     *)
(* every call is one action; a call that is refused changes nothing.       *)
(*                                                                         *)
(* Names, attributes, texts and origins are left out: no link and no order *)
(* depends on them.  The free list is a set: which of its slots a creation *)
(* takes is left open.                                                     *)
(***************************************************************************)
EXTENDS Integers, SequencesExt

CONSTANTS Capacity,       \* slots an arena may have (u32::MAX in the code)
          MaxGeneration,  \* the last generation of a slot (u32::MAX)
          MaxBatch        \* bound: nodes in one list given to a call

ASSUME ArenaAssumption == /\ Capacity \in Nat \ {0} /\ MaxGeneration \in Nat
                          /\ MaxBatch \in Nat

VARIABLES count,   \* slots.len()
          live,    \* the slots that hold a node
          texts,   \* the live slots of kind Text
          gen,     \* the generation of each slot
          links,   \* the five links of each slot
          free,    \* the free list
          order,   \* the cached numbering, in a set of at most one
          issued   \* every handle a caller was ever given

vars == <<count, live, texts, gen, links, free, order, issued>>

Slot == 0..(Capacity - 1)
Root == 0
Nil == -1
Link == Slot \cup {Nil}
Blank == [parent |-> Nil, first |-> Nil, last |-> Nil, prev |-> Nil, next |-> Nil]
Handles == [index : Slot, generation : 0..MaxGeneration]

Init == /\ count = 1 /\ live = {Root} /\ texts = {} /\ free = {}
        /\ gen = [i \in Slot |-> 0]
        /\ links = [i \in Slot |-> Blank]
        /\ order = {}
        /\ issued = {[index |-> Root, generation |-> 0]}

-----------------------------------------------------------------------------
(* Walks over links l.                                                     *)

\* Where n steps along one link lead.
Steps(l, i, field) ==
  LET at[n \in 0..Capacity] ==
        IF n = 0 THEN i ELSE LET x == at[n - 1] IN IF x = Nil THEN Nil ELSE l[x][field]
  IN  at

\* i and everything the link leads to.
Trail(l, i, field) == ToSet(Steps(l, i, field)) \ {Nil}

RootOf(l, i) == CHOOSE r \in Trail(l, i, "parent") : l[r].parent = Nil

\* The slots free_subtree and snapshot visit: i and, of each, the chain of children.
Subtree(l, i) ==
  LET reach[n \in 0..Capacity] ==
        IF n = 0 THEN {i}
        ELSE LET got == reach[n - 1]
             IN  got \cup UNION {Trail(l, l[x].first, "next") : x \in got}
      all == reach[Capacity]
  IN  {s \in 0..(count - 1) : s \in all}

\* The children of a slot in order.
Chain(l, i) ==
  LET at == Steps(l, l[i].first, "next")
  IN  [k \in 1..Cardinality({n \in DOMAIN at : at[n] # Nil}) |-> at[k - 1]]

\* The slot after i in pre order, not leaving the subtree of root.
Advance(l, root, i) ==
  LET up == Steps(l, i, "parent")
      stops == {n \in DOMAIN up : up[n] = Nil \/ up[n] = root \/ l[up[n]].next # Nil}
      top == up[CHOOSE n \in stops : \A m \in stops : n <= m]
  IN  IF l[i].first # Nil THEN l[i].first
      ELSE IF top = Nil \/ top = root THEN Nil ELSE l[top].next

\* The slots an unbounded pre order walk yields, from i.
PreOrder(l, i) ==
  LET at[n \in 0..Capacity] ==
        IF n = 0 THEN i ELSE LET x == at[n - 1] IN IF x = Nil THEN Nil ELSE Advance(l, Nil, x)
  IN  [k \in 1..Cardinality({n \in DOMAIN at : at[n] # Nil}) |-> at[k - 1]]

\* order_table: the pre order number of every slot of the attached tree.
Numbering(l) ==
  LET walk == PreOrder(l, Root)
  IN  [i \in Slot |-> IF i \in ToSet(walk) THEN (CHOOSE k \in DOMAIN walk : walk[k] = i) - 1
                                           ELSE Nil]

-----------------------------------------------------------------------------
(* The five primitives that change links.                                  *)

LinkLast(l, p, c) ==
  LET last == l[p].last
      placed == [l EXCEPT ![c] = [@ EXCEPT !.parent = p, !.prev = last, !.next = Nil]]
      reached == IF last = Nil THEN [placed EXCEPT ![p].first = c]
                               ELSE [placed EXCEPT ![last].next = c]
  IN  [reached EXCEPT ![p].last = c]

LinkFirst(l, p, c) ==
  LET first == l[p].first
      placed == [l EXCEPT ![c] = [@ EXCEPT !.parent = p, !.prev = Nil, !.next = first]]
      reached == IF first = Nil THEN [placed EXCEPT ![p].last = c]
                                ELSE [placed EXCEPT ![first].prev = c]
  IN  [reached EXCEPT ![p].first = c]

\* Mutant of LinkBefore: the parent keeps its first child.
LinkBehindFirst(l, r, c) ==
  LET p == l[r].parent
      prev == l[r].prev
      placed == [l EXCEPT ![c] = [@ EXCEPT !.parent = p, !.prev = prev, !.next = r],
                          ![r].prev = c]
  IN  IF prev = Nil THEN placed ELSE [placed EXCEPT ![prev].next = c]

LinkBefore(l, r, c) ==
  LET p == l[r].parent
      prev == l[r].prev
      placed == [l EXCEPT ![c] = [@ EXCEPT !.parent = p, !.prev = prev, !.next = r],
                          ![r].prev = c]
  IN  IF prev = Nil THEN [placed EXCEPT ![p].first = c] ELSE [placed EXCEPT ![prev].next = c]

LinkAfter(l, r, c) ==
  LET p == l[r].parent
      next == l[r].next
      placed == [l EXCEPT ![c] = [@ EXCEPT !.parent = p, !.prev = r, !.next = next],
                          ![r].next = c]
  IN  IF next = Nil THEN [placed EXCEPT ![p].last = c] ELSE [placed EXCEPT ![next].prev = c]

Unlink(l, c) ==
  LET p == l[c].parent
      prev == l[c].prev
      next == l[c].next
      left == IF prev # Nil THEN [l EXCEPT ![prev].next = next]
              ELSE IF p # Nil THEN [l EXCEPT ![p].first = next] ELSE l
      right == IF next # Nil THEN [left EXCEPT ![next].prev = prev]
               ELSE IF p # Nil THEN [left EXCEPT ![p].last = prev] ELSE left
  IN  [right EXCEPT ![c] = [@ EXCEPT !.parent = Nil, !.prev = Nil, !.next = Nil]]

\* link_last and link_first below `at', link_before and link_after beside it.
LinkTo(l, how, at, c) ==
  IF how = "last" THEN LinkLast(l, at, c)
  ELSE IF how = "first" THEN LinkFirst(l, at, c)
  ELSE IF how = "before" THEN LinkBefore(l, at, c) ELSE LinkAfter(l, at, c)

\* The loop of a call that takes a batch: one after the other, c[k] goes to at[k].
LinkAll(l, how, at, c) ==
  LET after[k \in 0..Len(c)] == IF k = 0 THEN l ELSE LinkTo(after[k - 1], how, at[k], c[k])
  IN  after[Len(c)]

\* The slots c are unlinked one after the other.
UnlinkAll(l, c) ==
  LET after[k \in 0..Len(c)] == IF k = 0 THEN l ELSE Unlink(after[k - 1], c[k])
  IN  after[Len(c)]

-----------------------------------------------------------------------------
(* What a call checks before it changes anything.                          *)

Valid(h) == h.index \in live /\ gen[h.index] = h.generation

\* container_index: an element or the document.
Container(h) == Valid(h) /\ h.index \notin texts

\* reference_parent: a node beside or instead of which others can be put.
Attached(h) == Valid(h) /\ h.index # Root /\ links[h.index].parent # Nil

Batches == UNION {[1..k -> issued] : k \in 0..MaxBatch}
Slots(list) == [k \in DOMAIN list |-> list[k].index]

\* check_batch for a list of handles about to become children of slot p.  BatchUnrooted is a
\* mutant: the tree around the parent is not looked for.
BatchUnrooted(p, list) ==
  /\ \A h \in ToSet(list) : /\ Valid(h) /\ h.index \notin {Root, p}
                            /\ links[h.index].parent = Nil
  /\ IsInjective(Slots(list))
BatchOK(p, list) ==
  LET slots == ToSet(Slots(list))
  IN  /\ \A h \in ToSet(list) : /\ Valid(h) /\ h.index \notin {Root, p}
                                /\ links[h.index].parent = Nil
      /\ IsInjective(Slots(list))
      /\ (\E c \in slots : links[c].first # Nil) => RootOf(links, p) \notin slots

\* alloc: S can be taken from the free list fr and from new slots after n.
CanAlloc(S, fr, n) ==
  LET new == S \ fr
  IN  /\ S # {} /\ (new # {} => fr \subseteq S)
      /\ new = n..(n + Cardinality(new) - 1)

\* The slots S become live nodes, and the caller gets their handles.
Fill(S, fr, n) ==
  /\ CanAlloc(S, fr, n)
  /\ count' = n + Cardinality(S \ fr)
  /\ free' = fr \ S
  /\ issued' = issued \cup {[index |-> i, generation |-> gen'[i]] : i \in S}

\* The slots S are freed: a slot of the last generation is retired.
\* Mutants of Bump: the last generation is passed; a freed slot keeps its generation.
BumpPast(S) == [i \in Slot |-> IF i \in S THEN gen[i] + 1 ELSE gen[i]]
KeepGeneration(S) == gen
Bump(S) == [i \in Slot |-> IF i \in S /\ gen[i] < MaxGeneration THEN gen[i] + 1 ELSE gen[i]]
Recycled(S) == free \cup {i \in S : gen[i] < MaxGeneration}
Erase(l, S) == [i \in Slot |-> IF i \in S THEN Blank ELSE l[i]]

\* Only links change: no numbering survives.
\* Mutant of Relink: the cached numbering is kept.
RelinkOnly(l) == links' = l /\ UNCHANGED <<count, live, texts, gen, free, order, issued>>
Relink(l) == links' = l /\ order' = {} /\ UNCHANGED <<count, live, texts, gen, free, issued>>

-----------------------------------------------------------------------------
(* The calls.                                                              *)

\* create_element, create_text: a detached node.
Create(i, text) ==
  /\ gen' = gen /\ Fill({i}, free, count)
  /\ live' = live \cup {i} /\ texts' = texts \cup (IF text THEN {i} ELSE {})
  /\ UNCHANGED <<links, order>>

\* append_element, append_text.
AppendNew(p, i, text) ==
  /\ Container(p)
  /\ gen' = gen /\ Fill({i}, free, count)
  /\ live' = live \cup {i} /\ texts' = texts \cup (IF text THEN {i} ELSE {})
  /\ links' = LinkLast(links, p.index, i) /\ order' = {}

AppendChildren(p, list) ==
  /\ Container(p) /\ BatchOK(p.index, list) /\ list # <<>>
  /\ Relink(LinkAll(links, "last", [k \in DOMAIN list |-> p.index], Slots(list)))

PrependChildren(p, list) ==
  /\ Container(p) /\ BatchOK(p.index, list) /\ list # <<>>
  /\ Relink(LinkAll(links, "first", [k \in DOMAIN list |-> p.index], Reverse(Slots(list))))

InsertBefore(r, list) ==
  /\ Attached(r) /\ BatchOK(links[r.index].parent, list) /\ list # <<>>
  /\ Relink(LinkAll(links, "before", [k \in DOMAIN list |-> r.index], Slots(list)))

\* Each node goes after the one before it.
InsertAfter(r, list) ==
  LET Cursor(k) == IF k = 1 THEN r.index ELSE list[k - 1].index
  IN  /\ Attached(r) /\ BatchOK(links[r.index].parent, list) /\ list # <<>>
      /\ Relink(LinkAll(links, "after", [k \in DOMAIN list |-> Cursor(k)], Slots(list)))

\* replace_with: the replaced node stays, as a tree of its own.
ReplaceWith(r, list) ==
  /\ Attached(r) /\ BatchOK(links[r.index].parent, list)
  /\ Relink(Unlink(LinkAll(links, "before", [k \in DOMAIN list |-> r.index], Slots(list)), r.index))

Detach(h) == Attached(h) /\ Relink(Unlink(links, h.index))

\* free_subtree of every slot in S, which nothing in l links to any more.
Release(l, S) ==
  /\ live' = live \ S /\ texts' = texts \ S
  /\ gen' = Bump(S) /\ free' = Recycled(S)
  /\ links' = Erase(l, S) /\ order' = {}
  /\ UNCHANGED <<count, issued>>

RemoveNode(h) ==
  /\ Valid(h) /\ h.index # Root
  /\ Release(IF Attached(h) THEN Unlink(links, h.index) ELSE links, Subtree(links, h.index))

\* clear_children, which unlinks and frees the first child until there is none.
ClearChildren(h) ==
  /\ Container(h) /\ links[h.index].first # Nil
  /\ Release(UnlinkAll(links, Chain(links, h.index)),
             Subtree(links, h.index) \ {h.index})

\* set_text_content: the children go, one new text comes, maybe in a slot of theirs.
SetTextContent(h, i) ==
  LET gone == Subtree(links, h.index) \ {h.index}
      bare == Erase(UnlinkAll(links, Chain(links, h.index)), gone)
  IN  /\ Container(h)
      /\ gen' = Bump(gone) /\ Fill({i}, Recycled(gone), count)
      /\ live' = (live \ gone) \cup {i} /\ texts' = (texts \ gone) \cup {i}
      /\ links' = LinkLast(bare, h.index, i) /\ order' = {}

\* deep_clone: the copy of a subtree, as a tree of its own.
DeepClone(h, S) ==
  LET from == Subtree(links, h.index)
  IN  /\ Valid(h) /\ h.index # Root
      /\ gen' = gen /\ Fill(S, free, count)
      /\ \E copy \in Bijection(from, S) :
           LET Of(x) == IF x \in from THEN copy[x] ELSE Nil
               CopyOf(x) == [f \in DOMAIN Blank |->
                              IF x = h.index /\ f \in {"parent", "prev", "next"} THEN Nil
                              ELSE Of(links[x][f])]
           IN  /\ live' = live \cup S /\ texts' = texts \cup {copy[x] : x \in from \cap texts}
               /\ links' = [i \in Slot |-> IF i \in S THEN CopyOf(CHOOSE x \in from : copy[x] = i)
                                                      ELSE links[i]]
      /\ order' = IF Cardinality(S) = 1 THEN order ELSE {}

\* import and deep_clone that fail after taking the slots S: all of them are freed again.
FailBuild(S) ==
  /\ CanAlloc(S, free, count)
  /\ count' = count + Cardinality(S \ free)
  /\ gen' = Bump(S) /\ free' = (free \ S) \cup {i \in S : gen[i] < MaxGeneration}
  /\ order' = {}
  /\ UNCHANGED <<live, texts, links, issued>>

\* prepare_order, order_key, sort_document_order: number the tree unless it is.
PrepareOrder ==
  /\ order = {} /\ order' = {Numbering(links)}
  /\ UNCHANGED <<count, live, texts, gen, links, free, issued>>

Next ==
  \/ \E i \in Slot, text \in BOOLEAN : Create(i, text)
  \/ \E p \in issued, i \in Slot, text \in BOOLEAN : AppendNew(p, i, text)
  \/ \E p \in issued, list \in Batches : AppendChildren(p, list)
  \/ \E p \in issued, list \in Batches : PrependChildren(p, list)
  \/ \E r \in issued, list \in Batches : InsertBefore(r, list)
  \/ \E r \in issued, list \in Batches : InsertAfter(r, list)
  \/ \E r \in issued, list \in Batches : ReplaceWith(r, list)
  \/ \E h \in issued : Detach(h) \/ RemoveNode(h) \/ ClearChildren(h)
  \/ \E h \in issued, i \in Slot : SetTextContent(h, i)
  \/ \E h \in issued, S \in SUBSET Slot : DeepClone(h, S)
  \/ \E S \in SUBSET Slot : FailBuild(S)
  \/ PrepareOrder

Spec == Init /\ [][Next]_vars

-----------------------------------------------------------------------------
(* What the readers compute.                                               *)

\* order_slow: lift the deeper node, climb to the first common parent, scan its children.
SlowLess(a, b) ==
  LET A == Steps(links, a, "parent")
      B == Steps(links, b, "parent")
      da == Cardinality(Trail(links, a, "parent"))
      db == Cardinality(Trail(links, b, "parent"))
      x == IF da > db THEN da - db ELSE 0
      y == IF db > da THEN db - da ELSE 0
      Joins(n) == links[A[x + n]].parent = links[B[y + n]].parent
      up == CHOOSE n \in 0..Capacity : Joins(n) /\ \A m \in 0..(n - 1) : ~Joins(m)
  IN  IF A[x] = B[y] THEN da < db
      ELSE IF links[A[x + up]].parent = Nil THEN A[x + up] < B[y + up]
      ELSE B[y + up] \in Trail(links, A[x + up], "next")

\* compare_order: by the cached numbers when both nodes have one.
Less(a, b) ==
  IF \E table \in order : Nil \notin {table[a], table[b]}
  THEN \E table \in order : table[a] < table[b]
  ELSE SlowLess(a, b)

\* following: pre order from the next subtree on.
Following(i) ==
  LET up == Trail(links, i, "parent")
      ends == {a \in up : links[a].next # Nil}
      near == {a \in ends : \A b \in ends : b \in Trail(links, a, "parent")}
  IN  IF ends = {} THEN <<>> ELSE PreOrder(links, links[CHOOSE a \in near : TRUE].next)

\* preceding: the last node below the sibling before, or the parent; ancestors are skipped.
Preceding(i) ==
  LET Deepest(d) == CHOOSE e \in Trail(links, d, "last") : links[e].last = Nil
      Back(x) == IF links[x].prev # Nil THEN Deepest(links[x].prev) ELSE links[x].parent
      at[n \in 0..Capacity] ==
        IF n = 0 THEN i ELSE LET x == at[n - 1] IN IF x = Nil THEN Nil ELSE Back(x)
      met[n \in 0..Capacity] ==
        IF n = 0 THEN <<>>
        ELSE IF at[n] = Nil \/ at[n] \in Trail(links, i, "parent") THEN met[n - 1]
        ELSE Append(met[n - 1], at[n])
  IN  met[Capacity]

-----------------------------------------------------------------------------
(* Properties.                                                             *)

\* Every slot, link and handle is one there is, and at most one numbering is cached.
ArenaTypeOK ==
  /\ count \in 1..Capacity /\ live \subseteq 0..(count - 1) /\ texts \subseteq live \ {Root}
  /\ free \subseteq (0..(count - 1)) \ live
  /\ gen \in [Slot -> 0..MaxGeneration]
  /\ links \in [Slot -> [parent : Link, first : Link, last : Link, prev : Link, next : Link]]
  /\ \A a, b \in order : a = b
  /\ \A table \in order : table \in [Slot -> Link]
  /\ issued \subseteq Handles

\* The links of a node agree with those of its neighbours, every node is below one root, and a
\* slot without a node has none: what check_integrity (arena.rs:1684) verifies.
SoundLinks ==
  /\ Root \in live /\ links[Root].parent = Nil
  /\ \A i \in Slot \ live : links[i] = Blank
  /\ \A t \in texts : links[t].first = Nil
  /\ \A i \in live :
       LET chain == <<Nil>> \o Chain(links, i)
       IN  /\ links[i].last = chain[Len(chain)]
           /\ links[i].parent = Nil => links[i].prev = Nil /\ links[i].next = Nil
           /\ \A k \in 2..Len(chain) :
                chain[k] \in live /\ links[chain[k]].parent = i /\ links[chain[k]].prev = chain[k - 1]
  /\ \A i \in live : \E r \in live : links[r].parent = Nil /\ i \in Subtree(links, r)

\* Document order, from the lists of children alone (kids, and what is below each node): an
\* ancestor comes first, subtrees of siblings are in the order of the siblings, trees in the
\* order of the slots of their roots.
DocBefore(kids, below, a, b) ==
  \/ a # b /\ b \in below[a]
  \/ \E p \in DOMAIN kids : \E j, k \in DOMAIN kids[p] :
        j < k /\ a \in below[kids[p][j]] /\ b \in below[kids[p][k]]
  \/ RootOf(links, a) < RootOf(links, b)

\* compare_order, with or without the cache, is document order, whatever was created, freed or
\* moved since the cache was built; the following and preceding axes are the nodes after and
\* before in that order, nearest first, without descendants and ancestors (arena.rs:14-19,
\* 1214, 1242).
ReadsInOrder ==
  \E kids \in {[i \in live |-> Chain(links, i)]}, below \in {[i \in live |-> Subtree(links, i)]} :
    LET before == {p \in live \X live : DocBefore(kids, below, p[1], p[2])}
        Tree(i) == {b \in live : RootOf(links, b) = RootOf(links, i)}
    IN  \A i \in live :
          /\ \A b \in live \ {i} : Less(i, b) <=> <<i, b>> \in before
          /\ LET list == Following(i)
             IN  /\ ToSet(list) = {b \in Tree(i) \ below[i] : <<i, b>> \in before}
                 /\ \A j, k \in DOMAIN list : j < k => <<list[j], list[k]>> \in before
          /\ LET list == Preceding(i)
             IN  /\ ToSet(list) = {b \in Tree(i) : <<b, i>> \in before /\ i \notin below[b]}
                 /\ \A j, k \in DOMAIN list : j < k => <<list[k], list[j]>> \in before

\* A handle whose node was freed never becomes valid again, however often its slot is used
\* (arena.rs:8, 55, 944).
StaleForever == [][\A h \in issued : ~Valid(h) => ~Valid(h)']_vars

\* The slots are an ordered forest: a handle names one node only, and every call moves exactly
\* the nodes it says, subtrees with them.
Handle(i) == [index |-> i, generation |-> gen[i]]
Nodes == {Handle(i) : i \in live}
Leaves == {Handle(i) : i \in texts}
Kids == [h \in Nodes |-> LET chain == Chain(links, h.index)
                        IN  [k \in DOMAIN chain |-> Handle(chain[k])]]
Promise == INSTANCE Forest WITH
  Doc <- [index |-> Root, generation |-> 0],
  nodes <- Nodes, leaves <- Leaves, used <- issued, kids <- Kids
KeepsForest == Promise!Spec

=============================================================================

------------------------------- MODULE Forest -------------------------------
(***************************************************************************)
(* What ArenaDoc (src/crates/rimstudio-core/src/tree/arena.rs) promises    *)
(* the XPath, patch and inheritance engines: an ordered forest of named    *)
(* nodes.  A name is given to one node only and never again; a node has    *)
(* one parent at most and keeps its subtree when it moves; a batch goes in *)
(* as one run.  Arena implements it with slots, links and generations.     *)
(***************************************************************************)
EXTENDS Naturals, SequencesExt

CONSTANT Doc        \* the document node, always there

VARIABLES nodes,    \* the nodes that exist
          leaves,   \* those that are text and have no children
          kids,     \* the children of each node, in order
          used      \* every name ever given out

vars == <<nodes, leaves, kids, used>>

(* k stands for the children of each node.                                 *)

Parents(k, n) == {p \in DOMAIN k : n \in ToSet(k[p])}

\* The node and everything below it.
Below(k, n) ==
  LET reach[d \in 0..Cardinality(DOMAIN k)] ==
        IF d = 0 THEN {n}
        ELSE LET got == reach[d - 1] IN got \cup UNION {ToSet(k[x]) : x \in got}
  IN  reach[Cardinality(DOMAIN k)]

\* Trees that may become children of p: whole, different, and not around p.
Movable(k, p, ns) ==
  /\ IsInjective(ns)
  /\ \A c \in ToSet(ns) : /\ c \in DOMAIN k \ {Doc} /\ Parents(k, c) = {}
                          /\ p \notin Below(k, c)

Without(s, n) == IF n \in ToSet(s) THEN RemoveAt(s, CHOOSE k \in DOMAIN s : s[k] = n) ELSE s

Init == /\ nodes = {Doc} /\ used = {Doc}
        /\ leaves = {}
        /\ kids = [n \in {Doc} |-> <<>>]

\* The nodes in gone disappear; k has the children of those that stay.
Drop(gone, k) == /\ nodes' = nodes \ gone /\ leaves' = leaves \ gone
                 /\ kids' = [x \in nodes \ gone |-> k[x]]
                 /\ UNCHANGED used

\* One new node without a parent, or as the last child of p.
Create == \E n \in used' \ used, text \in SUBSET (used' \ used) :
            /\ used' = used \cup {n} /\ nodes' = nodes \cup {n}
            /\ leaves' = leaves \cup text
            /\ \/ kids' = [x \in nodes' |-> IF x = n THEN <<>> ELSE kids[x]]
               \/ \E p \in nodes \ leaves :
                    kids' = [x \in nodes' |-> IF x = n THEN <<>>
                                              ELSE IF x = p THEN Append(kids[p], n)
                                              ELSE kids[x]]

\* A run of trees goes in among the children of p, in place of one of them or of none: an
\* insertion, a replacement or, when the run is empty, the detaching of a child.
Splice ==
  /\ UNCHANGED <<nodes, leaves, used>>
  /\ \E old \in {kids}, new \in {kids'} : \E p \in nodes \ leaves :
       /\ new = [old EXCEPT ![p] = new[p]]
       /\ \E at \in 0..Len(old[p]), cut \in 0..1 :
            LET rest == at + cut
                ns == SubSeq(new[p], at + 1, rest + Len(new[p]) - Len(old[p]))
            IN  /\ rest <= Len(old[p])
                /\ new[p] = SubSeq(old[p], 1, at) \o ns \o SubSeq(old[p], rest + 1, Len(old[p]))
                /\ Movable(old, p, ns)

\* A node disappears with its subtree.
RemoveNode == \E old \in {kids} : \E n \in nodes \ {Doc} :
                Drop(Below(old, n), [p \in nodes |-> Without(old[p], n)])

\* Everything below a node disappears; one new text may take its place.
Clear == \E old \in {kids} : \E p \in nodes \ leaves :
           LET gone == Below(old, p) \ {p}
           IN  \/ Drop(gone, [old EXCEPT ![p] = <<>>])
               \/ \E n \in used' \ used :
                    /\ used' = used \cup {n} /\ nodes' = (nodes \ gone) \cup {n}
                    /\ leaves' = (leaves \ gone) \cup {n}
                    /\ kids' = [x \in nodes' |-> IF x = n THEN <<>>
                                                 ELSE IF x = p THEN <<n>>
                                                 ELSE old[x]]

\* A copy of a subtree with new names, as a tree of its own.
Copy == \E old \in {kids} : \E n \in {x \in nodes \ {Doc} : used # used'} :
        \E name \in Bijection(Below(old, n), used' \ used) :
          /\ used \subseteq used' /\ nodes' = nodes \cup (used' \ used)
          /\ leaves' = leaves \cup {name[x] : x \in Below(old, n) \cap leaves}
          /\ kids' = [y \in nodes' |->
                        IF y \in nodes THEN old[y]
                        ELSE LET x == CHOOSE z \in Below(old, n) : name[z] = y
                             IN  [j \in DOMAIN old[x] |-> name[old[x][j]]]]

Next == \/ Create \/ Splice \/ RemoveNode \/ Clear \/ Copy

Spec == Init /\ [][Next]_vars
=============================================================================

---------------------------- MODULE MCCollection ----------------------------
(* TLC instances of Collection. *)
EXTENDS Collection, TLC

CONSTANTS x, y

\* Files that read the same size: the listing has only the ids to go by.
SameSize == [c \in Content |-> IF c.ver = "huge" THEN 2 ELSE 1]

\* An older and a newer document, the same that do not decode, and two kinds of unreadable file.
AnyForeign == {[ver |-> "old", val |-> x], [ver |-> "old", val |-> NoValue],
               [ver |-> "newer", val |-> x], [ver |-> "newer", val |-> NoValue],
               [ver |-> "bad", val |-> NoValue],
               [ver |-> "huge", val |-> NoValue]}

CollectionSymmetry == Permutations(Threads)
=============================================================================

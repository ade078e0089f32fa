---------------------------- MODULE ProjectTree ----------------------------
(* The files and folders of a mod project, and the file system steps the    *)
(* layout fix is built from (rimstudio-io rename.rs, the hashing of         *)
(* journal.rs). A path is a sequence of names below the project root; a     *)
(* tree maps every existing path to the content of a file or to Folder; the *)
(* root itself is not in it.                                                *)
(* Names that differ only by letter case, links and volume boundaries are   *)
(* outside the model.                                                       *)
EXTENDS Naturals, FiniteSets, SequencesExt, TLC

Folder == "folder"

\* writer.rs `check_relative`: a relative path inside the project.
Path == Seq(STRING) \ {<<>>}

Parent(path) == Front(path)

\* The folders on the way to a path.
Ancestors(path) == {SubSeq(path, 1, k) : k \in 1..Len(path) - 1}

\* What a tree on disk is: everything lies in folders.
InFolders(tree, path) == \A a \in Ancestors(path) : a \in DOMAIN tree /\ tree[a] = Folder
Closed(tree) == DOMAIN tree \subseteq Path /\ \A p \in DOMAIN tree : InFolders(tree, p)

Files(tree) == {p \in DOMAIN tree : tree[p] # Folder}

\* undo.rs `rebase`: the place of `path` after folder `from` became `to`.
Rebase(path, from, to) ==
    IF IsPrefix(from, path) THEN to \o SubSeq(path, Len(from) + 1, Len(path)) ELSE path

\* journal.rs `hash_tree`: the manifest of what lies at `path`, by relative path. Two hashes are
\* equal exactly when the manifests are.
HashTree(tree, path) ==
    LET Inside == {SubSeq(p, Len(path) + 1, Len(p)) : p \in {q \in DOMAIN tree : IsPrefix(path, q)}}
    IN  [rel \in Inside |-> tree[path \o rel]]

\* `create_dir_all`: the missing folders among `paths` appear; a file in the way refuses it.
CanMake(tree, paths) == \A p \in paths \cap DOMAIN tree : tree[p] = Folder
WithFolders(tree, paths) ==
    [p \in DOMAIN tree \cup paths |-> IF p \in DOMAIN tree THEN tree[p] ELSE Folder]

\* `hard_link` and `remove_file`: the two halves of the move of a file.
WithFile(tree, path, content) ==
    [p \in DOMAIN tree \cup {path} |-> IF p \in DOMAIN tree THEN tree[p] ELSE content]
Linked(tree, from, to) == WithFile(tree, to, tree[from])
Unlinked(tree, path) == [p \in DOMAIN tree \ {path} |-> tree[p]]
TakenBack(tree, path) == IF path \in Files(tree) THEN Unlinked(tree, path) ELSE tree

\* `rename` of a folder: everything below it travels along.
Renamed(tree, from, to) ==
    [p \in {Rebase(q, from, to) : q \in DOMAIN tree} |->
        IF IsPrefix(to, p) THEN tree[Rebase(p, to, from)] ELSE tree[p]]

\* fix_apply.rs `missing_top`: the topmost folder a move to `path` creates, as a set of at most one.
MissingTop(tree, path) ==
    {p \in Ancestors(path) \ DOMAIN tree : Ancestors(p) \subseteq DOMAIN tree}

\* undo.rs `remove_chain`: `start` and the folders above it go as long as they hold nothing else, `top`
\* being the last.
WithoutChain(tree, start, top) ==
    LET Chain == {p \in DOMAIN tree : IsPrefix(p, start) /\ tree[p] = Folder}
        Gone == {p \in Chain : /\ start \in DOMAIN tree
                               /\ \A q \in DOMAIN tree : IsPrefix(p, q) /\ q # p => q \in Chain /\ q # top}
    IN  [p \in DOMAIN tree \ Gone |-> tree[p]]
=============================================================================

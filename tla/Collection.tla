----------------------------- MODULE Collection -----------------------------
(***************************************************************************)
(* A document collection (crates/rimstudio-io/src/collection.rs): a folder *)
(* with one file per id, a quarantine for unreadable files and an index    *)
(* with a row per document, in memory and in a file.  Several threads of   *)
(* one process share the collection.  put, delete, the listing and the     *)
(* moves into the quarantine hold the write lock; the first read of a get  *)
(* and the reads of a scan do not.                                         *)
(*                                                                         *)
(* Each read of a file, each rename, each removal, each document write and *)
(* each change of the index is a step; what a thread read is carried in    *)
(* its program counter.  A document write is one step: AtomicWrite models  *)
(* what is below it.  The write lock is held exactly while some thread's   *)
(* pc is in Locked.  A call that only reads and returns changes nothing    *)
(* and has no action.                                                      *)
(*                                                                         *)
(* The design assumes one writing process, so another program changes a    *)
(* file only while the lock is free, also between two steps of a thread    *)
(* that does not hold it.  Abstracted: values, summaries (the value), the  *)
(* names in the quarantine, backups, verified writes, id syntax, errors of *)
(* reads.                                                                  *)
(***************************************************************************)
EXTENDS Naturals, FiniteSets, Functions

CONSTANTS Ids,         \* document ids
          Threads,     \* threads that use the collection
          Values,      \* decoded values
          NoValue,     \* the value of a document that does not decode
          Size,        \* the size of a file, by its content
          Foreign,     \* contents another program may leave in a document file
          EagerLimit,  \* INDEX_EAGER_LIMIT
          MaxCalls,    \* bound: calls that change something
          MaxUpsets    \* bound: failed steps, crashes and changes by another program

\* What a file holds: a document of this version, an older or a newer one, each with a value that
\* decodes or not; no valid envelope; or more than MAX_DOCUMENT_BYTES.
Content == [ver : {"now", "old", "newer", "bad", "huge"}, val : Values \cup {NoValue}]
Doc(v) == [ver |-> "now", val |-> v]

ASSUME CollectionAssumption ==
    /\ Ids # {} /\ NoValue \notin Values
    /\ Size \in [Content -> Nat]
    /\ Foreign \subseteq Content
    /\ EagerLimit \in Nat

VARIABLES
    file,        \* [Ids -> sets of at most one content]
    quarantine,  \* [Ids -> the contents moved to the quarantine]
    imem,        \* the index in memory: {} when not loaded, or one map
    ifile,       \* the index file: {} when missing, or one map
    dirty,       \* index_dirty
    pc, id, val, \* of a thread: program point, document, value it will write
    todo, map,   \* the rebuild: ids still to be read, rows so far
    calls, upsets,  \* what the bounds count
    unread,      \* files without an envelope nobody has deleted or replaced: <<id, content>>
    stale        \* ids whose row in the index file is wrong since a crash or another program

index == <<imem, ifile, dirty>>
thread == <<pc, id, val, todo, map>>
budget == <<calls, upsets>>
ghost == <<unread, stale>>
vars == <<file, quarantine, index, thread, budget, ghost>>

Locked == {"quarantine", "replace", "write", "migrate", "index", "drop", "unindex",
           "relist", "rebuild"}
Free == \A t \in Threads : pc[t] \notin Locked
-----------------------------------------------------------------------------
\* split_envelope refuses the file, or it is too large to be read.
NoEnvelope(c) == c.ver \in {"bad", "huge"}

\* read_doc: what is a fault of the document, and what decodes. A newer document that does not decode
\* is neither.
Corrupt(c) == NoEnvelope(c) \/ (c.ver \in {"now", "old"} /\ c.val \notin Values)
Decodes(c) == c.ver \in {"now", "old", "newer"} /\ c.val \in Values

\* The row read_doc and the summarizer give; a migrated document counts as current.
Row(c) == [v |-> IF c.ver = "newer" THEN "newer" ELSE "now", sum |-> c.val, size |-> Size[c]]

\* dir_state compared with a map: the same ids with the same sizes.
Consistent(m) ==
    /\ DOMAIN m = {i \in Ids : file[i] # {}}
    /\ \A i \in DOMAIN m : \A c \in file[i] : m[i].size = Size[c]

\* Rows of the index file that do not describe their document.
Behind == {i \in Ids : \E m \in ifile : i \in DOMAIN m /\ \A c \in file[i] : m[i] # Row(c)}

Init ==
    /\ file \in [Ids -> {{}} \cup {{c} : c \in Foreign \cup {Doc(v) : v \in Values}}]
    /\ quarantine = [i \in Ids |-> {}]
    /\ imem = {} /\ dirty = FALSE
    /\ \/ ifile = {}
       \/ ifile = {[i \in {j \in Ids : \E c \in file[j] : Decodes(c)} |->
                        Row(CHOOSE c \in file[i] : TRUE)]}
    /\ pc = [t \in Threads |-> "idle"]
    /\ id = [t \in Threads |-> CHOOSE i \in Ids : TRUE]
    /\ val = [t \in Threads |-> NoValue]
    /\ todo = [t \in Threads |-> {}] /\ map = [t \in Threads |-> <<>>]
    /\ calls = 0 /\ upsets = 0
    /\ unread = {u \in Ids \X Foreign : u[2] \in file[u[1]] /\ NoEnvelope(u[2])}
    /\ stale = {}

Goto(t, p) == pc' = [pc EXCEPT ![t] = p]
Call == calls < MaxCalls /\ calls' = calls + 1
Upset == upsets < MaxUpsets /\ upsets' = upsets + 1
Begin(t, i) == pc[t] = "idle" /\ Call /\ id' = [id EXCEPT ![t] = i]
Same == UNCHANGED <<file, quarantine, index, todo, map, ghost>>
-----------------------------------------------------------------------------
(* get *)

\* The first read, without the lock: a corrupt or an older document needs more.
Get(t, i) ==
    /\ Begin(t, i)
    /\ \E c \in file[i] :
         \/ Corrupt(c) /\ Goto(t, "recheck") /\ UNCHANGED val
         \/ /\ c.ver = "old" /\ c.val \in Values
            /\ Goto(t, "writeback") /\ val' = [val EXCEPT ![t] = c.val]
    /\ Same /\ UNCHANGED upsets

\* Mutant of Recheck: the first read is trusted.
RecheckNot(t) ==
    /\ pc[t] = "recheck" /\ Free
    /\ Goto(t, "quarantine")
    /\ Same /\ UNCHANGED <<id, val, budget>>

\* The second read, under the lock.
Recheck(t) ==
    /\ pc[t] = "recheck" /\ Free
    /\ \/ /\ \E c \in file[id[t]] : Corrupt(c)
          /\ Goto(t, "quarantine") /\ UNCHANGED val
       \/ \E c \in file[id[t]] :
             /\ c.ver = "old" /\ c.val \in Values
             /\ Goto(t, "writeback") /\ val' = [val EXCEPT ![t] = c.val]
       \/ /\ \A c \in file[id[t]] : ~Corrupt(c) /\ c.ver # "old"
          /\ Goto(t, "idle") /\ UNCHANGED val
    /\ Same /\ UNCHANGED <<id, budget>>

\* quarantine_move: the row goes from the index in memory, then the file is renamed.
Forget(i) == imem' = {Restrict(m, DOMAIN m \ {i}) : m \in imem}
MoveAside(i) ==
    /\ file[i] # {}
    /\ quarantine' = [quarantine EXCEPT ![i] = @ \cup file[i]]
    /\ file' = [file EXCEPT ![i] = {}]
    /\ Forget(i)
    /\ UNCHANGED upsets
CannotMove(i) ==
    /\ (file[i] = {} /\ UNCHANGED upsets) \/ Upset
    /\ Forget(i)
    /\ UNCHANGED <<file, quarantine>>

Quarantine(t) ==
    /\ pc[t] = "quarantine"
    /\ MoveAside(id[t]) \/ CannotMove(id[t])
    /\ Goto(t, "idle")
    /\ UNCHANGED <<ifile, dirty, id, val, todo, map, calls, ghost>>

\* Mutant of WriteBack: the file is not read again.
WriteBackAnyway(t) ==
    /\ pc[t] = "writeback" /\ Free
    /\ Goto(t, "migrate")
    /\ Same /\ UNCHANGED <<id, val, budget>>

\* put_locked with only_if_older: it gives up on a current, newer or unreadable file. A file that is
\* gone is no reason to give up.
WriteBack(t) ==
    /\ pc[t] = "writeback" /\ Free
    /\ IF \A c \in file[id[t]] : c.ver = "old" THEN Goto(t, "migrate") ELSE Goto(t, "idle")
    /\ Same /\ UNCHANGED <<id, val, budget>>
-----------------------------------------------------------------------------
(* put *)

\* Mutant of Put: the version of the existing document is not looked at.
PutAnyVersion(t, i, v) ==
    /\ Free /\ Begin(t, i) /\ val' = [val EXCEPT ![t] = v]
    /\ IF \E c \in file[i] : NoEnvelope(c) THEN Goto(t, "replace") ELSE Goto(t, "write")
    /\ Same /\ UNCHANGED upsets

\* A newer document is refused; a file without an envelope is moved aside first.
Put(t, i, v) ==
    /\ Free /\ Begin(t, i) /\ val' = [val EXCEPT ![t] = v]
    /\ \A c \in file[i] : c.ver # "newer"
    /\ IF \E c \in file[i] : NoEnvelope(c) THEN Goto(t, "replace") ELSE Goto(t, "write")
    /\ Same /\ UNCHANGED upsets

\* Mutant of Replace: the put goes on when the quarantine did not take the file.
ReplaceAnyway(t) ==
    /\ pc[t] = "replace"
    /\ MoveAside(id[t]) \/ CannotMove(id[t])
    /\ Goto(t, "write")
    /\ UNCHANGED <<ifile, dirty, id, val, todo, map, calls, ghost>>

\* quarantine_before_replace: no replacement of bytes that could not be kept.
Replace(t) ==
    /\ pc[t] = "replace"
    /\ \/ MoveAside(id[t]) /\ Goto(t, "write")
       \/ CannotMove(id[t]) /\ Goto(t, "idle")
    /\ UNCHANGED <<ifile, dirty, id, val, todo, map, calls, ghost>>

Write(t) ==
    /\ pc[t] \in {"write", "migrate"}
    /\ \/ /\ file' = [file EXCEPT ![id[t]] = {Doc(val[t])}]
          /\ Goto(t, "index") /\ UNCHANGED upsets
       \/ Upset /\ Goto(t, "idle") /\ UNCHANGED file
    /\ UNCHANGED <<quarantine, index, id, val, todo, map, calls, unread, stale>>

\* index_change: only an index that is loaded or on disk is touched, and its file is written at once
\* up to the limit.
Loaded == IF imem # {} THEN imem ELSE ifile
IndexChange(changed) ==
    LET eager == \A m \in changed : Cardinality(DOMAIN m) <= EagerLimit
    IN  \/ /\ changed = {} /\ UNCHANGED <<index, upsets>>
        \/ /\ changed # {} /\ ~eager
           /\ imem' = changed /\ dirty' = TRUE /\ UNCHANGED <<ifile, upsets>>
        \/ /\ changed # {} /\ eager
           /\ imem' = changed /\ ifile' = changed /\ dirty' = FALSE /\ UNCHANGED upsets
        \/ /\ changed # {} /\ eager
           /\ Upset /\ imem' = {} /\ UNCHANGED <<ifile, dirty>>

\* What a failed write of the index file leaves behind, its next reader may believe.
NoteStale == stale' = IF upsets' > upsets THEN stale \cup Behind ELSE stale

WithRow(m, i, c) == [j \in DOMAIN m \cup {i} |-> IF j = i THEN Row(c) ELSE m[j]]
WithoutRow(m, i) == Restrict(m, DOMAIN m \ {i})

\* Mutant of IndexPut: a row that is there stays.
IndexPutNew(t) ==
    /\ pc[t] = "index"
    /\ IndexChange({[j \in DOMAIN m \cup {id[t]} |->
                        IF j \in DOMAIN m THEN m[j] ELSE Row(Doc(val[t]))] : m \in Loaded})
    /\ NoteStale /\ Goto(t, "idle")
    /\ UNCHANGED <<file, quarantine, id, val, todo, map, calls, unread>>

IndexPut(t) ==
    /\ pc[t] = "index"
    /\ IndexChange({WithRow(m, id[t], Doc(val[t])) : m \in Loaded})
    /\ NoteStale /\ Goto(t, "idle")
    /\ UNCHANGED <<file, quarantine, id, val, todo, map, calls, unread>>
-----------------------------------------------------------------------------
(* delete *)

\* A newer document is refused; a file too large to read goes to the quarantine.
Delete(t, i) ==
    /\ Free /\ Begin(t, i)
    /\ \E c \in file[i] :
         \/ c.ver = "huge" /\ Goto(t, "drop") /\ UNCHANGED <<file, unread>>
         \/ /\ c.ver \in {"now", "old", "bad"}
            /\ file' = [file EXCEPT ![i] = {}]
            /\ unread' = unread \ {<<i, c>>}
            /\ Goto(t, "unindex")
    /\ UNCHANGED <<quarantine, index, val, todo, map, upsets, stale>>

Drop(t) ==
    /\ pc[t] = "drop"
    /\ \/ /\ MoveAside(id[t]) /\ Goto(t, "unindex")
       \/ /\ CannotMove(id[t]) /\ Goto(t, "idle")
    /\ UNCHANGED <<ifile, dirty, id, val, todo, map, calls, unread, stale>>

Unindex(t) ==
    /\ pc[t] = "unindex"
    /\ IndexChange({WithoutRow(m, id[t]) : m \in Loaded})
    /\ NoteStale /\ Goto(t, "idle")
    /\ UNCHANGED <<file, quarantine, id, val, todo, map, calls, unread>>
-----------------------------------------------------------------------------
(* scan: one document of the iteration, read without the lock *)

Scan(t, i) ==
    /\ Begin(t, i)
    /\ \E c \in file[i] : Corrupt(c)
    /\ Goto(t, "misread")
    /\ Same /\ UNCHANGED <<val, upsets>>

\* The lock is taken and the file moved on the word of the earlier read.
ScanAside(t) ==
    /\ pc[t] = "misread" /\ Free
    /\ MoveAside(id[t]) \/ CannotMove(id[t])
    /\ Goto(t, "idle")
    /\ UNCHANGED <<ifile, dirty, id, val, todo, map, calls, ghost>>
-----------------------------------------------------------------------------
(* list_summaries and rebuild_index *)

Relist(t, p) ==
    /\ Goto(t, p)
    /\ todo' = [todo EXCEPT ![t] = {i \in Ids : file[i] # {}}]
    /\ map' = [map EXCEPT ![t] = <<>>]

\* A consistent index is served, and its file written when it is dirty; any other is rebuilt.
List(t) ==
    /\ Free /\ pc[t] = "idle" /\ Call
    /\ LET loaded == IF imem # {} THEN imem ELSE ifile
       IN  /\ imem' = loaded
           /\ \/ /\ \E m \in loaded : Consistent(m)
                 /\ \/ ~dirty /\ UNCHANGED <<ifile, dirty, upsets>>
                    \/ dirty /\ dirty' = FALSE /\ ifile' = loaded /\ UNCHANGED upsets
                    \/ dirty /\ Upset /\ UNCHANGED <<ifile, dirty>>
                 /\ UNCHANGED <<pc, todo, map>>
              \/ /\ \A m \in loaded : ~Consistent(m)
                 /\ Relist(t, "relist") /\ UNCHANGED <<ifile, dirty, upsets>>
    /\ UNCHANGED <<file, quarantine, id, val, ghost>>

RebuildIndex(t) ==
    /\ Free /\ pc[t] = "idle" /\ Call
    /\ Relist(t, "rebuild")
    /\ UNCHANGED <<file, quarantine, index, id, val, upsets, ghost>>

\* rebuild_locked, one document: rows for what decodes, the quarantine for what is corrupt.
RebuildOne(t) ==
    /\ pc[t] \in {"relist", "rebuild"} /\ todo[t] # {}
    /\ LET i == CHOOSE j \in todo[t] : TRUE
       IN  /\ todo' = [todo EXCEPT ![t] = @ \ {i}]
           /\ \/ /\ \E c \in file[i] : Corrupt(c)
                 /\ MoveAside(i) \/ CannotMove(i)
                 /\ UNCHANGED map
              \/ /\ \A c \in file[i] : ~Corrupt(c)
                 /\ map' = [map EXCEPT ![t] =
                        IF \E c \in file[i] : Decodes(c)
                        THEN WithRow(@, i, CHOOSE c \in file[i] : TRUE) ELSE @]
                 /\ UNCHANGED <<file, quarantine, imem, upsets>>
    /\ UNCHANGED <<ifile, dirty, pc, id, val, calls, ghost>>

\* The listing keeps the new index in memory whether or not its file could be written; rebuild_index
\* gives up.
RebuildStore(t) ==
    /\ pc[t] \in {"relist", "rebuild"} /\ todo[t] = {}
    /\ \/ /\ ifile' = {map[t]} /\ imem' = {map[t]} /\ stale' = {}
          /\ dirty' = IF pc[t] = "rebuild" THEN FALSE ELSE dirty
          /\ UNCHANGED upsets
       \/ /\ Upset /\ UNCHANGED <<ifile, dirty>>
          /\ IF pc[t] = "relist" THEN imem' = {map[t]} /\ stale' = {} ELSE UNCHANGED <<imem, stale>>
    /\ Goto(t, "idle")
    /\ UNCHANGED <<file, quarantine, id, val, todo, map, calls, unread>>
-----------------------------------------------------------------------------
\* The process dies and is started again: the threads and the index in memory are gone.
Crash ==
    /\ Upset
    /\ pc' = [t \in Threads |-> "idle"]
    /\ imem' = {} /\ dirty' = FALSE
    /\ stale' = stale \cup Behind
    /\ UNCHANGED <<file, quarantine, ifile, id, val, todo, map, calls, unread>>

\* Another program leaves or removes a file while the process does not write.
ForeignChange ==
    /\ Upset
    /\ Free
    /\ \E i \in Ids : \E new \in {{}} \cup {{c} : c \in Foreign} :
         /\ new # file[i] /\ file' = [file EXCEPT ![i] = new]
         /\ unread' = {u \in unread : u[1] # i \/ u[2] \notin file[i]}
                        \cup {<<i, c>> : c \in {d \in new : NoEnvelope(d)}}
         /\ stale' = stale \cup {i}
    /\ UNCHANGED <<quarantine, index, thread, calls>>

Next ==
    \/ \E t \in Threads :
         \/ \E i \in Ids : Get(t, i) \/ Delete(t, i) \/ Scan(t, i)
                             \/ \E v \in Values : Put(t, i, v)
         \/ Recheck(t) \/ Quarantine(t) \/ WriteBack(t) \/ Replace(t) \/ Write(t) \/ IndexPut(t)
         \/ Drop(t) \/ Unindex(t) \/ ScanAside(t)
         \/ List(t) \/ RebuildIndex(t) \/ RebuildOne(t) \/ RebuildStore(t)
    \/ Crash \/ ForeignChange

Spec == Init /\ [][Next]_vars
-----------------------------------------------------------------------------
(* Properties. *)

\* A document a newer app wrote is never rewritten or deleted by any call, and moved by none but a
\* scan, whatever the threads read before it appeared.
NewerKept ==
    [][\A i \in Ids : \A c \in file[i] :
        (c.ver = "newer" /\ thread' # thread /\ c \notin file'[i])
            => \E t \in Threads : pc[t] = "misread" /\ id[t] = i]_vars

\* Bytes without a valid envelope are somewhere until a person deletes them: still in place or in
\* the quarantine, whatever put, get, scan or rebuild did about them and whichever step failed.
UnreadableKept == \A u \in unread : u[2] \in file[u[1]] \cup quarantine[u[1]]

\* The write back of a get, which carries a value it read without the lock, never replaces a
\* document of the current version.
MigrationKeepsCurrent ==
    [][\A t \in Threads : \A c \in file[id[t]] :
        (pc[t] = "migrate" /\ pc'[t] = "index") => c.ver = "old"]_vars

\* An index that would be served as it is describes every document it names, except the ones that
\* were changed by another program or between whose write and row the process died or failed.
ListingMatches ==
    Free => \A m \in IF imem # {} THEN imem ELSE ifile :
                Consistent(m) => \A i \in DOMAIN m \ stale : \A c \in file[i] : m[i] = Row(c)

\* A get, a put, a delete and a rebuild put nothing but unreadable files into the quarantine.
OnlyScanMisjudges ==
    [][\A i \in Ids : \A c \in quarantine'[i] \ quarantine[i] :
        Corrupt(c) \/ \E t \in Threads : pc[t] = "misread" /\ id[t] = i]_vars

\* collection.rs: "A document that is not valid JSON, has the wrong kind or envelope, or fails its
\* migration or decoding is moved to `.quarantine/`": no other is.
QuarantineHoldsUnreadable == \A i \in Ids : \A c \in quarantine[i] : Corrupt(c)

=============================================================================

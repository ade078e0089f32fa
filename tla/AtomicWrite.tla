---------------------------- MODULE AtomicWrite -----------------------------
(***************************************************************************)
(* The replacement of one file and the repair of its leftovers             *)
(* (atomic_write_with and cleanup_stale_temps in                           *)
(* crates/rimstudio-io/src/atomic.rs), as a collection uses them: it opens *)
(* the folder, which cleans up, and then writes and deletes under its      *)
(* lock.  The process may die between any two steps; the machine may lose  *)
(* power, which tears files that were not synced and undoes changes of the *)
(* folder since it was last synced; any file system call may fail.         *)
(*                                                                         *)
(* A write is its number; a file holds the bytes of one write, completely  *)
(* or torn.  The folder maps names to writes.  Modification times order    *)
(* like write numbers, so what is old enough for the cleanup is a prefix   *)
(* of them.  Not modelled: bulk writes without fsync, which promise        *)
(* nothing after a power loss, and the creation of the folder.             *)
(***************************************************************************)
EXTENDS Integers, FiniteSets, Functions

CONSTANTS MaxWrites, MaxFaults, MaxCrashes   \* bounds

ASSUME AtomicAssumption == MaxWrites \in Nat /\ MaxFaults \in Nat /\ MaxCrashes \in Nat

Writes == 0..MaxWrites
None == -1
Target == <<"doc", 0>>
Temp(n) == <<"tmp", n>>
Aside(n) == <<"old", n>>

VARIABLES
    dir,      \* the folder: names to writes
    disk,     \* the folders a power loss may leave: those since the last sync of the folder
    torn,     \* writes whose file is incomplete
    synced,   \* writes whose bytes are on stable storage
    step, w,  \* where the process is, and the number of the last write begun
    entries,  \* the cleanup: entries still to be looked at
    faults, crashes,   \* what the bounds count
    rolled,   \* writes whose file a cleanup has put at the target
    last      \* the last write confirmed with a synced folder, None after a delete

fileVars == <<dir, disk, torn, synced, step, w, entries, faults, crashes, rolled, last>>
-----------------------------------------------------------------------------
Without(f, n) == Restrict(f, DOMAIN f \ {n})
Written(f, name, v) == [n \in DOMAIN f \cup {name} |-> IF n = name THEN v ELSE f[n]]
Moved(f, from, to) == Written(Without(f, from), to, f[from])
Held(f) == {f[n] : n \in DOMAIN f \cap {Target}}

FileInit ==
    /\ \E names \in SUBSET {Target} : dir = [n \in names |-> 0]
    /\ disk = {dir} /\ torn = {} /\ synced = {0}
    /\ step = "down" /\ w = 0 /\ entries = {}
    /\ faults = 0 /\ crashes = 0 /\ rolled = {}
    /\ last = IF Target \in DOMAIN dir THEN 0 ELSE None

Folder(f) == dir' = f /\ disk' = disk \cup {f}
Fault == faults < MaxFaults /\ faults' = faults + 1
At(p, q) == step = p /\ step' = q
Quiet == UNCHANGED <<w, entries, crashes, rolled, last>>
-----------------------------------------------------------------------------
(* atomic_write_with *)

BeginWrite ==
    /\ At("idle", "create") /\ w < MaxWrites
    /\ w' = w + 1
    /\ UNCHANGED <<dir, disk, torn, synced, entries, faults, crashes, rolled, last>>

\* write_temp: the file exists before its bytes do.
CreateTemp ==
    /\ At("create", "fill")
    /\ Folder(Written(dir, Temp(w), w)) /\ torn' = torn \cup {w}
    /\ UNCHANGED <<synced, faults>> /\ Quiet

FillTemp ==
    /\ step = "fill"
    /\ \/ step' = "sync" /\ torn' = torn \ {w} /\ UNCHANGED faults
       \/ step' = "drop" /\ Fault /\ UNCHANGED torn
    /\ UNCHANGED <<dir, disk, synced>> /\ Quiet

\* Mutant of SyncTemp: the bytes are not flushed.
SyncNothing ==
    /\ At("sync", "rename")
    /\ UNCHANGED <<dir, disk, torn, synced, faults>> /\ Quiet

SyncTemp ==
    /\ step = "sync"
    /\ \/ step' = "rename" /\ synced' = synced \cup {w} /\ UNCHANGED faults
       \/ step' = "drop" /\ Fault /\ UNCHANGED synced
    /\ UNCHANGED <<dir, disk, torn>> /\ Quiet

RenameTemp ==
    /\ step = "rename"
    /\ \/ step' = "syncdir" /\ Folder(Moved(dir, Temp(w), Target)) /\ UNCHANGED faults
       \/ step' = "aside" /\ Fault /\ UNCHANGED <<dir, disk>>
    /\ UNCHANGED <<torn, synced>> /\ Quiet

\* rename_via_aside: the old file moves away, the new one in, and the old one is removed, or comes
\* back when the new one could not move in.
MoveOut ==
    /\ step = "aside"
    /\ \/ /\ step' = "movein" /\ Target \in DOMAIN dir
          /\ Folder(Moved(dir, Target, Aside(w))) /\ UNCHANGED faults
       \/ /\ step' = "drop" /\ UNCHANGED <<dir, disk>>
          /\ (Target \notin DOMAIN dir /\ UNCHANGED faults) \/ Fault
    /\ UNCHANGED <<torn, synced>> /\ Quiet

\* Mutant of MoveIn: the old file is given up before the new one is in.
MoveInFirst ==
    /\ step = "movein"
    /\ \/ /\ step' = "removeold" /\ Folder(Moved(dir, Temp(w), Target)) /\ UNCHANGED faults
       \/ step' = "drop" /\ Fault /\ Folder(Without(dir, Aside(w)))
    /\ UNCHANGED <<torn, synced>> /\ Quiet

MoveIn ==
    /\ step = "movein"
    /\ \/ step' = "removeold" /\ Folder(Moved(dir, Temp(w), Target)) /\ UNCHANGED faults
       \/ step' = "restore" /\ Fault /\ UNCHANGED <<dir, disk>>
    /\ UNCHANGED <<torn, synced>> /\ Quiet

RemoveOld ==
    /\ At("removeold", "syncdir")
    /\ \/ Folder(Without(dir, Aside(w))) /\ UNCHANGED faults
       \/ Fault /\ UNCHANGED <<dir, disk>>
    /\ UNCHANGED <<torn, synced>> /\ Quiet

Restore ==
    /\ At("restore", "drop")
    /\ \/ Folder(Moved(dir, Aside(w), Target)) /\ UNCHANGED faults
       \/ Fault /\ UNCHANGED <<dir, disk>>
    /\ UNCHANGED <<torn, synced>> /\ Quiet

\* The write failed; its temporary file is removed if that works.
DropTemp ==
    /\ At("drop", "idle")
    /\ \/ Folder(Without(dir, Temp(w))) /\ UNCHANGED faults
       \/ Fault /\ UNCHANGED <<dir, disk>>
    /\ UNCHANGED <<torn, synced>> /\ Quiet

\* A folder that cannot be synced is no failure of the write.
SyncDir ==
    /\ At("syncdir", "idle")
    /\ \/ disk' = {dir} /\ last' = w /\ UNCHANGED faults
       \/ Fault /\ UNCHANGED <<disk, last>>
    /\ UNCHANGED <<dir, torn, synced, w, entries, crashes, rolled>>

\* The document is deleted (Collection::delete).
DeleteFile ==
    /\ At("idle", "idle") /\ Target \in DOMAIN dir
    /\ Folder(Without(dir, Target)) /\ last' = None
    /\ UNCHANGED <<torn, synced, w, entries, faults, crashes, rolled>>
-----------------------------------------------------------------------------
(* cleanup_stale_temps, when the folder is opened *)

\* The files of writes up to some number are older than min_age.
Open ==
    /\ At("down", "clean")
    /\ \E oldest \in None..w : entries' = {n \in DOMAIN dir \ {Target} : dir[n] <= oldest}
    /\ UNCHANGED <<dir, disk, torn, synced, w, faults, crashes, rolled, last>>

\* The target is missing: the temporary file becomes the target and the aside file goes; an aside
\* file moves back only when its temporary file is gone.
Repaired(n) ==
    IF n = Temp(n[2]) THEN Without(Moved(dir, n, Target), Aside(n[2]))
    ELSE IF Temp(n[2]) \in DOMAIN dir THEN dir ELSE Moved(dir, n, Target)

\* Mutant of CleanOne: a leftover is rolled forward over a target that exists.
CleanOver ==
    /\ step = "clean"
    /\ \E n \in entries :
         /\ entries' = entries \ {n}
         /\ n \in DOMAIN dir /\ Folder(Repaired(n)) /\ UNCHANGED faults
    /\ rolled' = rolled \cup (Held(dir') \ Held(dir))
    /\ UNCHANGED <<torn, synced, step, w, crashes, last>>

\* One entry; a target that exists makes it a leftover.
CleanOne ==
    /\ step = "clean"
    /\ \E n \in entries :
         /\ entries' = entries \ {n}
         /\ \/ /\ n \in DOMAIN dir /\ UNCHANGED faults
               /\ Folder(IF Target \in DOMAIN dir THEN Without(dir, n) ELSE Repaired(n))
            \/ n \notin DOMAIN dir /\ UNCHANGED <<dir, disk, faults>>
            \/ Fault /\ UNCHANGED <<dir, disk>>
    /\ rolled' = rolled \cup (Held(dir') \ Held(dir))
    /\ UNCHANGED <<torn, synced, step, w, crashes, last>>

CleanDone ==
    /\ At("clean", "idle") /\ entries = {}
    /\ UNCHANGED <<dir, disk, torn, synced, w, entries, faults, crashes, rolled, last>>
-----------------------------------------------------------------------------
Die == /\ step # "down" /\ step' = "down" /\ entries' = {}
       /\ crashes < MaxCrashes /\ crashes' = crashes + 1
       /\ UNCHANGED <<w, faults, rolled, last>>

\* The process dies; what it wrote stays in the system's cache.
ProcessDies == Die /\ UNCHANGED <<dir, disk, torn, synced>>

\* The machine dies: bytes that were not synced may be incomplete.
PowerLoss ==
    /\ Die
    /\ dir' \in disk /\ disk' = {dir'}
    /\ \E lost \in SUBSET (0..w \ synced) : torn' = torn \cup lost
    /\ synced' = 0..w

FileNext ==
    \/ BeginWrite \/ CreateTemp \/ FillTemp \/ SyncTemp \/ RenameTemp
    \/ MoveOut \/ MoveIn \/ RemoveOld \/ Restore \/ DropTemp \/ SyncDir \/ DeleteFile
    \/ Open \/ CleanOne \/ CleanDone \/ ProcessDies \/ PowerLoss

FileSpec == FileInit /\ [][FileNext]_fileVars
-----------------------------------------------------------------------------
(* Properties. *)

\* A write that was confirmed stays readable and whole until the next write begins or the document is
\* deleted: no crash, power loss or cleanup takes it back.
ConfirmedKept ==
    (last # None /\ w = last) => Target \in DOMAIN dir /\ dir[Target] = last /\ last \notin torn

\* Torn bytes at the target are never a writer's doing, whatever is lost with the power: they come from
\* a temporary file that a cleanup completed before its own write had synced it.
OnlyCleanupTears == \A v \in Held(dir) \cap torn : v \in rolled

\* The last good copy is lost only to a cleanup, however writes fail and whatever is lost with the
\* power: while no file holds the last confirmed write or a later one completely, the file at the target
\* (an aside file, while the target is missing) is a leftover that a cleanup completed.
CopyKept(f) == last # None => \E n \in DOMAIN f : f[n] >= last /\ f[n] \notin torn
Spoiled(f) ==
    \/ Target \in DOMAIN f /\ f[Target] \in rolled
    \/ Target \notin DOMAIN f /\ \E k \in 1..w : Aside(k) \in DOMAIN f /\ f[Aside(k)] \in rolled
CopyLostOnlyToCleanup == CopyKept(dir) \/ Spoiled(dir)
=============================================================================

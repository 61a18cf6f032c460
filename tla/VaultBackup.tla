----------------------------- MODULE VaultBackup -----------------------------
(***************************************************************************)
(* The offline backup of a vault (crates/osv-vault/src/lib.rs,             *)
(* backup_closed_with and copy_tree): a copy of the tree, entry by entry    *)
(* and in the order the directory happens to list them, under the          *)
(* exclusive lock of the source, while writers come and go.                *)
(*                                                                         *)
(* Every entry of the source carries the version of the library it belongs *)
(* to; a writer that closes cleanly leaves all of them at one version.     *)
(***************************************************************************)
EXTENDS Naturals

CONSTANTS
  MaxVersion,    \* bound: sessions of the writer
  BackupFaults   \* what may fail: "io", "kill", "power"

ASSUME BackupAssumption ==
  /\ MaxVersion \in Nat
  /\ BackupFaults \subseteq {"io", "kill", "power"}

Files == {"header", "lock", "catalog", "object"}  \* the object in a directory "objects"
Entries == Files \cup {"objects"}
CopyNames == Entries \cup {"destination"}  \* every name, that of the destination too
Absent == [content |-> "absent"]
Part == [content |-> "part"]
Whole(v) == [content |-> "whole", version |-> v]

VARIABLES
  source,     \* version of each file of the source
  marker,     \* state marker of the source: "dirty" or "clean"
  writerAt,   \* the writer of the source: "out", "working"
  copyAt,     \* the step of the backup
  left,       \* entries that are still to be copied
  copy,       \* each file of the destination
  secured,    \* names of the destination that a power loss leaves
  copyClean   \* the copied lock file has the clean marker

backupVars == <<source, marker, writerAt, copyAt, left, copy, secured, copyClean>>

BackupInit ==
  /\ source = [f \in Files |-> 0] /\ marker = "clean" /\ writerAt = "out"
  /\ copyAt = "none" /\ left = {} /\ copy = [f \in Entries |-> Absent]
  /\ secured = {} /\ copyClean = FALSE

Present == {e \in Entries : copy[e] # Absent}
SourceHeld == writerAt = "working" \/ copyAt \in {"check", "make", "copy", "syncParent"}

----------------------------------------------------------------------------
\* The writer marks the vault dirty, changes it file by file and closes it.
StartWriter ==
  /\ ~SourceHeld /\ source["catalog"] < MaxVersion
  /\ writerAt' = "working" /\ marker' = "dirty"
  /\ UNCHANGED <<source, copyAt, left, copy, secured, copyClean>>
ChangeFile(f) ==
  /\ writerAt = "working"
  /\ source[f] < MaxVersion /\ \A g \in Files : source[f] <= source[g]
  /\ source' = [source EXCEPT ![f] = @ + 1]
  /\ UNCHANGED <<marker, writerAt, copyAt, left, copy, secured, copyClean>>
CloseWriter ==
  /\ writerAt = "working" /\ \A f, g \in Files : source[f] = source[g]
  /\ writerAt' = "out" /\ marker' = "clean"
  /\ UNCHANGED <<source, copyAt, left, copy, secured, copyClean>>
KillWriter ==
  /\ writerAt = "working" /\ "kill" \in BackupFaults
  /\ writerAt' = "out"
  /\ UNCHANGED <<source, marker, copyAt, left, copy, secured, copyClean>>

----------------------------------------------------------------------------
\* Mutant: the backup opens the lock file and does not lock it.
MayEnter == copyAt = "none"

MayLock == copyAt = "none" /\ ~SourceHeld

LockSource ==
  /\ MayLock
  /\ copyAt' = "check"
  /\ UNCHANGED <<source, marker, writerAt, left, copy, secured, copyClean>>

CheckClean ==
  /\ copyAt = "check"
  /\ copyAt' = IF marker = "clean" THEN "make" ELSE "none"
  /\ UNCHANGED <<source, marker, writerAt, left, copy, secured, copyClean>>

\* The destination must not exist.
MakeDestination ==
  /\ copyAt = "make" /\ Present = {}
  /\ copyAt' = "copy" /\ left' = {"header", "lock", "catalog", "objects"}
  /\ UNCHANGED <<source, marker, writerAt, copy, secured, copyClean>>

KeepSource == UNCHANGED <<source, marker, writerAt>>

\* One file at a time: it is created, and it is whole once its bytes are synced.
CreateEntry(f) ==
  /\ copyAt = "copy" /\ f \in left \cap Files /\ copy[f] = Absent
  /\ \A g \in Entries \ {"objects"} : copy[g] # Part
  /\ copy' = [copy EXCEPT ![f] = Part]
  /\ KeepSource /\ UNCHANGED <<copyAt, left, secured, copyClean>>
CopyBytes(f) ==
  /\ copyAt = "copy" /\ f \in left /\ copy[f] = Part
  /\ copy' = [copy EXCEPT ![f] = Whole(source[f])]
  /\ copyClean' = IF f = "lock" THEN marker = "clean" ELSE copyClean
  /\ left' = left \ {f}
  /\ KeepSource /\ UNCHANGED <<copyAt, secured>>

\* A directory is made, its entries are copied, and then it is synced.
EnterObjects ==
  /\ copyAt = "copy" /\ "objects" \in left /\ copy["objects"] = Absent
  /\ \A g \in Files : copy[g] # Part
  /\ copy' = [copy EXCEPT !["objects"] = Part]
  /\ left' = left \cup {"object"}
  /\ KeepSource /\ UNCHANGED <<copyAt, secured, copyClean>>
LeaveObjects ==
  /\ copyAt = "copy" /\ copy["objects"] = Part /\ "object" \notin left
  /\ copy' = [copy EXCEPT !["objects"] = Whole(0)]
  /\ left' = left \ {"objects"}
  /\ secured' = secured \cup {"object"}
  /\ KeepSource /\ UNCHANGED <<copyAt, copyClean>>

\* While the walk is in the directory it does nothing outside it.
InOrder(f) == copy["objects"] = Part => f = "object"

\* Mutant: the destination is not synced.
SyncNothing == secured' = secured

SyncDestination == secured' = secured \cup (Present \ {"object"})

SyncCopy ==
  /\ copyAt = "copy" /\ left = {}
  /\ SyncDestination
  /\ copyAt' = "syncParent"
  /\ KeepSource /\ UNCHANGED <<left, copy, copyClean>>

\* The parent is synced with the name of the destination; the backup has succeeded.
FinishBackup ==
  /\ copyAt = "syncParent"
  /\ secured' = secured \cup {"destination"}
  /\ copyAt' = "succeeded" /\ KeepSource /\ UNCHANGED <<left, copy, copyClean>>

\* An error, or a kill, leaves the incomplete destination for diagnostics.
FailBackup ==
  /\ copyAt \in {"check", "make", "copy", "syncParent"}
  /\ BackupFaults # {}
  /\ copyAt' = "failed"
  /\ KeepSource /\ UNCHANGED <<left, copy, secured, copyClean>>

Surviving(kept) ==
  [e \in Entries |-> IF e \in kept /\ (e = "object" => "objects" \in kept)
                     THEN copy[e] ELSE Absent]

\* Without the destination's name all of it is lost.
BackupPowerLoss ==
  /\ "power" \in BackupFaults
  /\ \E kept \in SUBSET Present :
       /\ \/ secured \cap Entries \subseteq kept
          \/ "destination" \notin secured /\ kept = {}
       /\ copy' = Surviving(kept)
  /\ writerAt' = "out"
  /\ copyAt' = IF copyAt \in {"none", "succeeded"} THEN copyAt ELSE "failed"
  /\ UNCHANGED <<source, marker, left, secured, copyClean>>

BackupNext ==
  \/ StartWriter \/ CloseWriter \/ KillWriter \/ \E f \in Files : ChangeFile(f)
  \/ LockSource \/ CheckClean \/ MakeDestination
  \/ \E f \in Files : InOrder(f) /\ (CreateEntry(f) \/ CopyBytes(f))
  \/ EnterObjects \/ LeaveObjects \/ SyncCopy \/ FinishBackup
  \/ FailBackup \/ BackupPowerLoss

----------------------------------------------------------------------------
BackupTypeOK ==
  /\ source \in [Files -> 0..MaxVersion]
  /\ marker \in {"clean", "dirty"} /\ writerAt \in {"out", "working"}
  /\ copyAt \in {"none", "check", "make", "copy", "syncParent", "succeeded", "failed"}
  /\ left \subseteq Entries /\ secured \subseteq CopyNames /\ copyClean \in BOOLEAN
  /\ copy \in [Entries -> {Absent, Part} \cup {Whole(v) : v \in 0..MaxVersion}]

\* A backup that returned success is a clean vault of one moment and survives a power
\* loss, whatever writers did before, after or while it waited (the exclusive lock, the
\* marker check, and the syncs of files, directories and parent).
BackupIsWhole ==
  copyAt = "succeeded" =>
    /\ copyClean
    /\ secured = CopyNames
    /\ \E v \in 0..MaxVersion : \A f \in Files : copy[f] = Whole(v)

\* The name of the test closed_backup_restores_and_partial_backup_fails_closed says it of
\* an interrupted copy: it does not open as a vault.
PartialBackupFailsClosed ==
  copyAt = "failed" =>
    ~ (/\ copyClean
       /\ \A f \in {"header", "lock", "catalog"} : copy[f].content = "whole"
       /\ copy["object"] = Absent)

----------------------------------------------------------------------------
\* The inductive invariant.

\* While the source is not marked dirty no writer is in, and its files are of one version.
CleanSource ==
  marker = "clean" => writerAt = "out" /\ \A f, g \in Files : source[f] = source[g]

\* The backup copies a clean source, and begins with nothing.
CopiesClean ==
  /\ copyAt \in {"make", "copy", "syncParent"} => marker = "clean"
  /\ copyAt = "check" => writerAt = "out"
  /\ copyAt \in {"none", "check", "make"} =>
       copy = [f \in Entries |-> Absent] /\ secured = {}

\* What is no longer to be copied is there, as the source is.
CopiedSoFar ==
  copyAt = "copy" =>
    /\ \A f \in Files \ {"object"} : f \in left \/ copy[f] = Whole(source[f])
    /\ "lock" \in left \/ copyClean
    /\ copy["objects"] = Absent => "objects" \in left
    /\ copy["objects"] # Absent /\ "object" \notin left => copy["object"] = Whole(source["object"])
    /\ "objects" \notin left =>
         copy["objects"] = Whole(0) /\ "object" \in secured /\ "object" \notin left

BackupDone(version) ==
  copyClean /\ Entries \subseteq secured /\ \A f \in Files : copy[f] = Whole(version)

BackupInvariant ==
  /\ BackupTypeOK /\ CleanSource /\ CopiesClean /\ CopiedSoFar
  /\ copyAt \in {"syncParent", "succeeded"} => copy["objects"] # Absent
  /\ copyAt = "syncParent" => BackupDone(source["catalog"])
  /\ BackupIsWhole
=============================================================================

---------------------------- MODULE VaultService ----------------------------
(***************************************************************************)
(* The vault service (crates/osv-vault/src/lib.rs) over the object store   *)
(* (crates/osv-storage/src/object.rs) and the SQLCipher catalog            *)
(* (crates/osv-catalog): processes open a vault directory as readers or as *)
(* the writer, a writer publishes, deletes and replaces objects, recovers, *)
(* scans and closes, and any step can be cut short by an I/O error, a      *)
(* process kill or a power loss.                                           *)
(*                                                                         *)
(* Directory entries have two values: the one the running system shows and *)
(* the one the disk keeps.  An entry changed since its directory was last  *)
(* synced is in an "unsynced" set, and a power loss keeps it or not.  Of    *)
(* the marker and of the catalog with its log the module keeps the values   *)
(* that a power loss may leave.                                            *)
(*                                                                         *)
(* Object identifiers are 128-bit random numbers in the program.  Here an  *)
(* identifier is used again only when no trace of its former use is left,  *)
(* and the role and the shard directory of an object are functions of its  *)
(* identifier.                                                             *)
(***************************************************************************)
EXTENDS Catalog

CONSTANTS
  Procs,    \* processes that may open the vault
  ShardOf,  \* directory the final ciphertext of an identifier lives in
  Faults    \* what the environment may do to a running service

FaultKind == {"io", "commit", "read", "kill", "power", "damage"}

Entry == [key : Media \cup Ids, targets : SUBSET Ids]

ASSUME VaultAssumption ==
  /\ Ids \subseteq DOMAIN ShardOf
  /\ Faults \subseteq FaultKind
  /\ None \notin Entry \cup Ids

VARIABLES
  rows,             \* catalog: objects and the media that own them
  journal,          \* catalog: operation_journal
  wal,              \* the write-ahead log file has a size other than zero
  limbo,            \* a transaction whose commit failed but whose frames a
                    \*   later open of the catalog may still find in the log
  catalogDisk,      \* catalogs, and their logs, that a power loss may leave
  staging,          \* staging/<id>.osvo.part entries
  stagingUnsynced,  \*   ... changed since the staging directory was synced
  files,            \* objects/ and derived/ <shard>/<id>.osvo entries
  unsynced,         \*   ... changed since their shard directory was synced
  synced,           \* identifiers whose whole ciphertext reached the disk
  corrupt,          \* identifiers whose ciphertext cannot be authenticated
  marker,           \* byte in vault.lock: "C", "D" or "E" for an empty file
  markerDisk,       \* values of it that a power loss may leave
  pc, ctx, obj, todo, op  \* per process: step, the call it is in, the object
                          \*   at hand, objects left to handle, journal entry

catalogVars == <<rows, journal, wal, limbo, catalogDisk>>
storeVars == <<staging, stagingUnsynced, files, unsynced, synced, corrupt>>
markerVars == <<marker, markerDisk>>
sessionVars == <<pc, ctx, obj, todo, op>>
vars == <<catalogVars, storeVars, markerVars, sessionVars>>

-----------------------------------------------------------------------------
(* Sessions and the flock on vault.lock. *)

SharedSteps == {"sharedLocked", "reading"}
RecoverySteps == {"journal", "cleanup", "unlinked", "staging",
                  "stagingUnlinked", "orphans", "scan"}
PublishSteps == {"encrypting", "staged", "renamed", "placed", "durable"}
MarkerSteps == {"mark", "truncated", "written"}
ExclusiveSteps == {"locked", "idle", "checkpoint", "dropped"} \cup MarkerSteps
                    \cup RecoverySteps \cup PublishSteps
Steps == {"closed"} \cup SharedSteps \cup ExclusiveSteps
Contexts == {"none", "open", "op", "scan", "close"}

Move(p, step) ==
  /\ pc' = [pc EXCEPT ![p] = step]
  /\ UNCHANGED <<ctx, obj, todo, op>>

\* The call returns (to step "idle") or the service goes away ("dropped", then
\* "closed").
Rest(p, step) ==
  /\ pc' = [pc EXCEPT ![p] = step]
  /\ ctx' = [ctx EXCEPT ![p] = "none"]
  /\ obj' = [obj EXCEPT ![p] = None]
  /\ todo' = [todo EXCEPT ![p] = {}]
  /\ op' = [op EXCEPT ![p] = None]

\* An error leaves the call by `?`: open and close lose the service with it.
Abort(p) ==
  Rest(p, CASE ctx[p] = "none" -> "closed"
            [] ctx[p] \in {"open", "close"} -> "dropped"
            [] OTHER -> "idle")

\* A phase of recovery starts with the objects it has to visit.
Visit(p, step, objects) ==
  /\ pc' = [pc EXCEPT ![p] = step]
  /\ todo' = [todo EXCEPT ![p] = objects]
  /\ obj' = [obj EXCEPT ![p] = None]
  /\ op' = [op EXCEPT ![p] = None]
  /\ UNCHANGED ctx

-----------------------------------------------------------------------------
(* The catalog. *)

\* Mutant: the intent names the original only.
CleanupOriginal(key, objects) ==
  [key |-> key, targets |-> {id \in objects : RoleOf[id] = Original}]

\* The cleanup record that goes in with the removal of objects.
CleanupIntent(key, objects) == [key |-> key, targets |-> objects]

\* A catalog with the log that it is found with.
Shown == [rows |-> rows, journal |-> journal, wal |-> wal]
Logged(r, j) == [rows |-> r, journal |-> j, wal |-> TRUE]
InLimbo == {Logged(c.rows, c.journal) : c \in limbo}

\* What the disk keeps of the catalog shows after a power loss only.
OnDisk(catalogs) == catalogDisk' = IF "power" \in Faults THEN catalogs ELSE {}

\* A commit is durable when it returns: the log is synced (synchronous=FULL).
\* Its frames overwrite those of a transaction that failed before it.
Commit(r, j) ==
  /\ rows' = r
  /\ journal' = j
  /\ wal' = TRUE
  /\ limbo' = {}
  /\ OnDisk({Logged(r, j)})

\* The sync of the log fails, or a kill comes before it: the old contents are
\* gone on with, the frames of the new ones stay in the file behind the last
\* valid commit, and reach the disk or not.
CommitFails(r, j) ==
  /\ "commit" \in Faults
  /\ limbo' = {[rows |-> r, journal |-> j]}
  /\ wal' = TRUE
  /\ OnDisk(catalogDisk \cup {Logged(rows, journal), Logged(r, j)})
  /\ UNCHANGED <<rows, journal>>

-----------------------------------------------------------------------------
(* The object store. *)

InShard(id) == {i \in Ids : ShardOf[i] = ShardOf[id]}
Readable(id) == id \in files /\ id \notin corrupt

\* Mutant: the sync of the directory is left out.
SkipSyncOfShard(id) == UNCHANGED unsynced

\* The directory holding id is synced: its entries are what the system shows.
SyncShardOf(id) == unsynced' = unsynced \ InShard(id)

NoTrace(r, j, id) ==
  r[id] = None /\ \A e \in j : id # e.key /\ id \notin e.targets

Fresh(id) ==
  /\ id \notin staging \cup stagingUnsynced \cup files \cup unsynced
  /\ NoTrace(rows, journal, id)
  /\ \A c \in limbo \cup catalogDisk : NoTrace(c.rows, c.journal, id)

-----------------------------------------------------------------------------
(* Opening.  Readers share the lock and are admitted only to a clean vault. *)

AcquireShared(p) ==
  /\ pc[p] = "closed"
  /\ \A q \in Procs : pc[q] \notin ExclusiveSteps
  /\ Move(p, "sharedLocked")
  /\ UNCHANGED <<catalogVars, storeVars, markerVars>>

\* Mutant: a reader is admitted beside a log.
AdmitBesideLog(p) ==
  /\ pc[p] = "sharedLocked"
  /\ Rest(p, IF marker = "C" THEN "reading" ELSE "closed")
  /\ UNCHANGED <<catalogVars, storeVars, markerVars>>

\* A reader's view of the catalog is immutable and ignores the log, so the log
\* has to be empty.
AdmitReader(p) ==
  /\ pc[p] = "sharedLocked"
  /\ Rest(p, IF marker = "C" /\ ~wal THEN "reading" ELSE "closed")
  /\ UNCHANGED <<catalogVars, storeVars, markerVars>>

CloseReader(p) ==
  /\ pc[p] = "reading"
  /\ Rest(p, "closed")
  /\ UNCHANGED <<catalogVars, storeVars, markerVars>>

\* Mutant: the writer's lock excludes other writers only.
AcquireAmongReaders(p) ==
  /\ pc[p] = "closed"
  /\ \A q \in Procs : pc[q] \notin ExclusiveSteps
  /\ pc' = [pc EXCEPT ![p] = "locked"]
  /\ ctx' = [ctx EXCEPT ![p] = "open"]
  /\ UNCHANGED <<obj, todo, op, catalogVars, storeVars, markerVars>>

AcquireExclusive(p) ==
  /\ \A q \in Procs : pc[q] = "closed"
  /\ pc' = [pc EXCEPT ![p] = "locked"]
  /\ ctx' = [ctx EXCEPT ![p] = "open"]
  /\ UNCHANGED <<obj, todo, op, catalogVars, storeVars, markerVars>>

\* SQLite recovers the log: frames left by a failed commit are found or not.
\* It does not sync what it finds.
OpenCatalog(p) ==
  /\ pc[p] = "locked"
  /\ \/ /\ OnDisk((catalogDisk \ InLimbo) \cup {Shown})
        /\ UNCHANGED <<rows, journal>>
     \/ \E c \in limbo : rows' = c.rows /\ journal' = c.journal /\ UNCHANGED catalogDisk
  /\ limbo' = {}
  /\ Move(p, "mark")
  /\ UNCHANGED <<wal, storeVars, markerVars>>

-----------------------------------------------------------------------------
(* VaultLock::write_state_with: the marker byte, "D" by open, "C" by close. *)

TruncateMarker(p) ==
  /\ pc[p] = "mark"
  /\ marker' = "E"
  /\ markerDisk' = markerDisk \cup {"E"}
  /\ Move(p, "truncated")
  /\ UNCHANGED <<catalogVars, storeVars>>

WriteMarker(p) ==
  /\ pc[p] = "truncated"
  /\ marker' = IF ctx[p] = "open" THEN "D" ELSE "C"
  /\ markerDisk' = markerDisk \cup {marker'}
  /\ Move(p, "written")
  /\ UNCHANGED <<catalogVars, storeVars>>

\* Mutant: the marker is written and never synced.
LeaveMarkerUnsynced(p) ==
  /\ pc[p] = "written"
  /\ IF ctx[p] = "open" THEN Move(p, "journal") ELSE Rest(p, "closed")
  /\ UNCHANGED <<markerVars, catalogVars, storeVars>>

\* open goes on to recover_with; close returns and its lock is released last.
SyncMarker(p) ==
  /\ pc[p] = "written"
  /\ markerDisk' = {marker}
  /\ IF ctx[p] = "open" THEN Move(p, "journal") ELSE Rest(p, "closed")
  /\ UNCHANGED <<marker, catalogVars, storeVars>>

-----------------------------------------------------------------------------
(* Publication: a staged ciphertext becomes a durable final entry. *)

\* import and replace_derived both start by staging a new object.
StageObject(p) ==
  /\ pc[p] = "idle"
  /\ \E id \in Ids :
       /\ Fresh(id)
       /\ staging' = staging \cup {id}
       /\ stagingUnsynced' = stagingUnsynced \cup {id}
       /\ synced' = synced \ {id}
       /\ corrupt' = corrupt \ {id}
       /\ obj' = [obj EXCEPT ![p] = id]
  /\ pc' = [pc EXCEPT ![p] = "encrypting"]
  /\ ctx' = [ctx EXCEPT ![p] = "op"]
  /\ UNCHANGED <<todo, op, files, unsynced, catalogVars, markerVars>>

\* The whole ciphertext is written and the file is synced.
SyncCiphertext(p) ==
  /\ pc[p] = "encrypting"
  /\ synced' = synced \cup {obj[p]}
  /\ Move(p, "staged")
  /\ UNCHANGED <<staging, stagingUnsynced, files, unsynced, corrupt,
                 catalogVars, markerVars>>

\* The synced ciphertext is authenticated, then renamed into its shard.
RenameObject(p) ==
  /\ pc[p] = "staged"
  /\ staging' = staging \ {obj[p]}
  /\ stagingUnsynced' = stagingUnsynced \cup {obj[p]}
  /\ files' = files \cup {obj[p]}
  /\ unsynced' = unsynced \cup {obj[p]}
  /\ Move(p, "renamed")
  /\ UNCHANGED <<synced, corrupt, catalogVars, markerVars>>

SyncFinal(p) ==
  /\ pc[p] = "renamed"
  /\ SyncShardOf(obj[p])
  /\ Move(p, "placed")
  /\ UNCHANGED <<staging, stagingUnsynced, files, synced, corrupt,
                 catalogVars, markerVars>>

\* The final path must still reach the inode that was written.
SyncStagingDirectory(p) ==
  /\ pc[p] = "placed"
  /\ stagingUnsynced' = {}
  /\ IF obj[p] \in files THEN Move(p, "durable") ELSE Abort(p)
  /\ UNCHANGED <<staging, files, unsynced, synced, corrupt,
                 catalogVars, markerVars>>

-----------------------------------------------------------------------------
(* Catalog transactions of import, replace_derived and delete_media. *)

CommitImport(p) ==
  /\ pc[p] = "durable"
  /\ RoleOf[obj[p]] = Original
  /\ \E m \in Media \ MediaIn(rows) :
       LET new == InsertRow(rows, obj[p], m)
       IN  Commit(new, journal) \/ CommitFails(new, journal)
  /\ Rest(p, "idle")
  /\ UNCHANGED <<storeVars, markerVars>>

\* The replaced rows and the cleanup intent go in with the new row.
CommitReplace(p) ==
  /\ pc[p] = "durable"
  /\ RoleOf[obj[p]] # Original
  /\ \E m \in MediaIn(rows) :
       LET new == ReplaceDerived(rows, obj[p], m)
           e   == CleanupIntent(obj[p], Replaced(rows, obj[p], m))
       IN  \/ /\ Commit(new, journal \cup {e})
              /\ pc' = [pc EXCEPT ![p] = "cleanup"]
              /\ op' = [op EXCEPT ![p] = e]
              /\ todo' = [todo EXCEPT ![p] = e.targets]
              /\ obj' = [obj EXCEPT ![p] = None]
              /\ UNCHANGED ctx
           \/ CommitFails(new, journal \cup {e}) /\ Abort(p)
  /\ UNCHANGED <<storeVars, markerVars>>

\* The caller names a medium that is already there, or one that is not.
RejectCommit(p) ==
  /\ pc[p] = "durable"
  /\ IF RoleOf[obj[p]] = Original THEN MediaIn(rows) # {}
                                  ELSE Media \ MediaIn(rows) # {}
  /\ Abort(p)
  /\ UNCHANGED <<catalogVars, storeVars, markerVars>>

\* The rows, wrapped keys included, go out with the cleanup intent coming in.
DeleteMedia(p) ==
  /\ pc[p] = "idle"
  /\ \E m \in MediaIn(rows) :
       LET e   == CleanupIntent(m, ObjectsOf(rows, m))
           new == DropRows(rows, e.targets)
       IN  /\ \A f \in journal : f.key # m
           /\ \/ /\ Commit(new, journal \cup {e})
                 /\ pc' = [pc EXCEPT ![p] = "cleanup"]
                 /\ ctx' = [ctx EXCEPT ![p] = "op"]
                 /\ op' = [op EXCEPT ![p] = e]
                 /\ todo' = [todo EXCEPT ![p] = e.targets]
                 /\ UNCHANGED obj
              \/ CommitFails(new, journal \cup {e}) /\ Rest(p, "idle")
  /\ UNCHANGED <<storeVars, markerVars>>

-----------------------------------------------------------------------------
(* Cleanup of one journal entry, by the operation or by recovery, and the  *)
(* sweep of orphans: each unlink is followed by a sync of its directory.   *)

\* An object that is not there is skipped, without a directory sync.
UnlinkCiphertext(p) ==
  /\ pc[p] \in {"cleanup", "orphans"}
  /\ pc[p] = "cleanup" => op[p].targets \cap Referenced(rows) = {}
  /\ \E id \in todo[p] :
       \/ /\ id \in files
          /\ files' = files \ {id}
          /\ unsynced' = unsynced \cup {id}
          /\ obj' = [obj EXCEPT ![p] = id]
          /\ pc' = [pc EXCEPT ![p] = "unlinked"]
          /\ UNCHANGED todo
       \/ /\ id \notin files
          /\ todo' = [todo EXCEPT ![p] = @ \ {id}]
          /\ UNCHANGED <<files, unsynced, obj, pc>>
  /\ UNCHANGED <<ctx, op, staging, stagingUnsynced, synced, corrupt,
                 catalogVars, markerVars>>

\* Mutant: the sweep of orphans goes on as if it cleaned up an entry.
SyncUnlinkedEntry(p) ==
  /\ pc[p] = "unlinked"
  /\ SyncShardOf(obj[p])
  /\ todo' = [todo EXCEPT ![p] = @ \ {obj[p]}]
  /\ obj' = [obj EXCEPT ![p] = None]
  /\ pc' = [pc EXCEPT ![p] = "cleanup"]
  /\ UNCHANGED <<ctx, op, staging, stagingUnsynced, files, synced, corrupt,
                 catalogVars, markerVars>>

SyncUnlinked(p) ==
  /\ pc[p] = "unlinked"
  /\ SyncShardOf(obj[p])
  /\ todo' = [todo EXCEPT ![p] = @ \ {obj[p]}]
  /\ obj' = [obj EXCEPT ![p] = None]
  /\ pc' = [pc EXCEPT ![p] = IF op[p] = None THEN "orphans" ELSE "cleanup"]
  /\ UNCHANGED <<ctx, op, staging, stagingUnsynced, files, synced, corrupt,
                 catalogVars, markerVars>>

RemoveOperation(p) ==
  /\ pc[p] = "cleanup"
  /\ todo[p] = {}
  /\ \/ /\ Commit(rows, journal \ {op[p]})
        /\ IF ctx[p] = "op" THEN Rest(p, "idle") ELSE Visit(p, "journal", {})
     \/ CommitFails(rows, journal \ {op[p]}) /\ Abort(p)
  /\ UNCHANGED <<storeVars, markerVars>>

-----------------------------------------------------------------------------
(* recover_with, called by open, by maintenance_scan and by close. *)

Maintain(p) ==
  /\ pc[p] = "idle"
  /\ pc' = [pc EXCEPT ![p] = "journal"]
  /\ \E c \in {"scan", "close"} : ctx' = [ctx EXCEPT ![p] = c]
  /\ UNCHANGED <<obj, todo, op, catalogVars, storeVars, markerVars>>

\* Mutant: recovery drops the entry without visiting its targets.
ForgetEntry(p) ==
  /\ pc[p] = "journal"
  /\ \E e \in journal : op' = [op EXCEPT ![p] = e]
  /\ pc' = [pc EXCEPT ![p] = "cleanup"]
  /\ UNCHANGED <<ctx, obj, todo, catalogVars, storeVars, markerVars>>

RecoverEntry(p) ==
  /\ pc[p] = "journal"
  /\ \E e \in journal :
       /\ op' = [op EXCEPT ![p] = e]
       /\ todo' = [todo EXCEPT ![p] = e.targets]
  /\ pc' = [pc EXCEPT ![p] = "cleanup"]
  /\ UNCHANGED <<ctx, obj, catalogVars, storeVars, markerVars>>

\* Mutant: abandoned staging files are left where they are.
KeepStaging(p) ==
  /\ pc[p] = "journal"
  /\ journal = {}
  /\ Visit(p, "staging", {})
  /\ UNCHANGED <<catalogVars, storeVars, markerVars>>

TakeInventory(p) ==
  /\ pc[p] = "journal"
  /\ journal = {}
  /\ Visit(p, "staging", staging)
  /\ UNCHANGED <<catalogVars, storeVars, markerVars>>

UnlinkStaging(p) ==
  /\ pc[p] = "staging"
  /\ \E id \in todo[p] :
       /\ staging' = staging \ {id}
       /\ stagingUnsynced' = stagingUnsynced \cup {id}
       /\ todo' = [todo EXCEPT ![p] = @ \ {id}]
  /\ pc' = [pc EXCEPT ![p] = "stagingUnlinked"]
  /\ UNCHANGED <<ctx, obj, op, files, unsynced, synced, corrupt,
                 catalogVars, markerVars>>

SyncStagingUnlinked(p) ==
  /\ pc[p] = "stagingUnlinked"
  /\ stagingUnsynced' = {}
  /\ Move(p, "staging")
  /\ UNCHANGED <<staging, files, unsynced, synced, corrupt,
                 catalogVars, markerVars>>

\* Mutant: no final ciphertext is taken for an orphan.
KeepOrphans(p) ==
  /\ pc[p] = "staging"
  /\ todo[p] = {}
  /\ Visit(p, "orphans", {})
  /\ UNCHANGED <<catalogVars, storeVars, markerVars>>

\* Mutant: ciphertexts are taken for orphans without a look at the catalog.
SweepEverything(p) ==
  /\ pc[p] = "staging"
  /\ todo[p] = {}
  /\ Visit(p, "orphans", files)
  /\ UNCHANGED <<catalogVars, storeVars, markerVars>>

SweepOrphans(p) ==
  /\ pc[p] = "staging"
  /\ todo[p] = {}
  /\ Visit(p, "orphans", files \ Referenced(rows))
  /\ UNCHANGED <<catalogVars, storeVars, markerVars>>

BeginScan(p) ==
  /\ pc[p] = "orphans"
  /\ todo[p] = {}
  /\ Visit(p, "scan", Referenced(rows))
  /\ UNCHANGED <<catalogVars, storeVars, markerVars>>

\* Mutant: the scan drops the row of an object it cannot read.
ScanDropsObject(p) ==
  /\ pc[p] = "scan"
  /\ \E id \in todo[p] :
       \/ Readable(id) /\ Visit(p, "scan", todo[p] \ {id}) /\ UNCHANGED catalogVars
       \/ /\ ~Readable(id) \/ "read" \in Faults
          /\ Commit(DropRows(rows, {id}), journal)
          /\ Visit(p, "scan", todo[p] \ {id})
  /\ UNCHANGED <<storeVars, markerVars>>

\* Whatever error opening or authenticating an object meets, it is damaged;
\* set_object_state refuses a row that is not there.
ScanObject(p) ==
  /\ pc[p] = "scan"
  /\ \E id \in todo[p] :
       LET new == MarkDamaged(rows, id)
           GoOn == Visit(p, "scan", todo[p] \ {id})
       IN  \/ Readable(id) /\ GoOn /\ UNCHANGED catalogVars
           \/ /\ ~Readable(id) \/ "read" \in Faults
              /\ id \in Referenced(rows)
              /\ \/ Commit(new, journal) /\ GoOn
                 \/ CommitFails(new, journal) /\ Abort(p)
  /\ UNCHANGED <<storeVars, markerVars>>

EndRecovery(p) ==
  /\ pc[p] = "scan"
  /\ todo[p] = {}
  /\ IF ctx[p] = "close" THEN Move(p, "checkpoint") ELSE Rest(p, "idle")
  /\ UNCHANGED <<catalogVars, storeVars, markerVars>>

\* Catalog::close checkpoints the log, which syncs it and then the database, and
\* truncates it before it disconnects.  Nothing syncs the truncation: a power loss
\* brings the log back, with what is behind its last valid commit.
CloseCatalog(p) ==
  /\ pc[p] = "checkpoint"
  /\ wal' = FALSE
  /\ limbo' = {}
  /\ IF wal THEN OnDisk({Shown, [Shown EXCEPT !.wal = FALSE]} \cup InLimbo)
            ELSE UNCHANGED catalogDisk
  /\ Move(p, "mark")
  /\ UNCHANGED <<rows, journal, storeVars, markerVars>>

\* An idle writer can be dropped without a close.
DropService(p) ==
  /\ pc[p] = "idle"
  /\ Rest(p, "dropped")
  /\ UNCHANGED <<catalogVars, storeVars, markerVars>>

\* SQLite checkpoints the log with its last connection if it can, and keeps it as
\* it is (SQLITE_FCNTL_PERSIST_WAL); the lock is released after that, and the marker
\* stays as it is.
Disconnect(p) ==
  /\ pc[p] = "dropped"
  /\ Rest(p, "closed")
  /\ UNCHANGED <<catalogVars, storeVars, markerVars>>

-----------------------------------------------------------------------------
(* The environment. *)

\* Any system call of a step returns an error.
Fail(p) ==
  /\ "io" \in Faults
  /\ pc[p] \notin {"closed", "reading", "idle", "dropped"}
  /\ Abort(p)
  /\ UNCHANGED <<catalogVars, storeVars, markerVars>>

Kill(p) ==
  /\ "kill" \in Faults
  /\ pc[p] # "closed"
  /\ Rest(p, "closed")
  /\ UNCHANGED <<catalogVars, storeVars, markerVars>>

\* Unsynced entries are kept or lost; unsynced contents are taken as lost.
PowerLoss ==
  /\ "power" \in Faults
  /\ \E kept \in SUBSET unsynced : files' = (files \ unsynced) \cup kept
  /\ \E kept \in SUBSET stagingUnsynced :
       staging' = (staging \ stagingUnsynced) \cup kept
  /\ unsynced' = {}
  /\ stagingUnsynced' = {}
  /\ corrupt' = corrupt \cup ((files' \cup staging') \ synced)
  /\ marker' \in markerDisk
  /\ markerDisk' = {marker'}
  /\ \E c \in catalogDisk :
       /\ rows' = c.rows /\ journal' = c.journal /\ wal' = c.wal
       /\ catalogDisk' = {c}
  /\ limbo' = {}
  /\ pc' = [p \in Procs |-> "closed"]
  /\ ctx' = [p \in Procs |-> "none"]
  /\ obj' = [p \in Procs |-> None]
  /\ todo' = [p \in Procs |-> {}]
  /\ op' = [p \in Procs |-> None]
  /\ UNCHANGED synced

\* Something outside the program removes or alters a ciphertext.
Harm(id) ==
  /\ "damage" \in Faults
  /\ id \in files
  /\ corrupt' = corrupt \cup {id}
  /\ \/ files' = files \ {id}
     \/ id \notin corrupt /\ UNCHANGED files
  /\ UNCHANGED <<staging, stagingUnsynced, unsynced, synced,
                 catalogVars, markerVars, sessionVars>>

-----------------------------------------------------------------------------
\* A vault as create leaves it (dirty) or as a first close leaves it (clean, and
\* with a log whose truncation is not synced).
Init ==
  /\ rows = [id \in Ids |-> None]
  /\ journal = {}
  /\ limbo = {}
  /\ staging = {}
  /\ stagingUnsynced = {}
  /\ files = {}
  /\ unsynced = {}
  /\ synced = {}
  /\ corrupt = {}
  /\ marker \in {"C", "D"}
  /\ wal = (marker = "D")
  /\ catalogDisk = IF "power" \in Faults THEN {Shown, Logged(rows, journal)} ELSE {}
  /\ markerDisk = {marker}
  /\ pc = [p \in Procs |-> "closed"]
  /\ ctx = [p \in Procs |-> "none"]
  /\ obj = [p \in Procs |-> None]
  /\ todo = [p \in Procs |-> {}]
  /\ op = [p \in Procs |-> None]

Open(p) ==
  AcquireShared(p) \/ AdmitReader(p) \/ AcquireExclusive(p) \/ OpenCatalog(p)

Mark(p) == TruncateMarker(p) \/ WriteMarker(p) \/ SyncMarker(p)

Publish(p) ==
  \/ StageObject(p) \/ SyncCiphertext(p) \/ RenameObject(p) \/ SyncFinal(p)
  \/ SyncStagingDirectory(p)

Transact(p) ==
  \/ CommitImport(p) \/ CommitReplace(p) \/ RejectCommit(p) \/ DeleteMedia(p)

Cleanup(p) == UnlinkCiphertext(p) \/ SyncUnlinked(p) \/ RemoveOperation(p)

Recover(p) ==
  \/ RecoverEntry(p) \/ TakeInventory(p) \/ UnlinkStaging(p)
  \/ SyncStagingUnlinked(p) \/ SweepOrphans(p) \/ BeginScan(p)
  \/ ScanObject(p) \/ EndRecovery(p)

Leave(p) ==
  CloseCatalog(p) \/ CloseReader(p) \/ DropService(p) \/ Disconnect(p)

Service(p) ==
  \/ Open(p) \/ Mark(p) \/ Publish(p) \/ Transact(p) \/ Cleanup(p)
  \/ Recover(p) \/ Maintain(p) \/ Leave(p)

Environment ==
  \/ \E p \in Procs : Fail(p) \/ Kill(p)
  \/ PowerLoss
  \/ \E id \in Ids : Harm(id)

Next == (\E p \in Procs : Service(p)) \/ Environment

Spec == Init /\ [][Next]_vars

\* A call that has begun runs on while its thread is scheduled; the user closes
\* or scans an idle writer sooner or later, and opens one when the lock is free
\* again and again.
Fairness ==
  \A p \in Procs :
    /\ WF_vars(pc[p] \notin {"closed", "idle"} /\ Service(p))
    /\ SF_vars(Maintain(p))
    /\ SF_vars(AcquireExclusive(p))

FairSpec == Spec /\ Fairness

-----------------------------------------------------------------------------
(* Properties. *)

CatalogTypeOK ==
  /\ rows \in Rows
  /\ journal \in SUBSET Entry
  /\ wal \in BOOLEAN
  /\ limbo \in SUBSET [rows : Rows, journal : SUBSET Entry]
  /\ catalogDisk \in SUBSET [rows : Rows, journal : SUBSET Entry, wal : BOOLEAN]

StoreTypeOK ==
  /\ staging \in SUBSET Ids
  /\ stagingUnsynced \in SUBSET Ids
  /\ files \in SUBSET Ids
  /\ unsynced \in SUBSET Ids
  /\ synced \in SUBSET Ids
  /\ corrupt \in SUBSET Ids

MarkerTypeOK ==
  /\ marker \in {"C", "D", "E"}
  /\ markerDisk \in SUBSET {"C", "D", "E"}

SessionTypeOK ==
  /\ pc \in [Procs -> Steps]
  /\ ctx \in [Procs -> Contexts]
  /\ obj \in [Procs -> Ids \cup {None}]
  /\ todo \in [Procs -> SUBSET Ids]
  /\ op \in [Procs -> Entry \cup {None}]
  /\ \A p \in Procs :
       /\ pc[p] \in PublishSteps \cup {"unlinked"} => obj[p] \in Ids
       /\ pc[p] = "cleanup" => op[p] \in Entry

\* Every variable has its type, and a process that publishes holds the
\* identifier of an object, one that cleans up holds a journal entry.
TypeOK == CatalogTypeOK /\ StoreTypeOK /\ MarkerTypeOK /\ SessionTypeOK

\* "A committed row must never reference an object that was not already
\* durable" (ROADMAP.md:353): the ciphertext of every object row is complete on
\* disk under a synced directory entry, unless something outside the program
\* harmed it.  Publication, cleanup, the orphan sweep and every crash between
\* two of their steps have to keep to the order that makes it so.
DurableReference ==
  \A id \in Referenced(rows) :
    /\ id \in synced
    /\ id \in corrupt \/ (id \in files /\ id \notin unsynced)

\* A vault whose marker says clean, or may say so after a power loss, has no
\* cleanup pending and no doubtful transaction, and whatever log a power loss
\* leaves beside that marker (the truncation of the last close need not be on the
\* disk) holds the same catalog: the marker goes dirty durably before the first
\* change of a session and clean after its last.
CleanMeansRepaired ==
  "C" \in markerDisk \cup {marker} =>
    /\ journal = {} /\ limbo = {}
    /\ \A c \in catalogDisk : c.journal = {} /\ c.rows = rows

\* A reader looks at the database without its log (immutable=1), and a clean marker
\* may stand beside a log that a power loss brought back: the database that a
\* reader is admitted to has no log, no doubtful transaction and no cleanup pending.
ReaderSeesRepaired ==
  \A p \in Procs : pc[p] = "reading" => ~wal /\ limbo = {} /\ journal = {}

\* ... and it holds no ciphertext that no row refers to, staged or final.
\* Stated of the visible directories while the machine stays up.
CleanMeansSwept ==
  marker = "C" => staging = {} /\ files \subseteq Referenced(rows)

\* "Writers durably mark the file [...] clean only after repair"
\* (docs/adr/0004-vault-concurrency.md:24): no deleted or never referenced
\* ciphertext is back in a clean vault, not even after a power loss.
CleanMeansNoOrphan ==
  marker = "C" => files \subseteq Referenced(rows)

\* The check of delete_media, replace_derived and recover_with that a cleanup
\* target is no live object (CleanupConflict) never fails.
NoCleanupConflict ==
  /\ \A e \in journal : e.targets \cap Referenced(rows) = {}
  /\ \A p \in Procs : pc[p] = "cleanup" => op[p] \in journal

\* A row is marked damaged only when its ciphertext was harmed: the mark is
\* for ever, no code sets an object back to Ready.
DamagedWasHarmed ==
  \A id \in Referenced(rows) : rows[id].state = "Damaged" => id \in corrupt

\* Through kills, failed commits and recovery, and whichever way a doubtful
\* transaction turns out, every object of the catalog belongs to a medium that
\* has its original, and no medium has two objects of one role: delete takes the
\* derived objects with it, replace the older object of its role.
LibraryWellFormed ==
  \A r \in {rows} \cup {c.rows : c \in limbo} : WellFormed(r)

\* While a reader holds the vault open, no process changes the catalog, the
\* object store or the marker under its immutable view.
ReaderIsolation ==
  [][(\E p \in Procs : pc[p] = "reading" /\ pc'[p] = "reading")
       => UNCHANGED <<catalogVars, staging, files, marker>>]_vars

\* A wrapped key leaves the catalog only together with a durable intent to
\* remove its ciphertext.
KeyDropLeavesIntent ==
  [][\A id \in Referenced(rows) \ Referenced(rows') :
       \E e \in journal' : id \in e.targets]_vars

\* ... and the intent goes only when the ciphertext is gone.
IntentOutlivesCiphertext ==
  [][\A e \in journal \ journal' : e.targets \cap files = {}]_vars

\* Work that recovery has to do: a pending cleanup, an abandoned staging file, a
\* ciphertext without a row.
Residue ==
  journal # {} \/ staging # {} \/ ~(files \subseteq Referenced(rows))

\* When the faults stop, whatever they left behind is cleared in the end:
\* recovery never gets stuck on a state that its own interruption produced.
RecoveryConverges ==
  <>[][~Environment]_vars => (Residue ~> ~Residue)

\* The service implements the abstract vault: the library is the catalog, and
\* in doubt is what a failed commit may have left in the log.
Abstract == INSTANCE AbstractVault
              WITH library <- rows, doubt <- {c.rows : c \in limbo} \ {rows}

\* Whatever is killed, fails, is recovered or reopened, the library changes by
\* one whole import, delete, replacement or damage mark at a time.
AbstractSpec == Abstract!Spec
=============================================================================

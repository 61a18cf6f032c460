---------------------------- MODULE VaultCreation ----------------------------
(***************************************************************************)
(* How a vault directory comes to be: UnlockedVault::create                *)
(* (crates/osv-storage/src/lib.rs), VaultService::create_with_faults       *)
(* (crates/osv-vault/src/lib.rs) and the first migration of the catalog    *)
(* (crates/osv-catalog), with several creators, and a process that tries to *)
(* open the path as a writer at any moment.                                *)
(*                                                                         *)
(* An image is what the disk holds under the path.  cOutcomes holds every  *)
(* image a power loss may leave: any of the changes since the last sync    *)
(* may be lost, in any order.                                              *)
(***************************************************************************)
EXTENDS Naturals

CONSTANTS
  Creators,        \* processes that create the vault
  Opener,          \* the process that opens it
  CreationFaults   \* what may fail: "io", "kill", "power"

Nobody == "nobody"

ASSUME CreationAssumption ==
  /\ Nobody \notin Creators \cup {Opener} /\ Opener \notin Creators
  /\ CreationFaults \subseteq {"io", "kill", "power"}

VARIABLES
  cDisk,      \* the image the processes see
  cOutcomes,  \* the images a power loss may leave
  cPc,        \* the step each creator is at
  openerAt,   \* the step the opener is at
  cHolder,    \* holder of the exclusive lock on vault.lock
  created     \* create has returned a service to its caller (history)

creationVars == <<cDisk, cOutcomes, cPc, openerAt, cHolder, created>>

Image == [directory : BOOLEAN, header : {"absent", "torn", "whole"}, lock : BOOLEAN,
          catalog : BOOLEAN, wal : BOOLEAN, schema : BOOLEAN,
          marker : {"empty", "dirty"}]
Blank == [directory |-> FALSE, header |-> "absent", lock |-> FALSE, catalog |-> FALSE,
          wal |-> FALSE, schema |-> FALSE, marker |-> "empty"]

StorageSteps == {"createHeader", "writeHeader", "syncDirectory", "syncParent"}
CatalogSteps == {"syncLock", "createCatalog", "openWal", "migrate", "bind",
                 "syncCatalog", "mark"}
CreationSteps == {"mkdir", "createLock", "flock"} \cup StorageSteps \cup CatalogSteps

\* What a writer needs: the lock file, the header, the catalog with its schema.  The
\* schema of a new vault is in the log.
Opens(d) == d.directory /\ d.lock /\ d.header = "whole" /\ d.catalog /\ d.wal /\ d.schema

CreationInit ==
  /\ cDisk = Blank /\ cOutcomes = {Blank}
  /\ cPc = [p \in Creators |-> "mkdir"]
  /\ openerAt = "none" /\ cHolder = Nobody /\ created = FALSE

----------------------------------------------------------------------------
Change(Apply(_)) ==
  /\ cDisk' = Apply(cDisk)
  /\ cOutcomes' = cOutcomes \cup {Apply(d) : d \in cOutcomes}

Made(d) == [d EXCEPT !.directory = TRUE]
HeaderOpened(d) == [d EXCEPT !.header = "torn"]
HeaderWritten(d) == IF d.header = "torn" THEN [d EXCEPT !.header = "whole"] ELSE d
Locked(d) == [d EXCEPT !.lock = TRUE]
WithCatalog(d) == [d EXCEPT !.catalog = TRUE]
WithWal(d) == [d EXCEPT !.wal = TRUE]

\* Syncing the directory secures the names in it, syncing its parent its own name.
Secured(d) == [cDisk EXCEPT !.directory = d.directory]
NameSecured(d) == [d EXCEPT !.directory = cDisk.directory]
SyncNames == cOutcomes' = {Secured(d) : d \in cOutcomes} /\ UNCHANGED cDisk

\* Mutant: the parent directory is not synced.
KeepParent == UNCHANGED <<cDisk, cOutcomes>>

SyncParent == cOutcomes' = {NameSecured(d) : d \in cOutcomes} /\ UNCHANGED cDisk

From(p, step, next) == cPc[p] = step /\ cPc' = [cPc EXCEPT ![p] = next]
NoLock == UNCHANGED <<openerAt, cHolder, created>>

\* UnlockedVault::create: the directory must not exist.
MakeDirectory(p) ==
  /\ ~cDisk.directory
  /\ From(p, "mkdir", "createHeader") /\ Change(Made) /\ NoLock
CreateHeader(p) == From(p, "createHeader", "writeHeader") /\ Change(HeaderOpened) /\ NoLock

\* The bytes are synced with the file: wherever its name survives, so do they.
WriteHeader(p) ==
  /\ From(p, "writeHeader", "syncDirectory")
  /\ cDisk' = HeaderWritten(cDisk)
  /\ cOutcomes' = {HeaderWritten(d) : d \in cOutcomes}
  /\ NoLock
SyncDirectoryOf(p) == From(p, "syncDirectory", "syncParent") /\ SyncNames /\ NoLock
SyncParentOf(p) == From(p, "syncParent", "createLock") /\ SyncParent /\ NoLock

\* VaultService::create: the lock file is created, then locked.
CreateLock(p) ==
  /\ ~cDisk.lock
  /\ From(p, "createLock", "flock") /\ Change(Locked) /\ NoLock

\* Mutant: the creator does not lock the file it made.
SkipLock(p) == cHolder' = cHolder

TryLock(p) == cHolder = Nobody /\ cHolder' = p

TakeLock(p) ==
  From(p, "flock", "syncLock") /\ TryLock(p)
  /\ UNCHANGED <<cDisk, cOutcomes, openerAt, created>>
SyncLock(p) == From(p, "syncLock", "createCatalog") /\ SyncNames /\ NoLock
CreateCatalog(p) ==
  /\ ~cDisk.catalog
  /\ From(p, "createCatalog", "openWal") /\ Change(WithCatalog) /\ NoLock

\* The anchored VFS syncs the directory before it hands out a file it may have made.
OpenWal(p) ==
  /\ From(p, "openWal", "migrate")
  /\ cDisk' = WithWal(cDisk)
  /\ cOutcomes' = {[WithWal(cDisk) EXCEPT !.directory = d.directory] : d \in cOutcomes}
  /\ NoLock

\* One transaction makes the whole schema; its commit syncs the log.
Migrate(p) ==
  /\ From(p, "migrate", "bind")
  /\ cDisk' = [cDisk EXCEPT !.schema = TRUE]
  /\ cOutcomes' = {[d EXCEPT !.schema = d.wal] : d \in cOutcomes}
  /\ NoLock
BindCatalog(p) ==
  /\ cDisk.catalog /\ cDisk.wal
  /\ From(p, "bind", "syncCatalog") /\ UNCHANGED <<cDisk, cOutcomes>> /\ NoLock
SyncCatalog(p) == From(p, "syncCatalog", "mark") /\ SyncNames /\ NoLock

\* The marker is truncated, written and synced; then the caller has its service.
Mark(p) ==
  /\ From(p, "mark", "serving")
  /\ cDisk' = [cDisk EXCEPT !.marker = "dirty"]
  /\ cOutcomes' = {[d EXCEPT !.marker = IF d.lock THEN "dirty" ELSE "empty"] : d \in cOutcomes}
  /\ created' = TRUE
  /\ UNCHANGED <<openerAt, cHolder>>

Released(p) == cHolder' = IF cHolder = p THEN Nobody ELSE cHolder

\* An error ends the creation and leaves every name where it is; that of the storage
\* part tries to sync both directories first.  A commit or a marker whose sync fails
\* may have reached the disk.
FailCreation(p) ==
  /\ cPc[p] \in CreationSteps
  /\ \/ "io" \in CreationFaults
     \/ cPc[p] = "mkdir" /\ cDisk.directory
     \/ cPc[p] = "createLock" /\ cDisk.lock
     \/ cPc[p] = "flock" /\ cHolder # Nobody
     \/ cPc[p] = "createCatalog" /\ cDisk.catalog
  /\ cPc' = [cPc EXCEPT ![p] = "failed"]
  /\ \/ UNCHANGED <<cDisk, cOutcomes>>
     \/ cPc[p] \in StorageSteps /\ cOutcomes' = {cDisk} /\ UNCHANGED cDisk
     \/ /\ cPc[p] = "migrate"
        /\ cOutcomes' = cOutcomes \cup {[d EXCEPT !.schema = d.wal] : d \in cOutcomes}
        /\ UNCHANGED cDisk
  /\ Released(p)
  /\ UNCHANGED <<openerAt, created>>

\* The service is dropped, or the process is killed.
EndCreator(p) ==
  /\ \/ cPc[p] = "serving"
     \/ cPc[p] \in CreationSteps /\ "kill" \in CreationFaults
  /\ cPc' = [cPc EXCEPT ![p] = "failed"]
  /\ Released(p)
  /\ UNCHANGED <<cDisk, cOutcomes, openerAt, created>>

----------------------------------------------------------------------------
\* VaultService::open as a writer: the lock file first, then everything else.
OpenLock ==
  /\ openerAt = "none" /\ cDisk.directory /\ cDisk.lock /\ cHolder = Nobody
  /\ cHolder' = Opener /\ openerAt' = "locked"
  /\ UNCHANGED <<cDisk, cOutcomes, cPc, created>>
OpenRest ==
  /\ openerAt = "locked"
  /\ \/ Opens(cDisk) /\ openerAt' = "open" /\ UNCHANGED cHolder
     \/ ~Opens(cDisk) /\ openerAt' = "none" /\ cHolder' = Nobody
  /\ UNCHANGED <<cDisk, cOutcomes, cPc, created>>
CloseOpener ==
  /\ openerAt = "open"
  /\ openerAt' = "none" /\ cHolder' = Nobody
  /\ UNCHANGED <<cDisk, cOutcomes, cPc, created>>

\* A directory whose own name is lost takes its entries with it.
CreationPowerLoss ==
  /\ "power" \in CreationFaults
  /\ \E d \in cOutcomes : cDisk' = IF d.directory THEN d ELSE Blank
  /\ cOutcomes' = {cDisk'}
  /\ cPc' = [p \in Creators |-> IF cPc[p] = "mkdir" THEN "mkdir" ELSE "failed"]
  /\ openerAt' = "none" /\ cHolder' = Nobody
  /\ UNCHANGED created

Create(p) ==
  \/ MakeDirectory(p) \/ CreateHeader(p) \/ WriteHeader(p) \/ SyncDirectoryOf(p)
  \/ SyncParentOf(p) \/ CreateLock(p) \/ TakeLock(p) \/ SyncLock(p) \/ CreateCatalog(p)
  \/ OpenWal(p) \/ Migrate(p) \/ BindCatalog(p) \/ SyncCatalog(p) \/ Mark(p)
  \/ FailCreation(p) \/ EndCreator(p)

CreationNext ==
  \/ \E p \in Creators : Create(p)
  \/ OpenLock \/ OpenRest \/ CloseOpener \/ CreationPowerLoss

----------------------------------------------------------------------------
CreationTypeOK ==
  /\ cDisk \in Image /\ cOutcomes \subseteq Image
  /\ cPc \in [Creators -> CreationSteps \cup {"serving", "failed"}]
  /\ openerAt \in {"none", "locked", "open"}
  /\ cHolder \in Creators \cup {Opener, Nobody} /\ created \in BOOLEAN

\* A vault whose creation has returned is there for good: whatever a power loss takes
\* away, a writer can open what is left (the order of files, locks, directory syncs,
\* log and marker in the three create functions).
CreatedSurvives == created => \A d \in cOutcomes \cup {cDisk} : Opens(d)

\* The catalog is never open twice: a process that finds the path while it is being
\* created waits for the lock or fails, also between the two steps that make the lock.
CatalogHasOneUser ==
  /\ \A p \in Creators : cPc[p] \in CatalogSteps \cup {"serving"} => openerAt = "none"
  /\ \A p, q \in Creators :
       cPc[p] \in CatalogSteps /\ cPc[q] \in CatalogSteps => p = q

----------------------------------------------------------------------------
\* The inductive invariant.

\* Who uses the catalog holds the lock, and so does the opener while it is in.
LockHeld ==
  /\ \A p \in Creators : cPc[p] \in CatalogSteps \cup {"serving"} => cHolder = p
  /\ openerAt # "none" => cHolder = Opener

\* One creator at a time is past mkdir: the directory stays until a power loss ends all.
Active == (CreationSteps \ {"mkdir"}) \cup {"serving"}
OneCreator ==
  /\ \A p \in Creators : cPc[p] \in Active => cDisk.directory
  /\ \A p, q \in Creators : cPc[p] \in Active /\ cPc[q] \in Active => p = q
  /\ cDisk \in cOutcomes /\ (~cDisk.directory => cOutcomes = {Blank})
  /\ created => \A p \in Creators : cPc[p] \in {"mkdir", "serving", "failed"}

\* What the steps have behind them, on the disk or in all that a power loss may leave.
SchemaKept == {"bind", "syncCatalog", "mark"}
LogKept == {"migrate"} \cup SchemaKept
LockKept == {"createCatalog", "openWal"} \cup LogKept
NameKept == {"createLock", "flock", "syncLock"} \cup LockKept
HeaderKept == {"syncParent"} \cup NameKept

Behind(step, disk, outcomes) ==
  /\ step = "writeHeader" => disk.header = "torn"
  /\ step = "syncDirectory" => disk.header = "whole"
  /\ step \in {"flock", "syncLock"} => disk.lock
  /\ step = "openWal" => disk.catalog
  /\ \A d \in outcomes :
       /\ step \in HeaderKept => d.header = "whole"
       /\ step \in NameKept => d.directory
       /\ step \in LockKept => d.lock
       /\ step \in LogKept => d.catalog /\ d.wal
       /\ step \in SchemaKept => d.schema
StepsBehind == \A p \in Creators : Behind(cPc[p], cDisk, cOutcomes)

CreationInvariant ==
  CreationTypeOK /\ LockHeld /\ OneCreator /\ StepsBehind /\ CreatedSurvives
=============================================================================

# TLA+ models of osv-ng

osv-ng is an encrypted media vault with a desktop application: a directory that
holds an authenticated header, an SQLCipher catalog, one encrypted file per stored
object and a lock file; images are decoded by short-lived helper processes that are
not trusted, and shown in a GTK window that has to forget them when it is locked.
This directory models the code that keeps those parts consistent while calls fail
half way, processes are killed, the power goes and answers come late; it checks the
models with TLC and proves the main results with TLAPS.

## 1. Inventory

| component | state | operations | interacts with |
|---|---|---|---|
| vault service, `crates/osv-vault/src/lib.rs` | open mode, catalog and store handles, startup report | `open`, `import`, `replace_derived`, `delete_media`, `maintenance_scan`, `recover_with`, `open_object`, `close` | owns catalog, store and lock; called by import and session |
| creation and backup, same file | the steps of a directory that comes to be, or is copied | `create`, `backup_closed` | other processes, file system |
| process lock and marker, `VaultLock` in the same file | `flock` on `vault.lock`, one byte in it (`C` clean, `D` dirty) | `acquire`, `mark_creation_dirty`, `mark_writer_dirty`, `mark_clean_with`, `is_clean` | other processes |
| object store, `crates/osv-storage/src/object.rs` | `staging/*.osvo.part`, `objects/` and `derived/` shards, what of them is synced; the chunks of a file and the reader's cache | `publish_object`, `open_object`, `remove_object`, `remove_staging`, `inventory`; read, seek, verify | file system |
| header and rewrap, `crates/osv-storage/src/lib.rs`, `crates/osv-crypto` | header, new header, backup header, source of the session's header | `create`, `unlock_from_directory`, `rewrap_with`; wrap, parse, unlock | file system |
| catalog, `crates/osv-catalog` | rows of objects and galleries, journal, write-ahead log, names of its files | transactions, `checkpoint`, `close`, `migrate`, the anchored VFS | SQLite |
| worker protocol, `crates/osv-worker-protocol` | `BrokerMachine` state, sequence numbers, frames | `sent`, `received`, `encode`, `decode` | supervisor |
| isolation, `crates/osv-isolation` | child process, socket, deadlines | `spawn`, `send_authenticated`, `finish_with_output`, `cancel`; the worker loop | helper processes |
| import, `crates/osv-import` | prepared import with its duplicate decision | `prepare_image_import`, `commit_import`, `regenerate_image_thumbnail`, checks of renditions | supervisor, vault service |
| media, `crates/osv-media` | scanners of four formats, viewer state | `probe`, `rendition_dimensions`, rendition headers, playback | helpers, import, UI |
| session, `crates/osv-app/src/runtime.rs` | command queue, pending preparation, regeneration queue and counters, cancelled flag | `begin`, requests, `revoke`, `close`, `Drop` | UI thread, vault service |
| shell, `crates/osv-app/src/lib.rs` | route, generation, jobs, revocable handles, shortcuts | `unlock`, `lock`, `start_job`, `update_job`, `fail_job`, `cancel_job` | UI |
| UI and portal broker, `ui.rs`, `portal.rs` | widgets, timers, selected files, brokers | clicks, polling of receivers, choosers, window close | session, shell, portal |
| sandbox, third-party cryptography and decoders, GTK, SQLite | | | |

What is hard, by component:

* **Vault service, store, catalog.** An import is twelve durable steps in three
  places (staging directory, shard directory, SQL log). A deletion drops the
  keys first and the ciphertext later, from a journal. Recovery must cope with
  every prefix of these, its own interrupted runs included, and has to tell an
  orphan from a live object. Syncs can fail after their effect is visible. The
  marker byte, written in three steps, decides alone whether a reader may come
  in. Correct means: a row never refers to a ciphertext that is not durable; a
  dropped key always leaves an intent that outlives the ciphertext; clean means
  repaired; readers see no change; after the faults recovery finishes.
* **Creation, rewrap, backup, catalog files.** Sequences of renames and syncs
  across several files; correct means that what was reported done survives a power
  loss, and that no interruption locks the owner out.
* **Workers.** Two processes over a byte stream with deadlines, cancellation and
  early failures; correct means that a result is accepted only from a worker
  that finished the whole exchange, and that every child is reaped in time.
* **Session, shell, UI.** Requests, revocations, timers and results race across
  two threads and one main loop; correct means that each request is answered or
  disconnected, that nothing of an old session reaches the screen of a new or a
  locked one, that a decision is about what the user has seen, and that a revoked
  session ends.
* **Formats.** Chunk arithmetic, framing, probes and renditions are computed on two
  sides that do not trust each other, or written and read years apart; correct means
  that both sides agree at every boundary and that damage is never taken for data.

`PROJECT.json` lists the hazards line by line with the properties that cover them.

## 2. Modules

| module | content |
|---|---|
| `Catalog` | the rows that own ciphertext and what transactions do to them (operators only) |
| `AbstractVault` | what the service promises about the library: whole operations, or one operation in doubt after a catalog error |
| `VaultService` | the service in steps, with lock, marker, store, log, processes and environment; its properties; the refinement mapping to `AbstractVault` |
| `VaultInvariants`, `VaultServiceProofs` | the inductive invariants of `VaultService`, and the proofs: types, lock, marker, reader isolation; cleanup, durability, sweep and damage; refinement and the operations on rows |
| `AbstractRequest` | what one request to a helper promises: one process at a time, a bounded number of starts, no answer while a process is left |
| `WorkerProtocol` | frames and `BrokerMachine` (operators only) |
| `WorkerSession` | a calling thread with its supervisor, two bounded streams and the helper, honest or rogue; its properties; the mapping to `AbstractRequest` |
| `WorkerInvariants`, `WorkerSessionProofs` | the inductive invariants of `WorkerSession`, of the call and of the two streams, and what follows from them |
| `OwnerThread` | the serial owners of the sessions, with any interface; what the threads alone guarantee |
| `Desktop` | the main loop over `OwnerThread`: pages, choosers, imports, listings, viewer requests, lock, window close; refines `OwnerThread` |
| `DesktopProofs` | the invariants of the two, the refinement, and what the gallery shows |
| `HeaderRewrap`, `HeaderRewrapProofs` | unlock from header or backup, change of credentials |
| `VaultCreation` | two creators and an opener of one path |
| `VaultBackup` | the copy of a closed vault while writers come and go |
| `CatalogFiles` | the anchored VFS: names, deletion by renaming, reads and writes in pieces |
| `GalleryTree` | galleries, tags, favourites and index in transactions, and the listing made of them |
| `GalleryView` | the gallery page: revisions, listings, levels, recycled tiles, late thumbnails |
| `ViewerPlayback` | the viewer: frames, timer, buttons, late originals |
| `Shell` | route, jobs, handles and shortcuts |
| `ObjectFile` | the format of an encrypted object and its random-access reader |
| `HeaderFormat` | the bytes of a header: framing of credentials, associated data, cost limits |
| `WireFormat` | the bytes of a protocol frame |
| `ImageProbe` | the scanners of PNG, JPEG, GIF and WebP |
| `ImageRendition` | dimensions, frames and header of a rendition on both sides |
| `Parts` | the thirteen last components side by side, one per behaviour, and their properties in groups |
| `PartsProofs`, `ImageProofs`, `BytesProofs` | the inductive invariants of twelve of them (each stands at the end of its component's module; `HeaderRewrapProofs` has the thirteenth) and the properties of `Parts` that follow |
| `TypeProofs` | the types of all thirteen, for which the invariants of some need a bound more |
| `MC…` | instances for TLC |

Composition. `Desktop` extends `OwnerThread` and runs it: the interface sends
commands, the threads answer through channels, and the open vault is the one lock
that all sessions compete for. What a command does inside the vault and to a helper
is one step there (it succeeds whole or fails), which is what `AbstractVault` and
`AbstractRequest` promise of `VaultService` and `WorkerSession`: they implement
these, and so the pieces fit without being run together. The components of `Parts`
share no state with each other or with these; a behaviour of `Parts` is one of
a single component, so that the sum of their state spaces is explored and not the
product.

### How `VaultService` corresponds to the code

*State.* `rows` and `journal` are the catalog as the connection shows it; `wal`
says whether the log file has a size (a reader refuses a vault whose log has);
`limbo` is at most one transaction whose commit failed at its log sync: its
frames lie in the file behind the last valid commit, so the connection does not
see them but the next open may. `catalogDisk` holds the catalogs, each with its log, that a
power loss may leave: a commit syncs the log, and a checkpoint syncs log and database, but the
truncation at the end of `Catalog::close` is a plain `ftruncate` (anchored_vfs.rs:298) that
nothing syncs before the clean marker is, so a power loss may bring the old log back beside
that marker. `staging` and `files` are the directory entries
the system shows, `stagingUnsynced` and `unsynced` the entries changed since the
last sync of their directory, `synced` the files whose whole content was synced.
`marker` and `markerDisk` are the byte in `vault.lock` and the values a power
loss may leave. `pc`, `ctx`, `obj`, `todo`, `op` are the position of each process
in the code: step, call, object at hand, objects still to handle, journal entry.

*Actions* are the stretches of code between two system calls that a crash or an
error can separate; the code's own fault points (`ServicePoint`, `PublishPoint`,
`RemovalPoint`) mark the same places.

| actions | code |
|---|---|
| `AcquireShared`, `AdmitReader`, `AcquireExclusive`, `OpenCatalog` | `open_with_recovery_faults` |
| `TruncateMarker`, `WriteMarker`, `SyncMarker` | `VaultLock::write_state_with` |
| `StageObject`, `SyncCiphertext`, `RenameObject`, `SyncFinal`, `SyncStagingDirectory` | `publish_object` |
| `CommitImport`, `CommitReplace`, `RejectCommit`, `DeleteMedia` | `catalog_import`, `replace_derived_with`, `delete_media_with` |
| `UnlinkCiphertext`, `SyncUnlinked`, `RemoveOperation` | `cleanup_descriptors`, `remove_object_with_faults`, the journal removal |
| `Maintain`, `RecoverEntry`, `TakeInventory`, `UnlinkStaging`, `SyncStagingUnlinked`, `SweepOrphans`, `BeginScan`, `ScanObject`, `EndRecovery` | `recover_with`, from `open`, `maintenance_scan`, `close` |
| `CloseCatalog`, `CloseReader`, `DropService`, `Disconnect` | `close_with_faults`, `Catalog::close`, the drop of the service |
| `Fail`, `CommitFails` | an error of any system call; a commit whose log sync fails |
| `Kill`, `PowerLoss`, `Harm` | the environment |

*Abstractions.* Shard directories are taken to exist (`ensure_directory` repeats
its sync on every retry). Recovery reads journal, rows and inventory once at its
start; the model reads each where it is first used, which is the same under the
exclusive lock. Object identifiers are fresh random numbers, so an identifier is
reused only when no trace of it is left, and its role and shard are functions of
it. A file whose content was not synced is unreadable after a power loss.
`synced` ciphertext was authenticated by `verify_all` before the rename.
The fault `commit` also stands for a kill between the writing of a transaction's frames and
their sync; in the runs without it a kill meets a commit before or after. The disk's view of the
catalog (`OnDisk`) is kept only in the runs that lose power.
The state `PendingDeletion` of an object is parsed by the catalog and written by
no code. Locator mismatches and foreign directory entries are left out, as are
the directory-binding checks that guard against a replaced vault directory.

### How `WorkerSession` corresponds to the code

*State.* `pc` is the step of the calling thread, which runs import, supervisor
and transport in one: `hello`, `ready`, `start` are `spawn_once`, `offer` and
`write` the loop of `prepare_rendition_cancellable` with `send_authenticated`,
`end` to `exit` are `finish_with_output_inner` with `wait_for_exit`, `judge` the
caller's checks, `revoke` and `grace` are `cancel`. `machine`, `output`, `class`,
`channel` and `locks` are `BrokerMachine`, the collected output, `ExitClass` and
the two lock statuses (`TRUE` is `Degraded`). `child`, `status`, `wpc`, `input`,
`results`, `emitted`, `wlocks` are the helper and its loop. `cancelled` is the
session's flag, `expired` says that the deadline of the phase has passed.

| actions | code |
|---|---|
| `Begin`, `Decline`, `Judge`, `Return` | `prepare_image_import_cancellable`, `prepare_rendition_cancellable`, the owner thread |
| `SpawnFails`, `SpawnOnce`, `StartupBreaks`, `SendHello`, `ReceiveReady`, `SendStart` | `Supervisor::spawn`, `spawn_once`, the drop of `StartupChild` |
| `OfferChunk`, `WriteChunk`, `WriteFails` | `send_authenticated_inner`, `send_inner`, `wait` |
| `BeginFinish`, `WriteEnd`, `WriteEndFails`, `CheckCancelled`, `Receive`, `ReceiveFails`, `WaitForExit` | `finish_with_output_inner`, `receive_inner`, `wait_for_exit` |
| `Revoke`, `Reap`, `Kill` | `Supervisor::cancel`, `Drop` |
| `Boot` to `Leave` | `apply_worker_sandbox`, `run_worker_transformed`, `main` of the helper |
| `RequestCancel`, `Expire`, `Crash`, `Rogue` | `VaultSession::revoke`; the environment |

*Abstractions.* A stream holds whole frames, except that a `Data` frame whose send
was given up, and a `Result` frame whose sender died, may leave a torn beginning;
what follows a torn `Data` frame completes it with foreign bytes. The bytes of a torn
frame take no place in a stream of `Capacity` frames, so that a stream that has
room for a part has room for what completes it. Sequence numbers
stand for the chunks. A frame of another request or with bytes that do not decode
is `Garbage`. The header of the request is the first chunk. A source that the
probe rejects gets no helper and is left out. The size limits of the worker are
above what the caller sends. Explicit `cancel` and the one in `Drop` are one
action, since the second finds the child waited for. The parent-death signal is
not modelled: the broker's process does not die. `observed` is a history variable.

### How `OwnerThread` and `Desktop` correspond to the code

*State of the threads* (`runtime.rs`). `phase` is the life of the thread of a session:
`opening` is `VaultService::open`, `serving` the loop, `closing` from the `break` to the
return of `vault.close()`. `inbox` is the command channel, `hand` the command (or
thumbnail) in work, `pending` the one prepared import, `backlog` and `tally` the
regeneration queue and `MaintenanceStatus`, `revision` the catalog revision,
`cancelled` the flag, `ready` the start-up channel, `answer` the response channel of
each request in flight. `library` and `source` are the vault as the thread sees it: which
preparation became an image, with or without a thumbnail, and of which content.
`copies` is a history variable.

| actions | code |
|---|---|
| `Begin`, `TakeReady`, `Revoke` | `VaultSession::begin`, `try_ready`, `revoke` with `close` and `Drop` |
| `SendPrepare`, `SendCommand`, `Collect`, `Forget` | the request methods, the receivers they return |
| `OpenFails`, `Open`, `ReceiveClose`, `ReceiveCancelled`, `Receive`, `StartRegeneration`, `Finish` | the thread's start, loop and end |
| `FinishList`, `FinishOpen`, `FinishPrepare`, `DeclineCommit`, `Commit`, `Regenerated`, `RegenerationFails` | the arms of `match command`, with `commit_import` and the regeneration |

*State of the window* (`ui.rs`). `slot` is the session the window holds, `page` and
`unlocked` the visible page and the shell's state, `pollers` the timers of 20 ms in the
order in which they are due, `chooser` the broker behind each chooser button,
`authority`, `active`, `controls`, `sensitive` the import in progress and its buttons,
`picture` and `view` what is on the screen, `loaded` the revision last asked for.
`previewed` is a history variable.

| actions | code |
|---|---|
| `ClickCreatePage`, `ClickBack`, `Navigate`, `ClickOpen`, `Lock` | the pages, `begin_vault_session`, the two lock paths with `clear_sensitive` |
| `ClickChooser`, `BrokerAnswers`, `BrokerVanishes`, `FolderChosen`, `ImageNotChosen`, `ImageChosen` | `portal::select`, its thread, the callbacks of the buttons |
| `PreparationStale`, `PreparationAnswered`, `ClickDecision`, `CommitStale`, `CommitAnswered` | the import button, its timers and the decision buttons |
| `ClearGallery`, `AskListing`, `ListingAnswered`, `SelectImage`, `ViewerAnswered` | the gallery's timers and tiles |
| `CloseWindow`, `PollReady`, `PollPortal`, `PollShutdown` | `install_clean_shutdown`, the other timers |

*Abstractions.* A command runs in one step when it ends: it changes nothing before its
commit, so that only its end can be seen. GLib fires timers of one interval in turn: a
timer does not fire before all older ones that were due; without this order listings
could overtake each other. An image is named by the number of its preparation; contents are a set
`Files`, and a duplicate is an image with the same content. A gallery whose
entries are replaced selects a tile by itself, also before the shell is unlocked, and opens its
original: `ListingAnswered` has it open any image with a thumbnail, or none; which one it is
depends on the level and the old selection, which are in `GalleryView`. The timer takes the
channel of the listing over, which saves a channel and changes nothing else. Galleries,
thumbnails on their tiles and animation are in `GalleryView` and `ViewerPlayback`.

### The components of `Parts`

| module | state and steps | left out |
|---|---|---|
| `HeaderRewrap` | three names of the directory as the process sees them (`hDisk`) and every directory a power loss may leave (`hOutcomes`); one action per system call of `rewrap_with`; whether the file system keeps the order of renames is chosen at the start (`journaled`) | KDF costs |
| `VaultCreation` | the image under the path and the images a power loss may leave; one action per step of the three create functions, for each creator; an opener that may come at any moment | the contents of the catalog |
| `VaultBackup` | a version per file of source and copy, which names of the copy are synced, its own in the parent directory included (without that a power loss takes the whole copy); `copy_tree` in any order of entries | path checks of the destination |
| `CatalogFiles` | names, inodes and bytes of the catalog's files; open, close, delete with and without sync, a transfer in pieces, truncation, restart with another process number | locking, shared memory and pass-through callbacks; a power loss takes names, the contents are the log of `VaultService` |
| `GalleryTree` | committed rows and those of the open transaction; the statements with the cycle check of the code, the triggers, keys and cascades of the schema; the listing of `runtime.rs` as operators | search queries |
| `GalleryView` | session, revision, listings and thumbnails on their way, the level shown, the tiles with their positions; GTK's selection of a first entry and its recycling of tiles, as far as `ui.rs` depends on them | layout |
| `ViewerPlayback` | originals on their way, the texture registry with its delays, `ViewerState`, what the picture shows | zoom factors and bounds: one transform |
| `Shell` | route, model of the unlocked session, jobs, handles handed out and live ones, shortcuts | search, selection, texts |
| `ObjectFile` | the file of an object as cells (preamble, sealed header, bytes, tags), the reader with its position and cached chunk; damage, truncation, exchange of chunks and of files | ideal sealing |
| `HeaderFormat` | the fields of a header, its associated data, `CredentialInput`; alterations of any field | ideal sealing and hashing |
| `WireFormat` | a frame byte by byte, one damaged byte or a cut | size of the payload limit |
| `ImageProbe` | the segments of a file read one at a time, what each scanner notes; checked against a definition of a good file by positions of segments (`Orderly`, `Complete`, `Stated`) | bytes inside a segment; the profile flag of WebP |
| `ImageRendition` | an image, a request, the answer of an honest helper or any other (`Forge`), the broker's checks | pixels; the delays behind the second |

## 3. Runs

In the vault runs, `o1` is an original, `t1`, `t2` are thumbnails; each role has one
shard directory. `Faults` names what the environment may do: `io` (any system
call fails), `commit` (a log sync fails), `read` (the scan meets a transient
error), `kill`, `power`, `damage` (a ciphertext is removed or altered). In the
worker runs `rogue` is a helper that sends what it likes; the others name what
fails or expires. In the desktop runs they name the call that may fail.

| run | instance | distinct states | shows |
|---|---|---|---|
| `VaultCrash` | 1 process, o1 t1 t2, 1 medium; io kill power damage | 1,266,378 | types, `DurableReference`, `CleanMeansRepaired`, `NoCleanupConflict`, `IntentOutlivesCiphertext`, `DamagedWasHarmed` |
| `VaultDoubt` | 1 process, o1 t1 t2, 1 medium; io kill commit read | 191,971 | `AbstractSpec` (refinement), `LibraryWellFormed`, `KeyDropLeavesIntent`, `CleanMeansSwept` |
| `VaultConverge` | 2 processes, o1 t1, 1 medium; io kill power; fair | 69,124 | `RecoveryConverges`, `ReaderIsolation`, `ReaderSeesRepaired` |
| `WorkerReturns` | 2 chunks, results of 1, streams of 1, 1 restart; all faults; fair | 397,029 | types, `AcceptedMeansFinished`, `ResultIsWhole`, `TransformOnlyWhole`, `LockedMeansLocked`, `RetryOnlyInHandshake`, `AbstractSpec` (refinement), `HonestCallReturns`, `DeadlineEnds`, `CancellationEnds` |
| `Desktop` | 2 sessions, 2 preparations of one file, 2 timers, 4 channels; open image publish thumbnail broker | 1,075,128 | types, `LockedIsBlank`, `DecisionIsPreviewed`, `ViewIsCurrent`, `NoSilentDuplicate`, `OwnerSpec` (refinement) |
| `DesktopLive` | the same bounds, choosers of a place and of an image; list read; fair | 192,324 | `RevokedSessionEnds`, `AuthorityReleased`, `BrokerReaped` |
| `Parts` | see below | 1,754,458 | the properties of the thirteen components |
| `VaultCommitSync` | 1 process, o1; commit kill | finding | `DurableReference` is violated |
| `VaultUnlinkSync` | 1 process, o1; io power | finding | `CleanMeansNoOrphan` is violated |
| `DesktopQuit` | 1 session, no fault | finding | `QuitAfterClose` is violated |
| `DesktopPortal` | 1 session; broker; fair | finding | `BrokerReaped` is violated |
| `BackupPartial` | 2 sessions of a writer; io kill power | finding | `PartialBackupFailsClosed` is violated |

The properties of `Parts` are conjunctions, by what they protect: `RewrapIsSafe`;
`ReportedIsDone` (creation, backup, file names, transfers); `GalleriesHold`;
`ScreenIsTrue` (tiles, listings, viewer); `ShellIsAccounted`; `BytesReadBack` (objects,
headers, frames); `ImagesAgree` (probe, judgement, sizes). Beside the definition
that each conjunct depends on stands a mutant that breaks it; `PROJECT.json` names
one for each property.

*Why these bounds are enough.*

* Vault. A writer is alone, so one process exercises all of its code, and a second
  one is needed only for readers and for competing openers. One medium with two
  thumbnails gives a replacement (old object dropped, new one kept), a deletion of
  several objects, and a cleanup that is interrupted between two of its targets.
  Nothing bounds the number of crashes, reopens or operations: identifiers are
  recycled when their traces are gone, so sessions go on for ever in a finite state
  space. Symmetry is used for safety and step properties only, never in the
  liveness run.
* Worker. One restart gives an attempt after a failed one. With streams of one frame
  the input of two chunks and its end, and the result with its end and `Complete`, are
  each longer than the stream that carries them, and either side may be stuck.
  A rogue helper sends every frame of its kinds with numbers up to one more than the
  output may hold, at any time. Calls follow each other without bound; a call leaves
  nothing but the flag and the session's degraded mark.
* Desktop. Two sessions are an old one and its successor, while the old one may still
  run; two preparations of one content are an import and a duplicate, or a preview
  and the one that replaces it. `MaxWork` bounds the sum: one session with two
  preparations, or two with one. Two timers at a time are the least that can
  overtake each other; a step that needs a third waits (`Crowded`), which bounds the
  interleavings and is not in the code. Four channels leave room for two timers and for
  the answers whose timer is gone.
* Parts. Rewrap: three credentials, so that one change follows another. Creation: two
  creators and an opener. Backup: two sessions of a writer around the copy. Files: two
  inodes, one retired name, one process number that recurs. Galleries: three galleries
  and an image, the least with a cycle of three edges. View: two sessions, two
  revisions, two tiles, with a folder in a folder. Viewer: pictures of one, two and
  three frames, two requests. Shell: two jobs, four generations. Objects: lengths
  to 4 with chunks of 2 (empty, partial, exact and last full chunk), two objects so that
  chunks can be exchanged, one damage. Headers: one alteration of any field, at most one
  symbol in password and key file, which is enough to move the boundary between them. Frames: the
  numbers 0, 3 and 513 (a carry into the second byte), payloads below, at and above the
  limit. Probe: five segments, which hold an animation of two frames in
  each format that has them. Renditions: sides 1, 3 and 5 against edges up to 3, where a side
  rounds to a half or vanishes; a helper that lies twice (`MaxLies`), each time about one field,
  with the lengths and the total left as they are or made to fit. That is enough for the checks of
  the broker to stand each on its own: with any one of fourteen of them dropped or altered TLC finds
  a lie that passes. The proof has no such bound.

*Which faults a property is checked under.* `DurableReference` and
`IntentOutlivesCiphertext` are false with `commit` (first finding), and
`DamagedWasHarmed` with `read` (section 4); the passing runs leave that fault
out. `CleanMeansSwept` speaks of the visible directories, and its run has no
power loss (second finding). No run has `commit` and `power` together: a transaction in doubt whose
log is truncated by a later close can come back with that log after a power loss, beside a clean
marker. Readers refuse such a vault (`ReaderSeesRepaired` holds under every kind of fault, and is
proved so), the next writer finds the transaction done; `CleanMeansRepaired`,
`KeyDropLeavesIntent`, `LibraryWellFormed` and the refinement do not hold there. `BrokerReaped` is false with `broker` (fourth finding), which
`DesktopLive` leaves out. `ListingIsCurrent` excepts a listing that failed (section 4).

*Fairness of the vault* (`VaultConverge`). Weak fairness of the steps
of a call that has begun: its thread is scheduled, system calls return, and a
reader closes sooner or later. Strong fairness of `Maintain`: an idle writer is
scanned or closed again and again, since the owner thread of a session ends in
`close` (`runtime.rs`) whatever commands came before. Strong fairness of
`AcquireExclusive`: somebody opens the vault for writing when the lock is free
again and again; `flock` is nonblocking and promises no fairness of its own, so
this is an assumption about the user. The conclusion is conditional:
when from some point on no fault happens, residue (pending cleanups, staging
files, orphans) is cleared.

*Fairness of the worker session* (`WorkerReturns`). Weak fairness
of the calling thread's steps and of an honest helper's: both are scheduled,
every blocking wait of the broker polls, a transform ends because `RLIMIT_CPU`
ends it. Weak fairness of the startup deadline. The operation deadline may never
come: `HonestCallReturns` and `CancellationEnds` hold without it, and `DeadlineEnds`
speaks of calls whose deadline has passed. Nothing is assumed of a rogue helper,
which may stop for ever, nor of crashes and revocations.

*Fairness of the desktop* (`DesktopLive`, `DesktopPortal`). Weak fairness of each owner thread's steps and of the timers: the threads
are scheduled and their calls return (which is what the worker and vault runs show),
and GLib fires a timer that is due. Nothing is assumed of clicks, of the portal or of
a broker: a dialog may stay open for ever.

Deadlock is checked in the vault and worker runs. The desktop, the parts and the backup
may really stop: a window that is closed takes no step, a bounded number of
sessions, jobs or listings comes to its end, and a backup is over.

## 4. Findings

* **A sweep after a failed log sync can unlink a ciphertext that the next open
  refers to** (`VaultCommitSync`). A commit whose sync fails returns an error and
  the connection shows the old rows, but the frames may be found by the next
  open. A maintenance scan in the same session takes the new ciphertext for an
  orphan and unlinks it; after a kill the row is there and its ciphertext is
  not. ROADMAP.md:1163 promises that the catalog never refers to absent
  ciphertext after such an error. The repository's test
  (tests/vault_service.rs:818-842) drops the writer and reopens, without a scan in
  between.
* **A retried unlink is never synced** (`VaultUnlinkSync`). When the sync after an
  unlink fails, the next recovery finds no entry, returns without a sync, the
  journal entry is removed and the vault marked clean; a power loss can bring the
  ciphertext back into a clean vault. Its key is gone, so it is unreadable, but
  readers open a vault that is not repaired, against
  docs/adr/0004-vault-concurrency.md:24. The next writer sweeps it.
* **Closing the window right after a lock does not wait for the vault**
  (`DesktopQuit`). Lock takes the session out of the slot; the clean shutdown waits
  for what is in the slot (ui.rs:313) and the application ends while the owner thread
  still closes the catalog, against ROADMAP.md:1666-1669.
* **A portal broker that ends without an answer is never reaped** (`DesktopPortal`).
  The thread behind the button waits in `recvmsg` on a datagram pair, which reports
  no end of the peer (portal.rs:93); its button stays insensitive, against ADR 0012:35-36.
* **An interrupted backup can open as a clean vault** (`BackupPartial`). `copy_tree`
  copies in the order of the directory; once header, lock file and catalog are there
  the copy opens as a clean vault whose objects are missing (lib.rs:1078). The test
  `closed_backup_restores_and_partial_backup_fails_closed` interrupts the first entry only.

Divergences met while modelling, without a run of their own:

* The scan marks an object damaged on every error, also a transient one
  (osv-vault lib.rs:757); ROADMAP.md:1011 lists missing files, authenticated corruption and
  locator mismatches.
* A power loss after a clean close may bring the truncated log back beside the clean marker,
  since nothing syncs the truncation (anchored_vfs.rs:298-310); readers then refuse the vault until a
  writer has opened and closed it (`validate_catalog_sidecars`, `ReaderSeesRepaired`).
* A degradation that makes an import fail is not surfaced: the owner thread records
  the status of results only (runtime.rs:274, 342; ROADMAP.md:1841-1842). When the send of
  `Start` fails, `spawn_once` returns the status of the channel (supervisor.rs:284) and
  not the local one with what `Ready` reported.
* ADR 0012 says that overlapping choosers are disabled and that the folder's authority is
  revoked at lock; only the clicked button is insensitive, and `vault_authority` is never
  cleared. A folder answered late replaces an unlocked session without `clear_sensitive`.
* A listing that fails is not repeated: the revision is noted when the listing is asked
  for (ui.rs:1607), an error is dropped (1627), and the gallery stays as it was until the
  revision changes again (ROADMAP.md:1528-1531; `unlisted` in `GalleryView`).
* More than 10,000 images are cut from a listing without notice, and one child that is
  no image makes the whole listing fail (runtime.rs:605-622, `GalleryTree`).
* After a rewrap that failed half way the old and the new credentials both unlock; a
  session that was unlocked from the backup cannot change credentials (`HeaderRewrap`).
  On a file system that reorders unsynced renames, a rewrap begun in a directory that was
  not synced since its last rename can lose both headers; `OldOrNewUnlocks` says so in
  its premise.
* An interrupted creation leaves a directory that neither `create` nor `open` accepts
  (`VaultCreation`; nothing of a user is lost).
* The name of a retired catalog file is the process number and a counter; where numbers
  recur (a container) it can meet an older one, and the deletion fails (`CatalogFiles`).
* An imported picture can be painted over by the next frame of the animation shown before
  (ui.rs:1070 against 975-992); a revoke leaves the last transform applied (`ViewerPlayback`).
* An animation with a frame delay above a minute is imported and can never be viewed
  (`ImageRendition`).
* A finished commit hides the decision buttons of a newer preview (`Desktop`).
* Unlocking a shell that is unlocked leaves the old jobs listed as running without a
  handle (`Shell`).
* A commit in doubt that returns an error, and is repeated after reopening, may leave two
  copies without a question: `NoSilentDuplicate` has commits that succeed or fail.

## 5. Proofs

| theorem | statement | faults |
|---|---|---|
| `TypeCorrect` | `[]TypeOK` of the vault | any |
| `Excluded` | one writer alone, or readers | any |
| `Repaired` | `[]CleanMeansRepaired` | any but commit and power together |
| `ReadersSeeRepaired` | `[]ReaderSeesRepaired` | any |
| `Isolated` | `ReaderIsolation` | all but damage |
| `NeverConflicts` | `[]NoCleanupConflict` | any |
| `KeysDropSafely` | `KeyDropLeavesIntent` | any but commit and power together |
| `ReferencesDurable` | `[]DurableReference` | all but commit |
| `IntentsOutlive` | `IntentOutlivesCiphertext` | all but commit |
| `Implements` | `VaultService!Spec => AbstractSpec` | any but commit and power together |
| `CatalogFormed` | `[]LibraryWellFormed` | any but commit and power together |
| `RequestImplements` | `WorkerSession!Spec => AbstractSpec` | any |
| `AcceptedFinished` | `[]AcceptedMeansFinished` | any |
| `RetriesInHandshake` | `RetryOnlyInHandshake` | any |
| `OwnerStands` | the invariant of the owner threads | any |
| `DuplicatesAreChosen` | `[]NoSilentDuplicate` of the owner threads | any |
| `MaintenanceAddsUp` | `[]MaintenanceAccounted` of the owner threads | any |
| `DesktopImplementsOwner` | `Desktop!Spec => OwnerSpec` | any |
| `LockBlanksTheScreen` | `[]LockedIsBlank` | any |
| `DecisionsArePreviewed` | `[]DecisionIsPreviewed` | any |
| `DesktopDuplicatesAreChosen`, `DesktopMaintenanceAddsUp` | the two of the owner threads, of the application | any |
| `RewrapIsTyped` | `[]RewrapTypeOK` | any |
| `RewrapKeepsTheVault` | `[]RewrapIsSafe` | any |
| `CleanIsSwept` | `[]CleanMeansSwept` | all but power |
| `DamageIsReal` | `[]DamagedWasHarmed` | all but commit and read |
| `SessionTyped` | `[]TypeOK` of the worker session | any |
| `TransformsWhole`, `ResultsWhole` | `[]TransformOnlyWhole`, `[]ResultIsWhole` | any |
| `LocksTold` | `[]LockedMeansLocked` | any |
| `GalleryFollows` | `[]ViewIsCurrent` | all but list |
| `DesktopTyped` | `[]TypeOK` of the desktop | any |
| `ReportedHolds` | `[]ReportedIsDone` | any |
| `GalleriesAreReachable` | `[]GalleriesHold` | |
| `ScreenHolds` | `[]ScreenIsTrue` | |
| `ShellHolds` | `[]ShellIsAccounted` | |
| `ImagesHold` | `[]ImagesAgree` | any answer of the helper |
| `BytesHold` | `[]BytesReadBack` | any damage and alteration |
| `TypesHold` | `[]PartsTypeOK` | any |

`MaintenanceAccounted` (what the counters of the thumbnail maintenance add up to) is
local to one owner thread; it is proved, as part of its invariant, and no run lists it.

They hold for every value of the constants, under the named assumptions of the modules:
`CatalogAssumption` and `VaultAssumption` (roles and shards are functions of the
identifiers, `None` is no row, entry or identifier), `SessionAssumption` (sizes of streams,
chunks and restarts are numbers), `OwnerAssumption` and `DesktopAssumption` (bounds are
numbers, `None` is neither one nor a decision), `RewrapAssumption` (the first credentials are some,
and neither an absent nor a torn header is one), and those of the components of `Parts`
(`CreationAssumption`: nobody is a creator, and the opener is another process;
`CatalogFilesAssumption`, `BackupAssumption`, `ShellAssumption`: bounds are numbers;
`GalleryAssumption`: no gallery is an image; `ViewAssumption`: the catalog has a tree of
finitely many galleries at each revision, whose levels are sequences and whose top level is
not empty; `PlaybackAssumption`: an animation has a frame;
`ProbeAssumption`, `RenditionAssumption`: sizes, counts and limits are numbers, sides and the
length of a PNG are not 0, a thumbnail is no larger than the viewer's picture may be;
`ObjectFileAssumption`: a chunk is not empty; `WireAssumption`: numbers of a frame fit two bytes,
payloads and damage are bytes). In
each, `Faults` is a set of the kinds the module knows.

*The vault* has three layers, each an inductive invariant that contains the one
before (`VaultInvariants`).

1. `RepairInv`. `CleanMeansRepaired` speaks of the marker and of the catalog,
   which change at different steps, so it needs to know where each session is:
   that the marker is durably dirty between the two updates (`WorkIsDirty`), that
   recovery gets beyond the journal only when it is empty and close reaches the
   marker only after the checkpoint (`RepairOrder`), and that no second writer
   interferes (`Exclusion`). It also needs what the disk may still hold (`LogOK`, `CleanOK`): every
   catalog a power loss may leave without a log has no cleanup pending, and, unless commits may be
   in doubt, it is the catalog that shows. A reader is safe on weaker grounds, since it is not
   admitted beside a log at all (`ReaderSeesRepaired`).
2. `CleanupInv`. That a cleanup never meets a live object needs the same of the
   transaction in limbo (`JournalOK`), because the next open may adopt it, and of
   what the writer has in hand (`WorkOK`): the object being published has no row
   and no intent, the targets left to visit cover those still in the directory.
3. `DurableInv`. `DurableReference` needs to know how far a publication has come
   (`PublishOK`), and that no transaction is in limbo: the first finding shows
   that it is false otherwise.

Two more stand beside the third. `SweptInv` follows the sweep of recovery through the
directories: what is not yet swept is on the list of the step (`SweepOrder`), so that it is
finished before the scan, the checkpoint and the marker. It stands on the visible
directories, which a power loss rewinds after the marker was written (second
finding). `DamagedWasHarmed` needs `DurableInv`: a scan that finds no whole ciphertext of a row
has then found one that was harmed; with `commit` it may have been swept (first finding).

The refinement maps `library` to `rows` and `doubt` to the rows in limbo; each
commit is the abstract operation of its name, a cleanup commit settles a doubt,
open settles it either way, every other step stutters. `CatalogFormed` follows from
it: every operation of the abstract vault keeps the rows well formed, and so do the
outcomes of a doubtful one.

*The worker session.* `CallOK` says where a child may exist, which is all the
refinement needs: a helper's steps leave the call alone (`HelperKeepsCall`) and
only the broker reaps. `AcceptedMeansFinished` is not inductive: it needs that
the chunks taken are as many as the machine counts (`OutputOK`), the machine's
phase in each step (`MachineOK`) and that a class survives as `Success` only with
exit code 0 (`ClassOK`). None of this says anything of the streams' content: what
a helper sends is arbitrary.

What an honest helper sends is not, and `ResultInv` follows it through both streams. On
the way out it has to cope with a send that was given up in the middle: half a chunk
may lie in the stream only when the broker will write no more than its `Cancel`
(`SendingOK`), so a helper whose input is out of order will never find an `End` behind it
(`InputOK`). On the way back, an end of the result speaks for all chunks that were sent, and
its sender has by then read the whole input (`ResultOK`); the state of the helper's locks
travels in `Complete` alone (`LocksOK`) and joins what the broker has noted before (`ObservedOK`).
The assumption that the helper is honest stands in the properties (`rogue`), so the theorems
need none.

*The owner threads* (`OwnerInvariant`). That a duplicate is always a chosen one rests
on a decision that is made at prepare time and used at commit time. What makes it
last is that the vault has one owner (`OneHolder`), that only the owner has a
prepared import (`OnlyHolderWorks`), that it has at most one, and that nothing else
is committed in between (`PendingFresh`: a preparation that was none is still none). The counters
add up because only the owner has a queue of thumbnails (`BacklogPresent`) and each
leaves it once; `AllNumbered` keeps the commands' images in range.

*The desktop* (`DesktopSound`, `TilesPresent`). A late answer can reach the screen only through a
timer. `SoundTimer` says of every timer that its session was begun, and that it belongs
to the window's session only while that is unlocked; since Lock empties the slot and a new
session has a new number, no older timer matches it. That is enough for
`DecisionIsPreviewed`, and it gives each poller the channel it reads. A timer for an original is the
exception: a listing that is answered before the shell is unlocked has the gallery open an image
by itself. `ScreenInvariant` is about that: the session has then told that it is open
(`ReadyTold`, and `ListPoller`: a session that is opening answers no listing), so a timer that will
unlock the shell is waiting, and it stands before the one for the original
(`UnlockedFirst`). Hence `LockedIsBlank`.
`OwnerSpec` lets an interface open only images that are in the vault;
that the window keeps to it needs what it clicks on to be there still: every
listing, on its way or on the screen, names images of the vault only (`TilesPresent`), because
nothing is removed from it (`ListingsStay`). The refinement carries the invariants of
the threads over to the application.

`ViewIsCurrent` is about the order of answers. A listing is asked for when the revision has
grown, and its answer may be overtaken by the next commit; the gallery is right in the end only
because the answer to the last question arrives last. `GalleryInvariant` says why:
every answer channel has one reader and serves one question (`ChannelsApart`,
`PollersApart`), a timer of a listing has asked for it, and while nothing has changed since
the last question, the commands in the inbox, the answers in the channels and the timers
that wait for them are in the same order, those that are outdated first
(`ListingsInOrder`). It rests on what GLib promises, that timers of one interval fire in turn. A
listing that fails breaks it (section 4), and the theorem excludes that.

*Rewrap* (`RewrapInvariant`). `OldOrNewUnlocks` speaks of all directories that a power loss may leave,
so the invariant follows the header through each of them: what unlocking would try first
belongs to the old or the new credentials (`HeadersBelong`), there is something to try
(`NothingIsLost`), a session that was unlocked from the header, and alone may move it, knows
what is in it (`CurrentStands`), and each step knows which renames and syncs are behind it
(`StepsStand`).

*The components of `Parts`* are independent, so each has an inductive invariant of its own, and a
step of `Parts` is a step of one component and leaves the others alone (`StepOfAPart`).

* Creation (`CreationInvariant`). Two creators may run the same code; `mkdir` decides, and only
  one is ever beyond it (`OneCreator`). `StepsBehind` says for every step what the
  directory holds and what all the directories that a power loss may leave have in
  common: that is what each sync is for.
* Backup (`BackupInvariant`). The marker is read before the first entry is copied, under a
  lock that keeps writers out; that the source is still clean and still the same version
  at every later entry (`CopiesClean`, `CopiedSoFar`) makes the copy one of a single moment. Until
  the last sync a power loss may take the whole copy (`CopyNames`).
* Catalog files (`FilesInvariant`). That SQLite's belief about a name holds in every
  outcome of a power loss rests on one observation: a step changes one name and forgets
  what was believed of it, unless it has synced the directory (`OneNameChanges`). For the
  transfers, that pieces written one behind the other are one write (`PatchedTwice`), and
  that the pieces read so far are a beginning of the old bytes (`PiecesMoved`).
* Galleries (`ShelvesHold`). That every gallery is reachable does not survive a step by itself; that
  no galleries hold each other in a circle does, stated without paths: among any
  galleries there is one that none of the others holds (`ShelfHolds`). The cycle check
  of the code keeps it so, because the descendants of a gallery are the least set closed
  under holding. The listing shows all images if it has room for them: the theorem assumes
  that there are at most `ListLimit` (10,000 in the code, section 4).
* Gallery page (`ViewInvariant`). Answers to questions of different revisions are on their
  way at once; when the last question was about the present revision, the last answer is,
  and every other one is older and waits behind it (`ListingsInTime`). A tile shows a
  thumbnail only if its position has not changed since it was asked for.
* Viewer (`PlaybackInvariant`). The frames of an animation and the player's state belong
  together also while an imported picture covers them.
* Shell (`ShellInvariant`). The handles are those of the workers and of the jobs that run, and
  two commands never have one key, in whatever spelling it is entered.
* Probe (`ProbeInvariant`). `Noticed` says of each flag and counter of a scanner what it is a
  summary of: the places in the file where segments of some kinds stand (`Places`), how many
  there are, and the last one. A segment that is scanned adds its own place to those of its
  kind, and no other place; the segment that ends a file is of no kind that is counted. With
  that, what a scanner decides by its flags is what `Orderly` and `Complete` ask of the
  whole sequence, in both directions.
* Rendition (`RenditionInvariant`). The honest result is made of what was asked for; the delivered
  one has the fields of an answer and otherwise any values. The broker's test then
  determines every field but the length of the PNG and the delays, for which the honest answer
  with a PNG of that length is the measure (`AcceptedIsHonest`): lengths are sums of products of
  sides, and the rounding of the shorter side is bracketed from both sides (`RenditionFits`).
* Object file (`ObjectInvariant`). Whatever damages a file, a tag in it was made by the writer and
  speaks of the bytes of one chunk at one place of one source (`Cell`, `Tags`), so a chunk that
  loads is the one that was asked for, also from a file that was exchanged for another or whose
  chunks were moved (`LoadsTell`); the cache of a reader holds such a chunk or nothing
  (`ReaderHolds`). For the other direction, that an undamaged file reads back, the place of every
  cell in the writer's concatenation is computed (`EncryptedHolds`, from `FlattenUnfolds` and
  one chunk more at a time) and shown to be where `chunk_offset` looks for it.
* Header format (`FormatInvariant`). The framing with lengths in front tells any two pairs of
  password and key file apart (`CredentialsAreTold`), and every field that is read goes into the
  key or the associated data, so a header that opens is the one that was wrapped.
* Frames (`WireInvariant`). What is encoded is decoded as it was, kind by kind
  (`MessageCarried`); a frame that is accepted is the encoding of the message that it is
  decoded to, because the high bytes of its numbers, which the damage of the model spares (a
  number fits two bytes), are zero, unless another length has been stated
  (`HighBytesAreZero`, `Canonical`).
* That places in a sequence have a last one, for `LastOf`, and that chunks are joined from the
  first to the last, for `FlattenSeq`, is proved by induction over a set of numbers (`NatSets`,
  from the well-founded order of the library); the theorems with an operator as parameter are
  not needed for it. So is that the galleries GTK enters one inside the other (`Told`) are
  counted by a function at all.
* Types (`TypesHold`). What is more than bookkeeping in them: GTK's proportional selection stays
  inside a level that is replaced, whatever the two lengths (`AutoselectedFits`), also through
  the galleries that it enters on the way, and a tile keeps its position only while the level
  stays (`RecycledFits`); a write in pieces ends where the transfer does (`FilesFit`); the
  last generation of the viewer is a locked one (`PlaybackFitsStep`).

*Only model-checked:*

* liveness (`RecoveryConverges`, `HonestCallReturns`, `DeadlineEnds`, `CancellationEnds`,
  `RevokedSessionEnds`, `AuthorityReleased`, `BrokerReaped`): out of the prover's reach.

Every invariant of the passing runs is a theorem, and so is every action property and
refinement of them but those seven. The findings are TLC traces.

## 6. Not modelled

* The worker sandbox (`seccomp`, limits, allow lists): kernel configuration without a state
  of its own. Memory locking beyond its status, randomness, process hardening.
* Cryptographic primitives and image decoders are third party; sealing is ideal and
  pixels are counted. SQLite is modelled by what its log may hold after a failed sync, what of
  catalog and log a power loss may leave, and by the statements, keys and triggers the schema gives it.
* `MetadataTransaction`: gallery edits through the service are the same catalog
  transactions as in `GalleryTree`, under the lock of `VaultService`; the two are not composed.
* The checks that the vault's directory is still the one that was opened (`DirectoryBinding`): they
  guard against a directory that is exchanged under a running process.
* Search, its index queries, and the consistency report of the catalog: read-only.
* Descriptor intake, and the variants of the supervisor without a cancellation flag: the
  owner thread always passes one.
* GTK layout, texts, settings and task pages; the identifier and metadata assembly of an
  import; domain types (an empty crate); test support, fixtures, fuzz targets and prototypes.

Where it could go from here: `DurableReference` of a vault that a failed commit does not go on with, which is
what a repair of the first finding would make true; gallery edits composed with `VaultService`.

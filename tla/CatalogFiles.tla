----------------------------- MODULE CatalogFiles -----------------------------
(***************************************************************************)
(* The files of the catalog as SQLite sees them through the anchored VFS    *)
(* (crates/osv-catalog/src/anchored_vfs.rs): three fixed names in the held  *)
(* directory, deletion by renaming, and reads and writes that the kernel    *)
(* may serve in pieces.  Other processes may put something else under a     *)
(* name, calls fail, the process is replaced and the power goes.            *)
(*                                                                         *)
(* dirOutcomes holds every directory that a power loss may leave.           *)
(***************************************************************************)
EXTENDS Naturals, Sequences

CONSTANTS
  FileNames,     \* members of the vault that occur, of the three there are
  Pids,          \* process numbers; they may occur again
  MaxInodes,     \* bound: files that come to be
  MaxRetired,    \* bound: deletions of one process
  MaxBytes,      \* bound: size of a file
  FileFaults     \* what may happen: "io", "foreign", "power", "restart"

ASSUME CatalogFilesAssumption ==
  /\ FileNames \subseteq {"catalog.db", "catalog.db-wal", "catalog.db-journal"}
  /\ MaxInodes \in Nat /\ MaxRetired \in Nat /\ MaxBytes \in Nat \ {0}
  /\ FileFaults \subseteq {"io", "foreign", "power", "restart"}

Members == [member : FileNames]
RetiredNames == [pid : Pids, count : 1..MaxRetired]
NoEntry == [inode |-> 0]
File(i) == [inode |-> i, kind |-> "file"]        \* regular, one link
Foreign(i) == [inode |-> i, kind |-> "foreign"]  \* a symbolic link, or a second link

VARIABLES
  dir,          \* what each name stands for
  dirOutcomes,
  inodes,       \* inodes used so far
  bytes,        \* content of each inode
  opened,      \* inode that SQLite has open for each member, 0 for none
  process,      \* its number and its count of retired names
  told,         \* what SQLite was told of the name of each member
  transfer      \* the read or write under way, or the last one

fileVars == <<dir, dirOutcomes, inodes, bytes, opened, process, told, transfer>>

Entry == {NoEntry} \cup {File(i) : i \in 1..MaxInodes} \cup {Foreign(i) : i \in 1..MaxInodes}
DirNames == Members \cup RetiredNames
NoTransfer == [state |-> "none"]
Unknown == [known |-> FALSE]
Stands(entry) == [known |-> TRUE, entry |-> entry]

FilesInit ==
  /\ dir = [n \in DirNames |-> NoEntry] /\ dirOutcomes = {dir}
  /\ inodes = 0 /\ bytes = [i \in 1..MaxInodes |-> <<>>]
  /\ opened = [m \in Members |-> 0]
  /\ process \in [pid : Pids, retired : {0}]
  /\ told = [m \in Members |-> Unknown]
  /\ transfer = NoTransfer

Busy == transfer.state = "moving"

----------------------------------------------------------------------------
WithEntry(d, n, entry) == [d EXCEPT ![n] = entry]
Renamed(d, from, to) == IF d[from] = NoEntry THEN d
                        ELSE [d EXCEPT ![to] = d[from], ![from] = NoEntry]

\* x_open: never through a link, a new file only if SQLite wants one, and the directory
\* is synced whenever SQLite might have made one.

\* Mutant: the directory is not synced for a file that may be new.
LeaveDirectory(d) == dirOutcomes' = dirOutcomes \cup {d}

SyncNewName(d) == dirOutcomes' = {d}

OpenMember(m, create) ==
  /\ ~Busy /\ opened[m] = 0
  /\ IF dir[m] = NoEntry THEN create /\ inodes < MaxInodes ELSE dir[m].kind = "file"
  /\ LET made == dir[m] = NoEntry
         entry == IF made THEN File(inodes + 1) ELSE dir[m]
     IN /\ inodes' = IF made THEN inodes + 1 ELSE inodes
        /\ dir' = WithEntry(dir, m, entry)
        /\ opened' = [opened EXCEPT ![m] = entry.inode]
        /\ IF create THEN SyncNewName(dir') ELSE UNCHANGED dirOutcomes
        /\ told' = IF create THEN [told EXCEPT ![m] = Stands(entry)] ELSE told
  /\ UNCHANGED <<bytes, process, transfer>>

\* The name may have been made when the sync fails.
OpenFails(m) ==
  /\ "io" \in FileFaults /\ ~Busy /\ opened[m] = 0
  /\ dir[m] = NoEntry /\ inodes < MaxInodes
  /\ inodes' = inodes + 1
  /\ dir' = WithEntry(dir, m, File(inodes'))
  /\ dirOutcomes' = dirOutcomes \cup {WithEntry(d, m, File(inodes')) : d \in dirOutcomes}
  /\ told' = [told EXCEPT ![m] = Unknown]
  /\ UNCHANGED <<bytes, opened, process, transfer>>

CloseMember(m) ==
  /\ ~Busy /\ opened[m] # 0
  /\ opened' = [opened EXCEPT ![m] = 0]
  /\ UNCHANGED <<dir, dirOutcomes, inodes, bytes, process, told, transfer>>

\* x_delete: the entry is renamed to a name that is not taken, and the directory is synced
\* if SQLite asks for it.  A name that is not there counts as deleted, without a sync.
NextRetired == [pid |-> process.pid, count |-> process.retired + 1]
Retired(d, m) == Renamed(d, m, NextRetired)
RetireNew(m) == dir[NextRetired] = NoEntry /\ dir' = Retired(dir, m)

DeleteMember(m, sync) ==
  /\ ~Busy /\ process.retired < MaxRetired
  /\ process' = [process EXCEPT !.retired = @ + 1]
  /\ dir[m] # NoEntry /\ RetireNew(m)
  /\ IF sync THEN dirOutcomes' = {dir'}
             ELSE dirOutcomes' = dirOutcomes \cup {Retired(d, m) : d \in dirOutcomes}
  /\ told' = [told EXCEPT ![m] = IF sync THEN Stands(NoEntry) ELSE Unknown]
  /\ UNCHANGED <<inodes, bytes, opened, transfer>>

\* Nothing to delete, or the new name is taken: a process number that occurs again counts
\* from the start.
DeleteWithoutEffect(m) ==
  /\ ~Busy /\ process.retired < MaxRetired
  /\ dir[m] = NoEntry \/ dir[NextRetired] # NoEntry
  /\ process' = [process EXCEPT !.retired = @ + 1]
  /\ UNCHANGED <<dir, dirOutcomes, inodes, bytes, opened, told, transfer>>

DeleteSyncFails(m) ==
  /\ "io" \in FileFaults /\ ~Busy /\ process.retired < MaxRetired
  /\ dir[m] # NoEntry /\ RetireNew(m)
  /\ process' = [process EXCEPT !.retired = @ + 1]
  /\ dirOutcomes' = dirOutcomes \cup {Retired(d, m) : d \in dirOutcomes}
  /\ told' = [told EXCEPT ![m] = Unknown]
  /\ UNCHANGED <<inodes, bytes, opened, transfer>>

----------------------------------------------------------------------------
\* io_read and io_write, one call of the kernel at a time, each with some of the bytes
\* that are left.  An interrupted call changes nothing and is made again.

Zeros(n) == [k \in 1..n |-> 0]
StartTransfer(m, op, at, wanted) ==
  /\ ~Busy /\ opened[m] # 0
  /\ transfer' = [state |-> "moving", op |-> op, inode |-> opened[m], at |-> at,
                  wanted |-> wanted, done |-> 0, offset |-> at,
                  buffer |-> <<>>, before |-> bytes[opened[m]]]
  /\ UNCHANGED <<dir, dirOutcomes, inodes, bytes, opened, process, told>>

\* Mutant: every call of the kernel starts where the first one did.
StayedAt(n) == transfer.offset

Advanced(n) == transfer.offset + n

Progressed(n) == [transfer EXCEPT !.done = @ + n, !.offset = Advanced(n)]
Done(t) == IF t.done = Len(t.wanted) THEN [t EXCEPT !.state = "ok"] ELSE t
KeepNames == UNCHANGED <<dir, dirOutcomes, inodes, opened, process, told>>

ReadPiece(n) ==
  /\ Busy /\ transfer.op = "read"
  /\ n \in 1..Len(transfer.wanted) - transfer.done
  /\ transfer.offset + n <= Len(bytes[transfer.inode])
  /\ transfer' = Done([Progressed(n) EXCEPT
       !.buffer = @ \o SubSeq(bytes[transfer.inode], transfer.offset + 1, transfer.offset + n)])
  /\ KeepNames /\ UNCHANGED bytes

\* At the end of the file the rest is zero.
ReadEnds ==
  /\ Busy /\ transfer.op = "read" /\ transfer.offset >= Len(bytes[transfer.inode])
  /\ transfer' = [transfer EXCEPT !.state = "short",
       !.buffer = @ \o Zeros(Len(transfer.wanted) - transfer.done)]
  /\ KeepNames /\ UNCHANGED bytes

Patched(old, at, piece) ==
  [k \in 1..(IF at + Len(piece) > Len(old) THEN at + Len(piece) ELSE Len(old)) |->
     IF k \in at + 1..at + Len(piece) THEN piece[k - at]
     ELSE IF k <= Len(old) THEN old[k] ELSE 0]

WritePiece(n) ==
  /\ Busy /\ transfer.op = "write"
  /\ n \in 1..Len(transfer.wanted) - transfer.done
  /\ bytes' = [bytes EXCEPT ![transfer.inode] =
       Patched(@, transfer.offset, SubSeq(transfer.wanted, transfer.done + 1, transfer.done + n))]
  /\ transfer' = Done(Progressed(n))
  /\ KeepNames

\* An error, no space, or a write of no bytes.
TransferFails ==
  /\ Busy /\ "io" \in FileFaults
  /\ transfer' = [transfer EXCEPT !.state = "failed"]
  /\ KeepNames /\ UNCHANGED bytes

Truncate(m, size) ==
  /\ ~Busy /\ opened[m] # 0
  /\ bytes' = [bytes EXCEPT ![opened[m]] =
       [k \in 1..size |-> IF k <= Len(@) THEN @[k] ELSE 0]]
  /\ transfer' = NoTransfer
  /\ KeepNames

----------------------------------------------------------------------------
\* Another process puts a link under the name of a member.
PutForeign(m) ==
  /\ "foreign" \in FileFaults /\ inodes < MaxInodes
  /\ inodes' = inodes + 1
  /\ dir' = WithEntry(dir, m, Foreign(inodes'))
  /\ dirOutcomes' = dirOutcomes \cup {WithEntry(d, m, Foreign(inodes')) : d \in dirOutcomes}
  /\ told' = [told EXCEPT ![m] = Unknown]
  /\ UNCHANGED <<bytes, opened, process, transfer>>

NewProcess ==
  /\ process' \in [pid : Pids, retired : {0}]
  /\ opened' = [m \in Members |-> 0] /\ transfer' = NoTransfer

Restart ==
  /\ "restart" \in FileFaults /\ NewProcess
  /\ UNCHANGED <<dir, dirOutcomes, inodes, bytes, told>>

FilesPowerLoss ==
  /\ "power" \in FileFaults /\ NewProcess
  /\ dir' \in dirOutcomes /\ dirOutcomes' = {dir'}
  /\ UNCHANGED <<inodes, bytes, told>>

Inputs == {<<>>} \cup {<<1>>, <<1, 2>>, <<1, 2, 3>>}

FilesNext ==
  \/ \E m \in Members, flag \in BOOLEAN : OpenMember(m, flag) \/ DeleteMember(m, flag)
  \/ \E m \in Members : \/ OpenFails(m) \/ CloseMember(m) \/ DeleteWithoutEffect(m)
                        \/ DeleteSyncFails(m) \/ PutForeign(m)
  \/ \E m \in Members, op \in {"read", "write"}, at \in 0..MaxBytes, wanted \in Inputs :
       at + Len(wanted) <= MaxBytes /\ wanted # <<>> /\ StartTransfer(m, op, at, wanted)
  \/ \E n \in 1..MaxBytes : ReadPiece(n) \/ WritePiece(n)
  \/ \E m \in Members, size \in 0..MaxBytes : Truncate(m, size)
  \/ ReadEnds \/ TransferFails \/ Restart \/ FilesPowerLoss

----------------------------------------------------------------------------
FilesTypeOK ==
  /\ dir \in [DirNames -> Entry] /\ inodes \in 0..MaxInodes
  /\ \A i \in 1..MaxInodes : Len(bytes[i]) <= MaxBytes
  /\ opened \in [Members -> 0..MaxInodes]
  /\ process \in [pid : Pids, retired : 0..MaxRetired]
  /\ transfer.state \in {"none", "moving", "ok", "short", "failed"}

\* What SQLite relies on when it orders its writes: a file that it was allowed to make is
\* there, and a journal that it deleted with a sync is gone, whatever a power loss takes
\* and whatever process comes next.
NamesAreDurable ==
  \A m \in Members : told[m].known => \A d \in dirOutcomes \cup {dir} : d[m] = told[m].entry

\* A read or write that succeeds moved every byte to its place, a short read is the rest of
\* the file and zeros, in however many pieces the kernel served them.
TransfersAreWhole ==
  transfer.state \in {"ok", "short"} =>
    LET old == transfer.before
        span == [k \in 1..Len(transfer.wanted) |->
                   IF transfer.at + k <= Len(old) THEN old[transfer.at + k] ELSE 0]
    IN IF transfer.op = "read" THEN transfer.buffer = span
       ELSE bytes[transfer.inode] = Patched(old, transfer.at, transfer.wanted)

----------------------------------------------------------------------------
\* The inductive invariant.

FilesTyped ==
  /\ dir \in [DirNames -> Entry] /\ dirOutcomes \subseteq [DirNames -> Entry]
  /\ inodes \in 0..MaxInodes /\ opened \in [Members -> 0..MaxInodes]
  /\ process \in [pid : Pids, retired : 0..MaxRetired]
  /\ DOMAIN told = Members
  /\ DOMAIN bytes = 1..MaxInodes /\ \A i \in 1..MaxInodes : bytes[i] \in Seq(Nat)

Transfers ==
  [state : {"moving", "ok", "short", "failed"}, op : {"read", "write"}, inode : 1..MaxInodes,
   at : Nat, wanted : Seq(Nat), done : Nat, offset : Nat, buffer : Seq(Nat), before : Seq(Nat)]

\* Between the calls of the kernel: the pieces moved so far are those that one call would
\* have moved.
ReadSoFar(t) ==
  /\ bytes[t.inode] = t.before
  /\ Len(t.buffer) = t.done /\ (t.done = 0 \/ t.at + t.done <= Len(t.before))
  /\ \A k \in 1..t.done : t.buffer[k] = t.before[t.at + k]
WrittenSoFar(t) ==
  bytes[t.inode] = IF t.done = 0 THEN t.before
                   ELSE Patched(t.before, t.at, SubSeq(t.wanted, 1, t.done))

PiecesMoved ==
  /\ transfer \in {NoTransfer} \cup Transfers
  /\ transfer.state = "moving" =>
       /\ transfer.done <= Len(transfer.wanted)
       /\ transfer.offset = transfer.at + transfer.done
       /\ IF transfer.op = "read" THEN ReadSoFar(transfer) ELSE WrittenSoFar(transfer)

FilesInvariant == FilesTyped /\ NamesAreDurable /\ PiecesMoved /\ TransfersAreWhole
=============================================================================

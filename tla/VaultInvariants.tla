-------------------------- MODULE VaultInvariants ---------------------------
(***************************************************************************)
(* The inductive invariant of VaultService: what holds at each step of a    *)
(* session, from which the safety properties follow.  Each part adds what  *)
(* the parts before it cannot carry through a step by themselves.          *)
(***************************************************************************)
EXTENDS VaultService

\* One writer alone, or any number of readers: the lock on vault.lock.
Exclusion ==
  \A p, q \in Procs : p # q /\ pc[p] \in ExclusiveSteps => pc[q] = "closed"

\* The call that a step belongs to.
ContextOK(p) ==
  /\ pc[p] \in {"closed"} \cup SharedSteps => ctx[p] = "none"
  /\ pc[p] = "locked" => ctx[p] = "open"
  /\ pc[p] = "checkpoint" => ctx[p] = "close"
  /\ pc[p] \in MarkerSteps => ctx[p] \in {"open", "close"}

\* Between the two marker updates of a session the vault is dirty on disk.
WorkIsDirty(p) ==
  /\ pc[p] \in {"idle", "checkpoint"} \cup RecoverySteps \cup PublishSteps
       => marker = "D" /\ markerDisk = {"D"}
  /\ pc[p] = "written" /\ ctx[p] = "open" => marker = "D"

\* Recovery gets beyond the journal only when it is empty, and close marks the
\* vault clean only after the log is checkpointed.
RepairOrder(p) ==
  /\ \/ pc[p] \in {"staging", "stagingUnlinked", "orphans", "scan", "checkpoint"}
     \/ pc[p] = "unlinked" /\ op[p] = None
     => journal = {}
  /\ pc[p] \in MarkerSteps /\ ctx[p] = "close"
       => journal = {} /\ limbo = {} /\ ~wal

\* No transaction is left in doubt, or no power loss brings one back.
Certain == "commit" \notin Faults \/ "power" \notin Faults

\* What the log and the disk hold of the catalog: without a log no cleanup is
\* pending, and as long as no commit is in doubt a power loss changes nothing but
\* the log.
LogOK ==
  /\ limbo # {} => wal
  /\ \A c \in catalogDisk \cup {Shown} : ~c.wal => c.journal = {}
  /\ "power" \notin Faults => catalogDisk = {}
  /\ "commit" \notin Faults =>
       limbo = {} /\ \A c \in catalogDisk : c.rows = rows /\ c.journal = journal

CleanOK ==
  "C" \in markerDisk \cup {marker} => limbo = {} /\ (Certain => journal = {})

RepairInv ==
  /\ TypeOK
  /\ Exclusion
  /\ LogOK
  /\ CleanOK
  /\ \A p \in Procs :
       /\ ContextOK(p) /\ WorkIsDirty(p) /\ RepairOrder(p)
       /\ pc[p] = "reading" => ~wal

-----------------------------------------------------------------------------
\* No cleanup is pending for an object that the catalog refers to.
Disjoint(r, j) == \A e \in j : e.targets \cap Referenced(r) = {}

\* Every key that c lacks has its cleanup intent in c.
KeysAccounted(c) ==
  \A id \in Referenced(rows) \ Referenced(c.rows) :
    \E e \in c.journal : id \in e.targets

\* Also when the log of a failed commit is found again, or that of another moment
\* after a power loss.
JournalOK ==
  /\ Disjoint(rows, journal)
  /\ \A c \in limbo : Disjoint(c.rows, c.journal) /\ KeysAccounted(c)
  /\ \A c \in catalogDisk : Disjoint(c.rows, c.journal)

\* What a writer works on: an object that nothing refers to yet, an entry that
\* is in the journal with the targets it has not unlinked yet, ciphertexts that
\* no row refers to.
WorkOK(p) ==
  /\ pc[p] \in PublishSteps => NoTrace(rows, journal, obj[p])
  /\ \/ pc[p] = "cleanup"
     \/ pc[p] = "unlinked" /\ op[p] # None
     => /\ op[p] \in journal
        /\ todo[p] \subseteq op[p].targets
        /\ op[p].targets \cap files \subseteq todo[p]
  /\ pc[p] = "unlinked" => obj[p] \notin files
  /\ pc[p] = "orphans" => op[p] = None
  /\ \/ pc[p] = "orphans"
     \/ pc[p] = "unlinked" /\ op[p] = None
     => todo[p] \cap Referenced(rows) = {}

CleanupInv == RepairInv /\ JournalOK /\ \A p \in Procs : WorkOK(p)

-----------------------------------------------------------------------------
\* How far the ciphertext of a new object is on its way to the disk.
PublishOK(p) ==
  /\ pc[p] \in {"staged", "renamed", "placed", "durable"} => obj[p] \in synced
  /\ pc[p] \in {"renamed", "placed", "durable"} => obj[p] \in files \cup corrupt
  /\ pc[p] \in {"placed", "durable"} => obj[p] \notin unsynced

DurableInv ==
  CleanupInv /\ limbo = {} /\ DurableReference /\ \A p \in Procs : PublishOK(p)

-----------------------------------------------------------------------------
Swept == staging = {} /\ files \subseteq Referenced(rows)

\* How far recovery has swept the directories, and that close marks the vault
\* clean only after the whole sweep.
SweepOrder(p) ==
  /\ pc[p] \in {"staging", "stagingUnlinked"} => staging \subseteq todo[p]
  /\ \/ pc[p] = "orphans"
     \/ pc[p] = "unlinked" /\ op[p] = None
     => staging = {} /\ files \subseteq Referenced(rows) \cup todo[p]
  /\ \/ pc[p] \in {"scan", "checkpoint"}
     \/ pc[p] \in MarkerSteps /\ ctx[p] = "close"
     => Swept

SweptInv == CleanupInv /\ CleanMeansSwept /\ \A p \in Procs : SweepOrder(p)
=============================================================================

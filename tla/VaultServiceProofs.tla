------------------------- MODULE VaultServiceProofs -------------------------
(***************************************************************************)
(* Proofs about VaultService, for every set of processes, objects, media   *)
(* and shards, and every kind of fault unless a theorem says otherwise.    *)
(***************************************************************************)
EXTENDS VaultInvariants, TLAPS

USE DEF Steps, ExclusiveSteps, SharedSteps, RecoverySteps, PublishSteps,
        MarkerSteps, Contexts

-----------------------------------------------------------------------------
(* What the helpers do to the types. *)

\* A change to the rows made by a transaction gives rows again.
LEMMA DropType ==
  ASSUME NEW r \in Rows, NEW objects PROVE DropRows(r, objects) \in Rows
BY DEF DropRows, Rows

\* Inserting and replacing rows gives rows.
LEMMA RowsType ==
  ASSUME NEW r \in Rows, NEW id \in Ids
  PROVE  /\ id \in Referenced(r) => MarkDamaged(r, id) \in Rows
         /\ \A m \in Media : /\ InsertRow(r, id, m) \in Rows
                             /\ ReplaceDerived(r, id, m) \in Rows
<1>1. ASSUME NEW s \in Rows, NEW m \in Media PROVE InsertRow(s, id, m) \in Rows
  BY DEF InsertRow, Rows, Row, ObjectState
<1>2. id \in Referenced(r) => MarkDamaged(r, id) \in Rows
  BY DEF MarkDamaged, Referenced, Rows, Row, ObjectState
<1>3. QED
  BY <1>1, <1>2, DropType DEF ReplaceDerived

\* The media of the catalog are media.
LEMMA MediaInType ==
  ASSUME NEW r \in Rows PROVE MediaIn(r) \subseteq Media
BY DEF MediaIn, Referenced, Rows, Row

\* A commit, successful or not, keeps the types of the catalog.
LEMMA CommitType ==
  ASSUME CatalogTypeOK, NEW r \in Rows, NEW j \in SUBSET Entry,
         Commit(r, j) \/ CommitFails(r, j)
  PROVE  CatalogTypeOK'
<1> DEFINE Disks == [rows : Rows, journal : SUBSET Entry, wal : BOOLEAN]
<1>0. Logged(r, j) \in Disks /\ (rows \in Rows /\ journal \in SUBSET Entry => Logged(rows, journal) \in Disks)
  BY DEF Logged
<1>1. CASE Commit(r, j)
  BY <1>0, <1>1 DEF CatalogTypeOK, Commit, OnDisk
<1>2. CASE CommitFails(r, j)
  <2>1. [rows |-> r, journal |-> j] \in [rows : Rows, journal : SUBSET Entry]
    OBVIOUS
  <2>2. limbo' \in SUBSET [rows : Rows, journal : SUBSET Entry]
    BY <1>2, <2>1 DEF CommitFails
  <2>3. catalogDisk' \in SUBSET Disks
    BY <1>0, <1>2 DEF CatalogTypeOK, CommitFails, OnDisk
  <2>4. QED
    BY <1>2, <2>2, <2>3 DEF CatalogTypeOK, CommitFails
<1>3. QED
  BY <1>1, <1>2

\* The helpers that end a call or start a phase keep the session typed.
LEMMA RestType ==
  ASSUME TypeOK, NEW p \in Procs, NEW step \in {"closed", "idle", "reading", "dropped"},
         Rest(p, step)
  PROVE  SessionTypeOK'
BY DEF TypeOK, SessionTypeOK, Rest

\* The same of an error that ends a call.
LEMMA AbortType ==
  ASSUME TypeOK, NEW p \in Procs, Abort(p)
  PROVE  SessionTypeOK'
BY RestType DEF Abort

\* The same of a phase of recovery that starts.
LEMMA VisitType ==
  ASSUME TypeOK, NEW p \in Procs, NEW objects \in SUBSET Ids,
         NEW step \in {"journal", "staging", "orphans", "scan"},
         Visit(p, step, objects)
  PROVE  SessionTypeOK'
BY DEF TypeOK, SessionTypeOK, Visit

-----------------------------------------------------------------------------
(* Type correctness. *)

\* Every step preserves the types.
LEMMA TypeStep == TypeOK /\ [Next]_vars => TypeOK'
<1> SUFFICES ASSUME TypeOK, [Next]_vars PROVE TypeOK'
  OBVIOUS
<1> USE DEF TypeOK, CatalogTypeOK, StoreTypeOK, MarkerTypeOK, SessionTypeOK,
            catalogVars, storeVars, markerVars, sessionVars
<1>1. ASSUME NEW p \in Procs, AcquireShared(p) PROVE TypeOK'
  BY <1>1 DEF AcquireShared, Move
<1>2. ASSUME NEW p \in Procs, AdmitReader(p) PROVE TypeOK'
  BY <1>2, RestType DEF AdmitReader
<1>3. ASSUME NEW p \in Procs, CloseReader(p) PROVE TypeOK'
  BY <1>3, RestType DEF CloseReader
<1>4. ASSUME NEW p \in Procs, AcquireExclusive(p) PROVE TypeOK'
  BY <1>4 DEF AcquireExclusive
<1>5. ASSUME NEW p \in Procs, OpenCatalog(p) PROVE TypeOK'
  BY <1>5 DEF OpenCatalog, Move, OnDisk, Shown
<1>6. ASSUME NEW p \in Procs, TruncateMarker(p) PROVE TypeOK'
  BY <1>6 DEF TruncateMarker, Move
<1>7. ASSUME NEW p \in Procs, WriteMarker(p) PROVE TypeOK'
  BY <1>7 DEF WriteMarker, Move
<1>8. ASSUME NEW p \in Procs, SyncMarker(p) PROVE TypeOK'
  BY <1>8, RestType DEF SyncMarker, Move
<1>9. ASSUME NEW p \in Procs, StageObject(p) PROVE TypeOK'
  BY <1>9 DEF StageObject
<1>10. ASSUME NEW p \in Procs, SyncCiphertext(p) PROVE TypeOK'
  BY <1>10 DEF SyncCiphertext, Move
<1>11. ASSUME NEW p \in Procs, RenameObject(p) PROVE TypeOK'
  BY <1>11 DEF RenameObject, Move
<1>12. ASSUME NEW p \in Procs, SyncFinal(p) PROVE TypeOK'
  BY <1>12 DEF SyncFinal, Move, SyncShardOf
<1>13. ASSUME NEW p \in Procs, SyncStagingDirectory(p) PROVE TypeOK'
  BY <1>13, AbortType DEF SyncStagingDirectory, Move
<1>14. ASSUME NEW p \in Procs, CommitImport(p) PROVE TypeOK'
  <2>1. PICK m \in Media : LET new == InsertRow(rows, obj[p], m)
                          IN  Commit(new, journal) \/ CommitFails(new, journal)
    BY <1>14 DEF CommitImport
  <2>2. CatalogTypeOK'
    BY <1>14, <2>1, CommitType, RowsType DEF CommitImport
  <2>3. QED
    BY <1>14, <2>2, RestType DEF CommitImport
<1>15. ASSUME NEW p \in Procs, CommitReplace(p) PROVE TypeOK'
  <2>1. PICK m \in MediaIn(rows) :
          LET new == ReplaceDerived(rows, obj[p], m)
              e   == CleanupIntent(obj[p], Replaced(rows, obj[p], m))
          IN  \/ /\ Commit(new, journal \cup {e})
                 /\ pc' = [pc EXCEPT ![p] = "cleanup"]
                 /\ op' = [op EXCEPT ![p] = e]
                 /\ todo' = [todo EXCEPT ![p] = e.targets]
                 /\ obj' = [obj EXCEPT ![p] = None]
                 /\ UNCHANGED ctx
              \/ CommitFails(new, journal \cup {e}) /\ Abort(p)
    BY <1>15 DEF CommitReplace
  <2> DEFINE e == CleanupIntent(obj[p], Replaced(rows, obj[p], m))
  <2>2. m \in Media
    BY <2>1, MediaInType
  <2>3. e \in Entry /\ e.targets \in SUBSET Ids
    BY <1>15 DEF CommitReplace, CleanupIntent, Entry, Replaced, ObjectsOf, Referenced
  <2>4. ReplaceDerived(rows, obj[p], m) \in Rows
    BY <1>15, <2>2, RowsType DEF CommitReplace
  <2>5. CatalogTypeOK'
    BY <2>1, <2>3, <2>4, CommitType
  <2>6. SessionTypeOK'
    BY <2>1, <2>3, AbortType
  <2>7. QED
    BY <1>15, <2>5, <2>6 DEF CommitReplace
<1>16. ASSUME NEW p \in Procs, RejectCommit(p) PROVE TypeOK'
  BY <1>16, AbortType DEF RejectCommit
<1>17. ASSUME NEW p \in Procs, DeleteMedia(p) PROVE TypeOK'
  <2>1. PICK m \in MediaIn(rows) :
          LET e   == CleanupIntent(m, ObjectsOf(rows, m))
              new == DropRows(rows, e.targets)
          IN  \/ /\ Commit(new, journal \cup {e})
                 /\ pc' = [pc EXCEPT ![p] = "cleanup"]
                 /\ ctx' = [ctx EXCEPT ![p] = "op"]
                 /\ op' = [op EXCEPT ![p] = e]
                 /\ todo' = [todo EXCEPT ![p] = e.targets]
                 /\ UNCHANGED obj
              \/ CommitFails(new, journal \cup {e}) /\ Rest(p, "idle")
    BY <1>17 DEF DeleteMedia
  <2> DEFINE e == CleanupIntent(m, ObjectsOf(rows, m))
  <2>2. e \in Entry /\ e.targets \in SUBSET Ids
    BY <2>1, MediaInType DEF CleanupIntent, Entry, ObjectsOf, Referenced
  <2>3. DropRows(rows, e.targets) \in Rows
    BY DropType
  <2>4. CatalogTypeOK'
    BY <2>1, <2>2, <2>3, CommitType
  <2>5. SessionTypeOK'
    BY <2>1, <2>2, RestType
  <2>6. QED
    BY <1>17, <2>4, <2>5 DEF DeleteMedia
<1>18. ASSUME NEW p \in Procs, UnlinkCiphertext(p) PROVE TypeOK'
  BY <1>18 DEF UnlinkCiphertext
<1>19. ASSUME NEW p \in Procs, SyncUnlinked(p) PROVE TypeOK'
  BY <1>19 DEF SyncUnlinked, SyncShardOf
<1>20. ASSUME NEW p \in Procs, RemoveOperation(p) PROVE TypeOK'
  <2>1. CatalogTypeOK'
    BY <1>20, CommitType DEF RemoveOperation
  <2>2. SessionTypeOK'
    BY <1>20, RestType, AbortType, VisitType DEF RemoveOperation
  <2>3. QED
    BY <1>20, <2>1, <2>2 DEF RemoveOperation
<1>21. ASSUME NEW p \in Procs, Maintain(p) PROVE TypeOK'
  BY <1>21 DEF Maintain
<1>22. ASSUME NEW p \in Procs, RecoverEntry(p) PROVE TypeOK'
  BY <1>22 DEF RecoverEntry, Entry
<1>23. ASSUME NEW p \in Procs, TakeInventory(p) PROVE TypeOK'
  BY <1>23, VisitType DEF TakeInventory
<1>24. ASSUME NEW p \in Procs, UnlinkStaging(p) PROVE TypeOK'
  BY <1>24 DEF UnlinkStaging
<1>25. ASSUME NEW p \in Procs, SyncStagingUnlinked(p) PROVE TypeOK'
  BY <1>25 DEF SyncStagingUnlinked, Move
<1>26. ASSUME NEW p \in Procs, SweepOrphans(p) PROVE TypeOK'
  BY <1>26, VisitType DEF SweepOrphans
<1>27. ASSUME NEW p \in Procs, BeginScan(p) PROVE TypeOK'
  BY <1>27, VisitType DEF BeginScan, Referenced
<1>28. ASSUME NEW p \in Procs, ScanObject(p) PROVE TypeOK'
  <2>1. PICK id \in todo[p] :
          LET new  == MarkDamaged(rows, id)
              GoOn == Visit(p, "scan", todo[p] \ {id})
          IN  \/ GoOn /\ UNCHANGED catalogVars
              \/ /\ id \in Referenced(rows)
                 /\ \/ Commit(new, journal) /\ GoOn
                    \/ CommitFails(new, journal) /\ Abort(p)
    BY <1>28 DEF ScanObject
  <2>2. id \in Referenced(rows) => MarkDamaged(rows, id) \in Rows
    BY RowsType
  <2>3. CatalogTypeOK'
    BY <2>1, <2>2, CommitType
  <2>4. SessionTypeOK'
    BY <2>1, VisitType, AbortType
  <2>5. QED
    BY <1>28, <2>3, <2>4 DEF ScanObject
<1>29. ASSUME NEW p \in Procs, EndRecovery(p) PROVE TypeOK'
  BY <1>29, RestType DEF EndRecovery, Move
<1>30. ASSUME NEW p \in Procs, CloseCatalog(p) PROVE TypeOK'
  <2> DEFINE Disks == [rows : Rows, journal : SUBSET Entry, wal : BOOLEAN]
  <2>1. Shown \in Disks
    BY DEF Shown
  <2>2. [Shown EXCEPT !.wal = FALSE] \in Disks
    BY <2>1
  <2>3. InLimbo \subseteq Disks
    <3>1. ASSUME NEW c \in limbo PROVE Logged(c.rows, c.journal) \in Disks
      <4>1. c.rows \in Rows /\ c.journal \in SUBSET Entry
        BY <3>1
      <4>2. QED
        BY <4>1 DEF Logged
    <3>2. QED
      BY <3>1 DEF InLimbo
  <2>4. catalogDisk' \in SUBSET Disks
    BY <1>30, <2>1, <2>2, <2>3 DEF CloseCatalog, OnDisk
  <2>5. QED
    BY <1>30, <2>4 DEF CloseCatalog, Move
<1>31. ASSUME NEW p \in Procs, Fail(p) PROVE TypeOK'
  BY <1>31, AbortType DEF Fail
<1>32. ASSUME NEW p \in Procs, Kill(p) PROVE TypeOK'
  BY <1>32, RestType DEF Kill
<1>33. CASE PowerLoss
  BY <1>33 DEF PowerLoss
<1>34. ASSUME NEW id \in Ids, Harm(id) PROVE TypeOK'
  BY <1>34 DEF Harm
<1>35. CASE UNCHANGED vars
  BY <1>35 DEF vars
<1>36. ASSUME NEW p \in Procs, DropService(p) PROVE TypeOK'
  BY <1>36, RestType DEF DropService
<1>37. ASSUME NEW p \in Procs, Disconnect(p) PROVE TypeOK'
  BY <1>37, RestType DEF Disconnect
<1>38. QED
  BY <1>1, <1>2, <1>3, <1>4, <1>5, <1>6, <1>7, <1>8, <1>9, <1>10, <1>11, <1>12, <1>13, <1>14, <1>15, <1>16, <1>17, <1>18, <1>19, <1>20, <1>21, <1>22, <1>23, <1>24, <1>25, <1>26, <1>27, <1>28, <1>29, <1>30, <1>31, <1>32, <1>33, <1>34, <1>35, <1>36, <1>37
  DEF Next, Service, Open, Mark, Publish, Transact, Cleanup, Recover, Leave,
      Environment

\* Every reachable state is well typed, whatever the sets of processes, objects,
\* media and faults: a step that publishes has an object identifier at hand and
\* one that cleans up a journal entry.
THEOREM TypeCorrect == Spec => []TypeOK
<1>1. Init => TypeOK
  BY DEF Init, TypeOK, CatalogTypeOK, StoreTypeOK, MarkerTypeOK, SessionTypeOK,
         Rows, Shown, Logged
<1>2. QED
  BY <1>1, TypeStep, PTL DEF Spec

-----------------------------------------------------------------------------
(* The lock, and the order of the repairs of a session and its marker. *)

\* A commit, successful or not, leaves a log, so it keeps LogOK whatever it writes.
LEMMA CommitLog ==
  ASSUME CatalogTypeOK, LogOK, NEW r, NEW j, Commit(r, j) \/ CommitFails(r, j)
  PROVE  LogOK' /\ wal'
<1>1. Logged(r, j).wal /\ Logged(rows, journal).wal
  BY DEF Logged
<1>2. Shown'.wal = wal'
  BY DEF Shown
<1>3. CASE Commit(r, j)
  <2>1. wal' /\ limbo' = {} /\ rows' = r /\ journal' = j /\ Shown'.wal
    BY <1>2, <1>3 DEF Commit
  <2>2. catalogDisk' = IF "power" \in Faults THEN {Logged(r, j)} ELSE {}
    BY <1>3 DEF Commit, OnDisk
  <2>3. Logged(r, j).rows = r /\ Logged(r, j).journal = j
    BY DEF Logged
  <2>4. QED
    BY <1>1, <2>1, <2>2, <2>3 DEF LogOK
<1>4. CASE CommitFails(r, j)
  <2>1. wal' /\ "commit" \in Faults /\ Shown'.wal
    BY <1>2, <1>4 DEF CommitFails
  <2>2. catalogDisk' = IF "power" \in Faults
          THEN catalogDisk \cup {Logged(rows, journal), Logged(r, j)} ELSE {}
    BY <1>4 DEF CommitFails, OnDisk
  <2>3. QED
    BY <1>1, <2>1, <2>2 DEF LogOK
<1>5. QED
  BY <1>3, <1>4

\* The same of the steps that replace a derived object and remove an intent.
LEMMA WorkLog ==
  ASSUME CatalogTypeOK, LogOK, NEW p \in Procs, CommitReplace(p) \/ RemoveOperation(p)
  PROVE  LogOK' /\ wal'
<1>1. ASSUME CommitReplace(p) PROVE \E r, j : Commit(r, j) \/ CommitFails(r, j)
  BY <1>1 DEF CommitReplace
<1>2. ASSUME RemoveOperation(p) PROVE \E r, j : Commit(r, j) \/ CommitFails(r, j)
  BY <1>2 DEF RemoveOperation
<1>3. QED
  BY <1>1, <1>2, CommitLog

\* Every step, faults of every kind included, preserves RepairInv.
LEMMA RepairStep == RepairInv /\ [Next]_vars => RepairInv'
<1> DEFINE Kept(p) == /\ ContextOK(p) /\ WorkIsDirty(p) /\ RepairOrder(p)
                      /\ pc[p] = "reading" => ~wal
           Goal == /\ Exclusion' /\ LogOK' /\ CleanOK'
                   /\ \A p \in Procs : Kept(p)'
<1> SUFFICES ASSUME RepairInv, [Next]_vars PROVE Goal
  BY TypeStep DEF RepairInv
<1> USE DEF RepairInv, Exclusion, LogOK, CleanOK, Certain, ContextOK, WorkIsDirty,
            RepairOrder, TypeOK, CatalogTypeOK, MarkerTypeOK, SessionTypeOK,
            catalogVars, markerVars, Move, Rest, Abort, Visit, Commit,
            CommitFails, OnDisk, Shown, Logged, InLimbo
<1>1. ASSUME NEW p \in Procs, AcquireShared(p) PROVE Goal
  BY <1>1 DEF AcquireShared
<1>2. ASSUME NEW p \in Procs, AdmitReader(p) PROVE Goal
  BY <1>2 DEF AdmitReader
<1>3. ASSUME NEW p \in Procs, CloseReader(p) PROVE Goal
  BY <1>3 DEF CloseReader
<1>4. ASSUME NEW p \in Procs, AcquireExclusive(p) PROVE Goal
  BY <1>4 DEF AcquireExclusive
<1>5. ASSUME NEW p \in Procs, OpenCatalog(p) PROVE Goal
  BY <1>5 DEF OpenCatalog
<1>6. ASSUME NEW p \in Procs, TruncateMarker(p) PROVE Goal
  BY <1>6 DEF TruncateMarker
<1>7. ASSUME NEW p \in Procs, WriteMarker(p) PROVE Goal
  BY <1>7 DEF WriteMarker
<1>8. ASSUME NEW p \in Procs, SyncMarker(p) PROVE Goal
  BY <1>8 DEF SyncMarker
<1>9. ASSUME NEW p \in Procs, StageObject(p) PROVE Goal
  BY <1>9 DEF StageObject
<1>10. ASSUME NEW p \in Procs, SyncCiphertext(p) PROVE Goal
  BY <1>10 DEF SyncCiphertext
<1>11. ASSUME NEW p \in Procs, RenameObject(p) PROVE Goal
  BY <1>11 DEF RenameObject
<1>12. ASSUME NEW p \in Procs, SyncFinal(p) PROVE Goal
  BY <1>12 DEF SyncFinal
<1>13. ASSUME NEW p \in Procs, SyncStagingDirectory(p) PROVE Goal
  BY <1>13 DEF SyncStagingDirectory
<1>14. ASSUME NEW p \in Procs, CommitImport(p) PROVE Goal
  BY <1>14 DEF CommitImport
<1>15. ASSUME NEW p \in Procs, CommitReplace(p) PROVE Goal
  <2>1. LogOK' /\ wal'
    BY <1>15, WorkLog
  <2>2. Exclusion' /\ CleanOK'
    BY <1>15 DEF CommitReplace
  <2>3. ASSUME NEW q \in Procs PROVE Kept(q)'
    BY <1>15, <2>3 DEF CommitReplace
  <2>4. QED
    BY <2>1, <2>2, <2>3
<1>16. ASSUME NEW p \in Procs, RejectCommit(p) PROVE Goal
  BY <1>16 DEF RejectCommit
<1>17. ASSUME NEW p \in Procs, DeleteMedia(p) PROVE Goal
  BY <1>17 DEF DeleteMedia
<1>18. ASSUME NEW p \in Procs, UnlinkCiphertext(p) PROVE Goal
  BY <1>18, VaultAssumption DEF UnlinkCiphertext
<1>19. ASSUME NEW p \in Procs, SyncUnlinked(p) PROVE Goal
  BY <1>19, VaultAssumption DEF SyncUnlinked
<1>20. ASSUME NEW p \in Procs, RemoveOperation(p) PROVE Goal
  <2>1. LogOK' /\ wal'
    BY <1>20, WorkLog
  <2>2. Exclusion' /\ CleanOK'
    BY <1>20 DEF RemoveOperation
  <2>3. ASSUME NEW q \in Procs PROVE Kept(q)'
    BY <1>20, <2>3 DEF RemoveOperation
  <2>4. QED
    BY <2>1, <2>2, <2>3
<1>21. ASSUME NEW p \in Procs, Maintain(p) PROVE Goal
  BY <1>21 DEF Maintain
<1>22. ASSUME NEW p \in Procs, RecoverEntry(p) PROVE Goal
  BY <1>22, VaultAssumption DEF RecoverEntry
<1>23. ASSUME NEW p \in Procs, TakeInventory(p) PROVE Goal
  BY <1>23 DEF TakeInventory
<1>24. ASSUME NEW p \in Procs, UnlinkStaging(p) PROVE Goal
  BY <1>24 DEF UnlinkStaging
<1>25. ASSUME NEW p \in Procs, SyncStagingUnlinked(p) PROVE Goal
  BY <1>25 DEF SyncStagingUnlinked
<1>26. ASSUME NEW p \in Procs, SweepOrphans(p) PROVE Goal
  BY <1>26 DEF SweepOrphans
<1>27. ASSUME NEW p \in Procs, BeginScan(p) PROVE Goal
  BY <1>27 DEF BeginScan
<1>28. ASSUME NEW p \in Procs, ScanObject(p) PROVE Goal
  BY <1>28 DEF ScanObject
<1>29. ASSUME NEW p \in Procs, EndRecovery(p) PROVE Goal
  BY <1>29 DEF EndRecovery
<1>30. ASSUME NEW p \in Procs, CloseCatalog(p) PROVE Goal
  BY <1>30 DEF CloseCatalog
<1>31. ASSUME NEW p \in Procs, Fail(p) PROVE Goal
  BY <1>31 DEF Fail
<1>32. ASSUME NEW p \in Procs, Kill(p) PROVE Goal
  BY <1>32 DEF Kill
<1>33. CASE PowerLoss
  BY <1>33 DEF PowerLoss
<1>34. ASSUME NEW id \in Ids, Harm(id) PROVE Goal
  BY <1>34 DEF Harm, sessionVars
<1>35. CASE UNCHANGED vars
  BY <1>35 DEF vars, sessionVars
<1>36. ASSUME NEW p \in Procs, DropService(p) PROVE Goal
  BY <1>36 DEF DropService
<1>37. ASSUME NEW p \in Procs, Disconnect(p) PROVE Goal
  BY <1>37 DEF Disconnect
<1>38. QED
  BY <1>1, <1>2, <1>3, <1>4, <1>5, <1>6, <1>7, <1>8, <1>9, <1>10, <1>11,
     <1>12, <1>13, <1>14, <1>15, <1>16, <1>17, <1>18, <1>19, <1>20, <1>21,
     <1>22, <1>23, <1>24, <1>25, <1>26, <1>27, <1>28, <1>29, <1>30, <1>31,
     <1>32, <1>33, <1>34, <1>35, <1>36, <1>37
  DEF Next, Service, Open, Mark, Publish, Transact, Cleanup, Recover, Leave,
      Environment

\* RepairInv holds in every reachable state.
LEMMA RepairAlways == Spec => []RepairInv
<1>1. Init => RepairInv
  <2>1. Init => TypeOK
    BY DEF Init, TypeOK, CatalogTypeOK, StoreTypeOK, MarkerTypeOK,
           SessionTypeOK, Rows, Shown, Logged
  <2>2. QED
    BY <2>1 DEF Init, RepairInv, Exclusion, LogOK, CleanOK, ContextOK,
                WorkIsDirty, RepairOrder, Shown, Logged
<1>2. QED
  BY <1>1, RepairStep, PTL DEF Spec

\* A vault that is marked clean, or that a power loss may leave marked clean, has
\* nothing to recover in its catalog, and any log that the power loss leaves beside
\* that marker holds the same catalog: with failed calls and kills between any two
\* steps, and with power losses or commits in doubt.  Both together break it: the
\* truncation of the log is not synced, and a doubtful transaction comes back with it.
THEOREM Repaired ==
  ASSUME Certain PROVE Spec => []CleanMeansRepaired
<1>1. RepairInv => CleanMeansRepaired
  BY DEF RepairInv, LogOK, CleanOK, Certain, CleanMeansRepaired
<1>2. QED
  BY <1>1, RepairAlways, PTL

\* Under every kind of fault, that one included, a reader looks at a database that has
\* no log, no doubtful transaction and no cleanup pending.
THEOREM ReadersSeeRepaired == Spec => []ReaderSeesRepaired
<1>1. RepairInv => ReaderSeesRepaired
  <2>1. Shown.wal = wal /\ Shown.journal = journal
    BY DEF Shown
  <2>2. QED
    BY <2>1 DEF RepairInv, LogOK, ReaderSeesRepaired
<1>2. QED
  BY <1>1, RepairAlways, PTL

\* The lock on vault.lock admits one writer alone or readers only.
THEOREM Excluded == Spec => []Exclusion
BY RepairAlways, PTL DEF RepairInv

\* The catalog, the object store and the marker stand still while a reader has
\* the vault open, as long as nothing outside the program changes the files.
THEOREM Isolated ==
  ASSUME "damage" \notin Faults PROVE Spec => ReaderIsolation
<1> DEFINE Still ==
      (\E p \in Procs : pc[p] = "reading" /\ pc'[p] = "reading")
        => UNCHANGED <<catalogVars, staging, files, marker>>
<1>1. RepairInv /\ [Next]_vars => [Still]_vars
  <2> SUFFICES ASSUME RepairInv, Next,
                      NEW p \in Procs, pc[p] = "reading", pc'[p] = "reading"
               PROVE  UNCHANGED <<catalogVars, staging, files, marker>>
    BY DEF vars, catalogVars, storeVars, markerVars
  <2> USE DEF catalogVars, storeVars, markerVars
  <2>1. \A q \in Procs : pc[q] \notin ExclusiveSteps
    BY DEF RepairInv, Exclusion
  <2>2. ASSUME NEW q \in Procs, Open(q) \/ CloseReader(q)
        PROVE  UNCHANGED <<catalogVars, staging, files, marker>>
    BY <2>1, <2>2 DEF Open, AcquireShared, AdmitReader, AcquireExclusive,
                      OpenCatalog, CloseReader
  <2>3. ASSUME NEW q \in Procs PROVE ~Mark(q) /\ ~Publish(q) /\ ~Transact(q)
    BY <2>1 DEF Mark, TruncateMarker, WriteMarker, SyncMarker, Publish,
                StageObject, SyncCiphertext, RenameObject, SyncFinal,
                SyncStagingDirectory, Transact, CommitImport, CommitReplace,
                RejectCommit, DeleteMedia
  <2>4. ASSUME NEW q \in Procs PROVE ~Cleanup(q) /\ ~Recover(q)
    BY <2>1 DEF Cleanup, UnlinkCiphertext, SyncUnlinked, RemoveOperation,
                Recover, RecoverEntry, TakeInventory, UnlinkStaging,
                SyncStagingUnlinked, SweepOrphans, BeginScan, ScanObject,
                EndRecovery
  <2>5. ASSUME NEW q \in Procs PROVE ~Maintain(q) /\ (Leave(q) => CloseReader(q))
    BY <2>1 DEF Maintain, Leave, CloseCatalog, DropService, Disconnect
  <2>6. ~PowerLoss
    BY DEF PowerLoss
  <2>7. ASSUME NEW q \in Procs, Fail(q) \/ Kill(q)
        PROVE  UNCHANGED <<catalogVars, staging, files, marker>>
    BY <2>7 DEF Fail, Kill
  <2>8. QED
    BY <2>2, <2>3, <2>4, <2>5, <2>6, <2>7 DEF Next, Service, Environment, Harm
<1>2. QED
  BY <1>1, RepairAlways, PTL DEF Spec, ReaderIsolation

-----------------------------------------------------------------------------
(* The safety of the ciphertexts: what recovery unlinks no row refers to,    *)
(* what a row refers to is durable, and a key leaves the catalog together    *)
(* with the intent to remove its ciphertext.                                 *)

\* What the transactions do to the objects that rows refer to.
LEMMA RowsReferenced ==
  ASSUME NEW r \in Rows
  PROVE  /\ \A S : Referenced(DropRows(r, S)) = Referenced(r) \ S
         /\ \A id \in Ids, m \in Media :
              /\ Referenced(InsertRow(r, id, m)) = Referenced(r) \cup {id}
              /\ Referenced(ReplaceDerived(r, id, m))
                   = (Referenced(r) \ Replaced(r, id, m)) \cup {id}
         /\ \A id \in Referenced(r) :
              Referenced(MarkDamaged(r, id)) = Referenced(r)
<1>1. ASSUME NEW S PROVE Referenced(DropRows(r, S)) = Referenced(r) \ S
  BY DEF Referenced, DropRows
<1>2. ASSUME NEW s \in Rows, NEW id \in Ids, NEW m \in Media
      PROVE  Referenced(InsertRow(s, id, m)) = Referenced(s) \cup {id}
  <2>1. [media |-> m, state |-> "Ready"] # None
    BY CatalogAssumption DEF Row, ObjectState
  <2>2. QED
    BY <2>1 DEF Referenced, InsertRow, Rows
<1>3. ASSUME NEW id \in Referenced(r)
      PROVE  Referenced(MarkDamaged(r, id)) = Referenced(r)
  <2>1. [r[id] EXCEPT !.state = "Damaged"] \in Row
    BY DEF Referenced, Rows, Row, ObjectState
  <2>2. QED
    BY <2>1, CatalogAssumption DEF Referenced, MarkDamaged, Rows
<1>4. QED
  BY <1>1, <1>2, <1>3, DropType DEF ReplaceDerived

-----------------------------------------------------------------------------
(* The journal and the work of a writer. *)

\* A transaction that refers to no target of the journal it leaves, and puts the
\* objects it drops in it, keeps the journal right, whether it commits or not.
LEMMA AccountedStep ==
  ASSUME JournalOK, NEW r, NEW j, Commit(r, j) \/ CommitFails(r, j),
         Disjoint(r, j),
         \A id \in Referenced(rows) \ Referenced(r) : \E e \in j : id \in e.targets
  PROVE  JournalOK'
<1>1. CASE Commit(r, j)
  BY <1>1 DEF Commit, JournalOK, Disjoint, Referenced, OnDisk, Logged
<1>2. CASE CommitFails(r, j)
  <2>1. \A c \in catalogDisk' : c \in catalogDisk \cup {Logged(rows, journal), Logged(r, j)}
    BY <1>2 DEF CommitFails, OnDisk
  <2>2. \A c \in catalogDisk' : Disjoint(c.rows, c.journal)
    BY <2>1 DEF Logged, JournalOK
  <2>3. \A c \in limbo' : Disjoint(c.rows, c.journal)
    BY <1>2 DEF CommitFails
  <2>4. \A c \in limbo' : KeysAccounted(c)'
    BY <1>2 DEF CommitFails, KeysAccounted, Referenced
  <2>5. QED
    BY <1>2, <2>2, <2>3, <2>4 DEF CommitFails, JournalOK, Disjoint, Referenced
<1>3. QED
  BY <1>1, <1>2

\* Every step, faults of every kind included, preserves CleanupInv.
LEMMA CleanupStep == CleanupInv /\ [Next]_vars => CleanupInv'
<1> DEFINE Goal == JournalOK' /\ \A p \in Procs : WorkOK(p)'
<1> SUFFICES ASSUME CleanupInv, [Next]_vars PROVE Goal
  BY RepairStep DEF CleanupInv
<1> USE DEF CleanupInv, JournalOK, Disjoint, KeysAccounted, WorkOK, NoTrace,
            RepairInv, Exclusion, TypeOK, CatalogTypeOK, StoreTypeOK,
            SessionTypeOK, catalogVars, storeVars, Move, Rest, Abort, Visit,
            Commit, CommitFails, OnDisk, Shown, Logged, InLimbo
<1>1. ASSUME NEW p \in Procs, AcquireShared(p) PROVE Goal
  BY <1>1 DEF AcquireShared
<1>2. ASSUME NEW p \in Procs, AdmitReader(p) PROVE Goal
  BY <1>2 DEF AdmitReader
<1>3. ASSUME NEW p \in Procs, CloseReader(p) PROVE Goal
  BY <1>3 DEF CloseReader
<1>4. ASSUME NEW p \in Procs, AcquireExclusive(p) PROVE Goal
  BY <1>4 DEF AcquireExclusive
<1>5. ASSUME NEW p \in Procs, OpenCatalog(p) PROVE Goal
  BY <1>5 DEF OpenCatalog
<1>6. ASSUME NEW p \in Procs, TruncateMarker(p) PROVE Goal
  BY <1>6 DEF TruncateMarker
<1>7. ASSUME NEW p \in Procs, WriteMarker(p) PROVE Goal
  BY <1>7 DEF WriteMarker
<1>8. ASSUME NEW p \in Procs, SyncMarker(p) PROVE Goal
  BY <1>8 DEF SyncMarker
<1>9. ASSUME NEW p \in Procs, StageObject(p) PROVE Goal
  BY <1>9 DEF StageObject, Fresh
<1>10. ASSUME NEW p \in Procs, SyncCiphertext(p) PROVE Goal
  BY <1>10 DEF SyncCiphertext
<1>11. ASSUME NEW p \in Procs, RenameObject(p) PROVE Goal
  BY <1>11 DEF RenameObject
<1>12. ASSUME NEW p \in Procs, SyncFinal(p) PROVE Goal
  BY <1>12 DEF SyncFinal
<1>13. ASSUME NEW p \in Procs, SyncStagingDirectory(p) PROVE Goal
  BY <1>13 DEF SyncStagingDirectory
<1>14. ASSUME NEW p \in Procs, CommitImport(p) PROVE Goal
  BY <1>14, RowsReferenced, MediaInType DEF CommitImport, Referenced
<1>15. ASSUME NEW p \in Procs, CommitReplace(p) PROVE Goal
  <2>1. PICK m \in MediaIn(rows) :
          LET new == ReplaceDerived(rows, obj[p], m)
              e   == CleanupIntent(obj[p], Replaced(rows, obj[p], m))
          IN  \/ /\ Commit(new, journal \cup {e})
                 /\ pc' = [pc EXCEPT ![p] = "cleanup"]
                 /\ op' = [op EXCEPT ![p] = e]
                 /\ todo' = [todo EXCEPT ![p] = e.targets]
                 /\ obj' = [obj EXCEPT ![p] = None]
                 /\ UNCHANGED ctx
              \/ CommitFails(new, journal \cup {e}) /\ Abort(p)
    BY <1>15 DEF CommitReplace
  <2> DEFINE old == Replaced(rows, obj[p], m)
             new == ReplaceDerived(rows, obj[p], m)
  <2>2. m \in Media /\ obj[p] \in Ids /\ obj[p] \notin Referenced(rows)
    BY <1>15, <2>1, MediaInType DEF CommitReplace, Referenced
  <2>3. Referenced(new) = (Referenced(rows) \ old) \cup {obj[p]}
    BY <2>2, RowsReferenced
  <2>4. old \subseteq Referenced(rows)
    BY DEF Replaced, ObjectsOf
  <2>5. \A e \in journal : obj[p] \notin e.targets
    BY <1>15 DEF CommitReplace
  <2>6. CleanupIntent(obj[p], old).targets = old
    BY DEF CleanupIntent
  <2>7. JournalOK'
    BY <2>1, <2>2, <2>3, <2>4, <2>5, <2>6, AccountedStep
  <2>8. QED
    BY <1>15, <2>1, <2>6, <2>7 DEF CommitReplace
<1>16. ASSUME NEW p \in Procs, RejectCommit(p) PROVE Goal
  BY <1>16 DEF RejectCommit
<1>17. ASSUME NEW p \in Procs, DeleteMedia(p) PROVE Goal
  <2>1. PICK m \in MediaIn(rows) :
          LET e   == CleanupIntent(m, ObjectsOf(rows, m))
              new == DropRows(rows, e.targets)
          IN  \/ /\ Commit(new, journal \cup {e})
                 /\ pc' = [pc EXCEPT ![p] = "cleanup"]
                 /\ ctx' = [ctx EXCEPT ![p] = "op"]
                 /\ op' = [op EXCEPT ![p] = e]
                 /\ todo' = [todo EXCEPT ![p] = e.targets]
                 /\ UNCHANGED obj
              \/ CommitFails(new, journal \cup {e}) /\ Rest(p, "idle")
    BY <1>17 DEF DeleteMedia
  <2> DEFINE e == CleanupIntent(m, ObjectsOf(rows, m))
             new == DropRows(rows, e.targets)
  <2>2. Referenced(new) = Referenced(rows) \ e.targets
    BY RowsReferenced
  <2>3. JournalOK'
    BY <2>1, <2>2, AccountedStep
  <2>4. QED
    BY <1>17, <2>1, <2>3 DEF DeleteMedia, CleanupIntent
<1>18. ASSUME NEW p \in Procs, UnlinkCiphertext(p) PROVE Goal
  BY <1>18, VaultAssumption DEF UnlinkCiphertext
<1>19. ASSUME NEW p \in Procs, SyncUnlinked(p) PROVE Goal
  BY <1>19, VaultAssumption DEF SyncUnlinked
<1>20. ASSUME NEW p \in Procs, RemoveOperation(p) PROVE Goal
  BY <1>20 DEF RemoveOperation
<1>21. ASSUME NEW p \in Procs, Maintain(p) PROVE Goal
  BY <1>21 DEF Maintain
<1>22. ASSUME NEW p \in Procs, RecoverEntry(p) PROVE Goal
  BY <1>22, VaultAssumption DEF RecoverEntry, Entry
<1>23. ASSUME NEW p \in Procs, TakeInventory(p) PROVE Goal
  BY <1>23 DEF TakeInventory
<1>24. ASSUME NEW p \in Procs, UnlinkStaging(p) PROVE Goal
  BY <1>24 DEF UnlinkStaging
<1>25. ASSUME NEW p \in Procs, SyncStagingUnlinked(p) PROVE Goal
  BY <1>25 DEF SyncStagingUnlinked
<1>26. ASSUME NEW p \in Procs, SweepOrphans(p) PROVE Goal
  BY <1>26 DEF SweepOrphans
<1>27. ASSUME NEW p \in Procs, BeginScan(p) PROVE Goal
  BY <1>27 DEF BeginScan
<1>28. ASSUME NEW p \in Procs, ScanObject(p) PROVE Goal
  BY <1>28, RowsReferenced, MediaInType DEF ScanObject
<1>29. ASSUME NEW p \in Procs, EndRecovery(p) PROVE Goal
  BY <1>29 DEF EndRecovery
<1>30. ASSUME NEW p \in Procs, CloseCatalog(p) PROVE Goal
  BY <1>30 DEF CloseCatalog
<1>31. ASSUME NEW p \in Procs, Fail(p) PROVE Goal
  BY <1>31 DEF Fail
<1>32. ASSUME NEW p \in Procs, Kill(p) PROVE Goal
  BY <1>32 DEF Kill
<1>33. CASE PowerLoss
  BY <1>33 DEF PowerLoss
<1>34. ASSUME NEW id \in Ids, Harm(id) PROVE Goal
  BY <1>34 DEF Harm, sessionVars
<1>35. CASE UNCHANGED vars
  BY <1>35 DEF vars, sessionVars
<1>36. ASSUME NEW p \in Procs, DropService(p) PROVE Goal
  BY <1>36 DEF DropService
<1>37. ASSUME NEW p \in Procs, Disconnect(p) PROVE Goal
  BY <1>37 DEF Disconnect
<1>38. QED
  BY <1>1, <1>2, <1>3, <1>4, <1>5, <1>6, <1>7, <1>8, <1>9, <1>10, <1>11,
     <1>12, <1>13, <1>14, <1>15, <1>16, <1>17, <1>18, <1>19, <1>20, <1>21,
     <1>22, <1>23, <1>24, <1>25, <1>26, <1>27, <1>28, <1>29, <1>30, <1>31,
     <1>32, <1>33, <1>34, <1>35, <1>36, <1>37
  DEF Next, Service, Open, Mark, Publish, Transact, Cleanup, Recover, Leave,
      Environment

\* CleanupInv holds in every reachable state.
LEMMA CleanupAlways == Spec => []CleanupInv
<1>1. Init => JournalOK /\ \A p \in Procs : WorkOK(p)
  BY DEF Init, JournalOK, Disjoint, WorkOK, Shown, Logged
<1>2. QED
  BY <1>1, RepairAlways, CleanupStep, PTL DEF Spec, CleanupInv

\* What is pending in the journal is never a live object, and a writer cleans up
\* only what is pending, under every kind of fault: the CleanupConflict check of
\* delete_media, replace_derived and recover_with never stops them.
THEOREM NeverConflicts == Spec => []NoCleanupConflict
<1>1. CleanupInv => NoCleanupConflict
  BY DEF CleanupInv, JournalOK, Disjoint, WorkOK, NoCleanupConflict
<1>2. QED
  BY <1>1, CleanupAlways, PTL

\* The steps that change the catalog; a power loss does so only if it brings back a
\* transaction that was in doubt.
LEMMA CatalogSteps ==
  ASSUME RepairInv, Certain, [Next]_vars
  PROVE  \/ UNCHANGED <<rows, journal, limbo>>
         \/ \E p \in Procs : \/ OpenCatalog(p) \/ CloseCatalog(p) \/ Transact(p)
                             \/ RemoveOperation(p) \/ ScanObject(p)
<1> USE DEF catalogVars, vars
<1>1. ASSUME NEW p \in Procs, Open(p) \/ Mark(p)
      PROVE  OpenCatalog(p) \/ UNCHANGED <<rows, journal, limbo>>
  BY <1>1 DEF Open, AcquireShared, AdmitReader, AcquireExclusive, Mark,
              TruncateMarker, WriteMarker, SyncMarker
<1>2. ASSUME NEW p \in Procs, Publish(p) PROVE UNCHANGED <<rows, journal, limbo>>
  BY <1>2 DEF Publish, StageObject, SyncCiphertext, RenameObject, SyncFinal,
              SyncStagingDirectory
<1>3. ASSUME NEW p \in Procs, Cleanup(p)
      PROVE  RemoveOperation(p) \/ UNCHANGED <<rows, journal, limbo>>
  BY <1>3 DEF Cleanup, UnlinkCiphertext, SyncUnlinked
<1>4. ASSUME NEW p \in Procs, Recover(p)
      PROVE  ScanObject(p) \/ UNCHANGED <<rows, journal, limbo>>
  BY <1>4 DEF Recover, RecoverEntry, TakeInventory, UnlinkStaging,
              SyncStagingUnlinked, SweepOrphans, BeginScan, EndRecovery
<1>5. ASSUME NEW p \in Procs, Maintain(p) \/ Leave(p)
      PROVE  CloseCatalog(p) \/ UNCHANGED <<rows, journal, limbo>>
  BY <1>5 DEF Leave, Maintain, CloseReader, DropService, Disconnect
<1>6. Environment => UNCHANGED <<rows, journal, limbo>>
  <2>1. PowerLoss => UNCHANGED <<rows, journal, limbo>>
    BY DEF PowerLoss, Certain, RepairInv, LogOK
  <2>2. QED
    BY <2>1 DEF Environment, Fail, Kill, Harm
<1>7. QED
  BY <1>1, <1>2, <1>3, <1>4, <1>5, <1>6 DEF Next, Service

\* A wrapped key is destroyed only by a transaction that leaves the intent to
\* remove its ciphertext, also when the transaction is one that seemed to fail.
THEOREM KeysDropSafely ==
  ASSUME Certain PROVE Spec => KeyDropLeavesIntent
<1> DEFINE Accounted ==
      \A id \in Referenced(rows) \ Referenced(rows') :
        \E e \in journal' : id \in e.targets
<1>1. CleanupInv /\ [Next]_vars => Accounted
  <2> SUFFICES ASSUME CleanupInv, [Next]_vars PROVE Accounted
    OBVIOUS
  <2> USE DEF CleanupInv, RepairInv, TypeOK, CatalogTypeOK, SessionTypeOK,
              Commit, CommitFails
  <2>1. CASE UNCHANGED <<rows, journal>>
    BY <2>1
  <2>2. ASSUME NEW p \in Procs, OpenCatalog(p) PROVE Accounted
    BY <2>2 DEF OpenCatalog, JournalOK, KeysAccounted
  <2>3. ASSUME NEW p \in Procs, CommitImport(p) PROVE Accounted
    BY <2>3, RowsReferenced DEF CommitImport
  <2>4. ASSUME NEW p \in Procs, CommitReplace(p) PROVE Accounted
    BY <2>4, RowsReferenced, MediaInType DEF CommitReplace, CleanupIntent
  <2>5. ASSUME NEW p \in Procs, RejectCommit(p) PROVE Accounted
    BY <2>5 DEF RejectCommit, catalogVars
  <2>6. ASSUME NEW p \in Procs, DeleteMedia(p) PROVE Accounted
    BY <2>6, RowsReferenced DEF DeleteMedia, CleanupIntent
  <2>7. ASSUME NEW p \in Procs, RemoveOperation(p) PROVE Accounted
    BY <2>7 DEF RemoveOperation
  <2>8. ASSUME NEW p \in Procs, ScanObject(p) PROVE Accounted
    BY <2>8, RowsReferenced DEF ScanObject, catalogVars
  <2>9. ASSUME NEW p \in Procs, CloseCatalog(p) PROVE Accounted
    BY <2>9 DEF CloseCatalog
  <2>10. QED
    BY <2>1, <2>2, <2>3, <2>4, <2>5, <2>6, <2>7, <2>8, <2>9, CatalogSteps
    DEF Transact
<1>2. QED
  BY <1>1, CleanupAlways, PTL DEF Spec, KeyDropLeavesIntent

-----------------------------------------------------------------------------
(* The ciphertext of a new object on its way to the disk. *)

\* Without failed log syncs every step preserves DurableInv.
LEMMA DurableStep ==
  ASSUME "commit" \notin Faults
  PROVE  DurableInv /\ [Next]_vars => DurableInv'
<1> DEFINE Goal == limbo' = {} /\ DurableReference' /\ \A p \in Procs : PublishOK(p)'
<1> SUFFICES ASSUME DurableInv, [Next]_vars PROVE Goal
  BY CleanupStep DEF DurableInv
<1> USE DEF DurableInv, DurableReference, PublishOK, CleanupInv, WorkOK, NoTrace,
            RepairInv, LogOK, Exclusion, TypeOK, CatalogTypeOK, StoreTypeOK,
            SessionTypeOK, catalogVars, storeVars, Move, Rest, Abort, Visit,
            Commit, CommitFails, Referenced
<1>1. ASSUME NEW p \in Procs, AcquireShared(p) PROVE Goal
  BY <1>1 DEF AcquireShared
<1>2. ASSUME NEW p \in Procs, AdmitReader(p) PROVE Goal
  BY <1>2 DEF AdmitReader
<1>3. ASSUME NEW p \in Procs, CloseReader(p) PROVE Goal
  BY <1>3 DEF CloseReader
<1>4. ASSUME NEW p \in Procs, AcquireExclusive(p) PROVE Goal
  BY <1>4 DEF AcquireExclusive
<1>5. ASSUME NEW p \in Procs, OpenCatalog(p) PROVE Goal
  BY <1>5 DEF OpenCatalog
<1>6. ASSUME NEW p \in Procs, TruncateMarker(p) PROVE Goal
  BY <1>6 DEF TruncateMarker
<1>7. ASSUME NEW p \in Procs, WriteMarker(p) PROVE Goal
  BY <1>7 DEF WriteMarker
<1>8. ASSUME NEW p \in Procs, SyncMarker(p) PROVE Goal
  BY <1>8 DEF SyncMarker
<1>9. ASSUME NEW p \in Procs, StageObject(p) PROVE Goal
  BY <1>9 DEF StageObject, Fresh
<1>10. ASSUME NEW p \in Procs, SyncCiphertext(p) PROVE Goal
  BY <1>10 DEF SyncCiphertext
<1>11. ASSUME NEW p \in Procs, RenameObject(p) PROVE Goal
  BY <1>11 DEF RenameObject
<1>12. ASSUME NEW p \in Procs, SyncFinal(p) PROVE Goal
  BY <1>12 DEF SyncFinal, SyncShardOf, InShard
<1>13. ASSUME NEW p \in Procs, SyncStagingDirectory(p) PROVE Goal
  BY <1>13 DEF SyncStagingDirectory
<1>14. ASSUME NEW p \in Procs, CommitImport(p) PROVE Goal
  BY <1>14, RowsReferenced, MediaInType DEF CommitImport
<1>15. ASSUME NEW p \in Procs, CommitReplace(p) PROVE Goal
  <2>1. PICK m \in MediaIn(rows) :
          LET new == ReplaceDerived(rows, obj[p], m)
              e   == CleanupIntent(obj[p], Replaced(rows, obj[p], m))
          IN  \/ /\ Commit(new, journal \cup {e})
                 /\ pc' = [pc EXCEPT ![p] = "cleanup"]
                 /\ op' = [op EXCEPT ![p] = e]
                 /\ todo' = [todo EXCEPT ![p] = e.targets]
                 /\ obj' = [obj EXCEPT ![p] = None]
                 /\ UNCHANGED ctx
              \/ CommitFails(new, journal \cup {e}) /\ Abort(p)
    BY <1>15 DEF CommitReplace
  <2>2. m \in Media /\ obj[p] \in Ids
    BY <1>15, <2>1, MediaInType DEF CommitReplace
  <2>3. Referenced(ReplaceDerived(rows, obj[p], m))
          \subseteq Referenced(rows) \cup {obj[p]}
    BY <2>2, RowsReferenced
  <2>4. QED
    BY <1>15, <2>1, <2>3 DEF CommitReplace
<1>16. ASSUME NEW p \in Procs, RejectCommit(p) PROVE Goal
  BY <1>16 DEF RejectCommit
<1>17. ASSUME NEW p \in Procs, DeleteMedia(p) PROVE Goal
  BY <1>17, RowsReferenced, MediaInType DEF DeleteMedia
<1>18. ASSUME NEW p \in Procs, UnlinkCiphertext(p) PROVE Goal
  BY <1>18 DEF UnlinkCiphertext
<1>19. ASSUME NEW p \in Procs, SyncUnlinked(p) PROVE Goal
  BY <1>19 DEF SyncUnlinked, SyncShardOf
<1>20. ASSUME NEW p \in Procs, RemoveOperation(p) PROVE Goal
  BY <1>20 DEF RemoveOperation
<1>21. ASSUME NEW p \in Procs, Maintain(p) PROVE Goal
  BY <1>21 DEF Maintain
<1>22. ASSUME NEW p \in Procs, RecoverEntry(p) PROVE Goal
  BY <1>22 DEF RecoverEntry
<1>23. ASSUME NEW p \in Procs, TakeInventory(p) PROVE Goal
  BY <1>23 DEF TakeInventory
<1>24. ASSUME NEW p \in Procs, UnlinkStaging(p) PROVE Goal
  BY <1>24 DEF UnlinkStaging
<1>25. ASSUME NEW p \in Procs, SyncStagingUnlinked(p) PROVE Goal
  BY <1>25 DEF SyncStagingUnlinked
<1>26. ASSUME NEW p \in Procs, SweepOrphans(p) PROVE Goal
  BY <1>26 DEF SweepOrphans
<1>27. ASSUME NEW p \in Procs, BeginScan(p) PROVE Goal
  BY <1>27 DEF BeginScan
<1>28. ASSUME NEW p \in Procs, ScanObject(p) PROVE Goal
  BY <1>28, RowsReferenced, MediaInType DEF ScanObject
<1>29. ASSUME NEW p \in Procs, EndRecovery(p) PROVE Goal
  BY <1>29 DEF EndRecovery
<1>30. ASSUME NEW p \in Procs, CloseCatalog(p) PROVE Goal
  BY <1>30 DEF CloseCatalog
<1>31. ASSUME NEW p \in Procs, Fail(p) PROVE Goal
  BY <1>31 DEF Fail
<1>32. ASSUME NEW p \in Procs, Kill(p) PROVE Goal
  BY <1>32 DEF Kill
<1>33. CASE PowerLoss
  BY <1>33 DEF PowerLoss
<1>34. ASSUME NEW id \in Ids, Harm(id) PROVE Goal
  BY <1>34 DEF Harm, sessionVars
<1>35. CASE UNCHANGED vars
  BY <1>35 DEF vars, sessionVars
<1>36. ASSUME NEW p \in Procs, DropService(p) PROVE Goal
  BY <1>36 DEF DropService
<1>37. ASSUME NEW p \in Procs, Disconnect(p) PROVE Goal
  BY <1>37 DEF Disconnect
<1>38. QED
  BY <1>1, <1>2, <1>3, <1>4, <1>5, <1>6, <1>7, <1>8, <1>9, <1>10, <1>11,
     <1>12, <1>13, <1>14, <1>15, <1>16, <1>17, <1>18, <1>19, <1>20, <1>21,
     <1>22, <1>23, <1>24, <1>25, <1>26, <1>27, <1>28, <1>29, <1>30, <1>31,
     <1>32, <1>33, <1>34, <1>35, <1>36, <1>37
  DEF Next, Service, Open, Mark, Publish, Transact, Cleanup, Recover, Leave,
      Environment
\* DurableInv holds in every reachable state.
LEMMA DurableAlways ==
  ASSUME "commit" \notin Faults PROVE Spec => []DurableInv
<1>1. Init => limbo = {} /\ DurableReference /\ \A p \in Procs : PublishOK(p)
  BY DEF Init, DurableReference, Referenced, PublishOK
<1>2. DurableInv /\ [Next]_vars => DurableInv'
  BY DurableStep
<1>3. QED
  BY <1>1, <1>2, CleanupAlways, PTL DEF Spec, DurableInv

\* As long as the sync of the log does not fail, every row refers to a durable
\* ciphertext, whatever is killed, loses power or is harmed from outside.
THEOREM ReferencesDurable ==
  ASSUME "commit" \notin Faults PROVE Spec => []DurableReference
<1>1. DurableInv => DurableReference
  BY DEF DurableInv
<1>2. QED
  BY <1>1, DurableAlways, PTL

\* As long as the sync of the log does not fail, a cleanup intent leaves the
\* journal only when every ciphertext it names is unlinked.
THEOREM IntentsOutlive ==
  ASSUME "commit" \notin Faults PROVE Spec => IntentOutlivesCiphertext
<1> DEFINE Outlived == \A e \in journal \ journal' : e.targets \cap files = {}
<1>1. DurableInv /\ [Next]_vars => Outlived
  <2> SUFFICES ASSUME DurableInv, [Next]_vars PROVE Outlived
    OBVIOUS
  <2>1. ASSUME NEW p \in Procs, RemoveOperation(p) PROVE Outlived
    <3>1. op[p].targets \cap files = {}
      BY <2>1 DEF RemoveOperation, DurableInv, CleanupInv, WorkOK
    <3>2. QED
      BY <2>1, <3>1 DEF RemoveOperation, Commit, CommitFails
  <2>2. ASSUME NEW p \in Procs, OpenCatalog(p) PROVE journal' = journal
    BY <2>2 DEF OpenCatalog, DurableInv
  <2>3. ASSUME NEW p \in Procs, Transact(p) PROVE journal \subseteq journal'
    BY <2>3 DEF Transact, CommitImport, CommitReplace, RejectCommit, DeleteMedia,
                Commit, CommitFails, catalogVars
  <2>4. ASSUME NEW p \in Procs, ScanObject(p) PROVE journal' = journal
    BY <2>4 DEF ScanObject, Commit, CommitFails, catalogVars
  <2>5. ASSUME NEW p \in Procs, CloseCatalog(p) PROVE journal' = journal
    BY <2>5 DEF CloseCatalog
  <2>6. RepairInv /\ Certain
    BY DEF DurableInv, CleanupInv, Certain
  <2>7. QED
    BY <2>1, <2>2, <2>3, <2>4, <2>5, <2>6, CatalogSteps
<1>2. QED
  BY <1>1, DurableAlways, PTL DEF Spec, IntentOutlivesCiphertext
-----------------------------------------------------------------------------
(* The sweep of the two directories. *)

\* While the machine stays up every step preserves SweptInv.
LEMMA SweptStep ==
  ASSUME "power" \notin Faults
  PROVE  SweptInv /\ [Next]_vars => SweptInv'
<1> DEFINE Goal == CleanMeansSwept' /\ \A p \in Procs : SweepOrder(p)'
<1> SUFFICES ASSUME SweptInv, [Next]_vars PROVE Goal
  BY CleanupStep DEF SweptInv
<1> USE DEF SweptInv, CleanMeansSwept, SweepOrder, Swept, CleanupInv, WorkOK,
            RepairInv, Exclusion, CleanOK, Certain, ContextOK, WorkIsDirty,
            TypeOK, CatalogTypeOK, StoreTypeOK, MarkerTypeOK, SessionTypeOK,
            catalogVars, storeVars, markerVars, Move, Rest, Abort, Visit,
            Commit, CommitFails
<1>1. ASSUME NEW p \in Procs, AcquireShared(p) PROVE Goal
  BY <1>1 DEF AcquireShared
<1>2. ASSUME NEW p \in Procs, AdmitReader(p) PROVE Goal
  BY <1>2 DEF AdmitReader
<1>3. ASSUME NEW p \in Procs, CloseReader(p) PROVE Goal
  BY <1>3 DEF CloseReader
<1>4. ASSUME NEW p \in Procs, AcquireExclusive(p) PROVE Goal
  BY <1>4 DEF AcquireExclusive
<1>5. ASSUME NEW p \in Procs, OpenCatalog(p) PROVE Goal
  BY <1>5 DEF OpenCatalog
<1>6. ASSUME NEW p \in Procs, TruncateMarker(p) PROVE Goal
  BY <1>6 DEF TruncateMarker
<1>7. ASSUME NEW p \in Procs, WriteMarker(p) PROVE Goal
  BY <1>7 DEF WriteMarker
<1>8. ASSUME NEW p \in Procs, SyncMarker(p) PROVE Goal
  BY <1>8 DEF SyncMarker
<1>9. ASSUME NEW p \in Procs, StageObject(p) PROVE Goal
  BY <1>9 DEF StageObject
<1>10. ASSUME NEW p \in Procs, SyncCiphertext(p) PROVE Goal
  BY <1>10 DEF SyncCiphertext
<1>11. ASSUME NEW p \in Procs, RenameObject(p) PROVE Goal
  BY <1>11 DEF RenameObject
<1>12. ASSUME NEW p \in Procs, SyncFinal(p) PROVE Goal
  BY <1>12 DEF SyncFinal
<1>13. ASSUME NEW p \in Procs, SyncStagingDirectory(p) PROVE Goal
  BY <1>13 DEF SyncStagingDirectory
<1>14. ASSUME NEW p \in Procs, CommitImport(p) PROVE Goal
  BY <1>14, RowsReferenced DEF CommitImport
<1>15. ASSUME NEW p \in Procs, CommitReplace(p) PROVE Goal
  BY <1>15, RowsReferenced, MediaInType DEF CommitReplace
<1>16. ASSUME NEW p \in Procs, RejectCommit(p) PROVE Goal
  BY <1>16 DEF RejectCommit
<1>17. ASSUME NEW p \in Procs, DeleteMedia(p) PROVE Goal
  BY <1>17, RowsReferenced DEF DeleteMedia
<1>18. ASSUME NEW p \in Procs, UnlinkCiphertext(p) PROVE Goal
  BY <1>18, VaultAssumption DEF UnlinkCiphertext
<1>19. ASSUME NEW p \in Procs, SyncUnlinked(p) PROVE Goal
  BY <1>19, VaultAssumption DEF SyncUnlinked
<1>20. ASSUME NEW p \in Procs, RemoveOperation(p) PROVE Goal
  BY <1>20 DEF RemoveOperation
<1>21. ASSUME NEW p \in Procs, Maintain(p) PROVE Goal
  BY <1>21 DEF Maintain
<1>22. ASSUME NEW p \in Procs, RecoverEntry(p) PROVE Goal
  BY <1>22, VaultAssumption DEF RecoverEntry
<1>23. ASSUME NEW p \in Procs, TakeInventory(p) PROVE Goal
  BY <1>23 DEF TakeInventory
<1>24. ASSUME NEW p \in Procs, UnlinkStaging(p) PROVE Goal
  BY <1>24 DEF UnlinkStaging
<1>25. ASSUME NEW p \in Procs, SyncStagingUnlinked(p) PROVE Goal
  BY <1>25 DEF SyncStagingUnlinked
<1>26. ASSUME NEW p \in Procs, SweepOrphans(p) PROVE Goal
  BY <1>26 DEF SweepOrphans
<1>27. ASSUME NEW p \in Procs, BeginScan(p) PROVE Goal
  BY <1>27 DEF BeginScan
<1>28. ASSUME NEW p \in Procs, ScanObject(p) PROVE Goal
  BY <1>28, RowsReferenced DEF ScanObject
<1>29. ASSUME NEW p \in Procs, EndRecovery(p) PROVE Goal
  BY <1>29 DEF EndRecovery
<1>30. ASSUME NEW p \in Procs, CloseCatalog(p) PROVE Goal
  BY <1>30 DEF CloseCatalog
<1>31. ASSUME NEW p \in Procs, DropService(p) PROVE Goal
  BY <1>31 DEF DropService
<1>32. ASSUME NEW p \in Procs, Disconnect(p) PROVE Goal
  BY <1>32 DEF Disconnect
<1>33. ASSUME NEW p \in Procs, Fail(p) PROVE Goal
  BY <1>33 DEF Fail
<1>34. ASSUME NEW p \in Procs, Kill(p) PROVE Goal
  BY <1>34 DEF Kill
<1>35. ~PowerLoss
  BY DEF PowerLoss
<1>36. ASSUME NEW id \in Ids, Harm(id) PROVE Goal
  BY <1>36 DEF Harm, sessionVars
<1>37. CASE UNCHANGED vars
  BY <1>37 DEF vars, sessionVars
<1>38. QED
  BY <1>1, <1>2, <1>3, <1>4, <1>5, <1>6, <1>7, <1>8, <1>9, <1>10, <1>11,
     <1>12, <1>13, <1>14, <1>15, <1>16, <1>17, <1>18, <1>19, <1>20, <1>21,
     <1>22, <1>23, <1>24, <1>25, <1>26, <1>27, <1>28, <1>29, <1>30, <1>31,
     <1>32, <1>33, <1>34, <1>35, <1>36, <1>37
  DEF Next, Service, Open, Mark, Publish, Transact, Cleanup, Recover, Leave,
      Environment

\* A vault marked clean holds no staging file and no ciphertext without a row,
\* whatever fails, is killed, is harmed from outside or is left in doubt by a
\* failed commit; a power loss can bring an unlinked entry back.
THEOREM CleanIsSwept ==
  ASSUME "power" \notin Faults PROVE Spec => []CleanMeansSwept
<1>1. Init => CleanMeansSwept /\ \A p \in Procs : SweepOrder(p)
  BY DEF Init, CleanMeansSwept, SweepOrder
<1>2. SweptInv /\ [Next]_vars => SweptInv'
  BY SweptStep
<1>3. SweptInv => CleanMeansSwept
  BY DEF SweptInv
<1>4. QED
  BY <1>1, <1>2, <1>3, CleanupAlways, PTL DEF Spec, SweptInv

-----------------------------------------------------------------------------
(* The mark of a damaged object. *)

\* A row is marked damaged only for a ciphertext that DurableReference says was
\* harmed, and an object with a row is not staged again.
LEMMA DamageStep ==
  ASSUME "commit" \notin Faults, "read" \notin Faults
  PROVE  DurableInv /\ DamagedWasHarmed /\ [Next]_vars => DamagedWasHarmed'
<1> SUFFICES ASSUME DurableInv, DamagedWasHarmed, [Next]_vars
             PROVE  DamagedWasHarmed'
  OBVIOUS
<1> USE DEF DurableInv, DurableReference, DamagedWasHarmed, CleanupInv, RepairInv,
            TypeOK, CatalogTypeOK, StoreTypeOK, SessionTypeOK, Referenced,
            Commit, CommitFails, catalogVars, storeVars
<1>1. \A id \in Referenced(rows) : id \in corrupt => id \in corrupt'
  <2>1. ASSUME NEW p \in Procs, StageObject(p)
        PROVE  \A id \in Referenced(rows) : id \in corrupt => id \in corrupt'
    BY <2>1 DEF StageObject, Fresh, NoTrace
  <2>2. ASSUME NEW p \in Procs, Open(p) \/ Mark(p) \/ Transact(p) \/ Leave(p)
        PROVE  corrupt' = corrupt
    BY <2>2 DEF Open, AcquireShared, AdmitReader, AcquireExclusive, OpenCatalog,
                Mark, TruncateMarker, WriteMarker, SyncMarker, Transact,
                CommitImport, CommitReplace, RejectCommit, DeleteMedia, Leave,
                CloseCatalog, CloseReader, DropService, Disconnect
  <2>3. ASSUME NEW p \in Procs, Publish(p), ~StageObject(p)
        PROVE  corrupt' = corrupt
    BY <2>3 DEF Publish, SyncCiphertext, RenameObject, SyncFinal,
                SyncStagingDirectory
  <2>4. ASSUME NEW p \in Procs, Cleanup(p) \/ Recover(p) \/ Maintain(p)
        PROVE  corrupt' = corrupt
    BY <2>4 DEF Cleanup, UnlinkCiphertext, SyncUnlinked, RemoveOperation,
                Recover, RecoverEntry, TakeInventory, UnlinkStaging,
                SyncStagingUnlinked, SweepOrphans, BeginScan, ScanObject,
                EndRecovery, Maintain
  <2>5. Environment => corrupt \subseteq corrupt'
    BY DEF Environment, Fail, Kill, PowerLoss, Harm
  <2>6. QED
    BY <2>1, <2>2, <2>3, <2>4, <2>5 DEF Next, Service, vars
<1>2. CASE UNCHANGED rows
  BY <1>1, <1>2
<1>3. ASSUME NEW p \in Procs, OpenCatalog(p) PROVE UNCHANGED rows
  BY <1>3 DEF OpenCatalog
<1>4. ASSUME NEW p \in Procs, CommitImport(p) PROVE DamagedWasHarmed'
  <2>1. PICK m \in Media : rows' = InsertRow(rows, obj[p], m)
    BY <1>4 DEF CommitImport
  <2>2. \A id \in Ids \ {obj[p]} : rows'[id] = rows[id]
    BY <2>1 DEF InsertRow, Rows
  <2>3. obj[p] \in Ids => rows'[obj[p]].state = "Ready"
    BY <2>1 DEF InsertRow, Rows
  <2>4. QED
    BY <1>1, <2>2, <2>3
<1>5. ASSUME NEW p \in Procs, CommitReplace(p) PROVE DamagedWasHarmed'
  <2>1. PICK m \in Media : rows' = ReplaceDerived(rows, obj[p], m)
    BY <1>5, MediaInType DEF CommitReplace
  <2>2. \A id \in Ids \ {obj[p]} : rows'[id] \in {rows[id], None}
    BY <2>1 DEF ReplaceDerived, InsertRow, DropRows
  <2>3. obj[p] \in Ids => rows'[obj[p]].state = "Ready"
    BY <2>1 DEF ReplaceDerived, InsertRow, DropRows
  <2>4. QED
    BY <1>1, <2>2, <2>3
<1>6. ASSUME NEW p \in Procs, RejectCommit(p) PROVE UNCHANGED rows
  BY <1>6 DEF RejectCommit
<1>7. ASSUME NEW p \in Procs, DeleteMedia(p) PROVE DamagedWasHarmed'
  <2>1. \A id \in Ids : rows'[id] \in {rows[id], None}
    BY <1>7 DEF DeleteMedia, DropRows
  <2>2. QED
    BY <1>1, <2>1
<1>8. ASSUME NEW p \in Procs, RemoveOperation(p) PROVE UNCHANGED rows
  BY <1>8 DEF RemoveOperation
<1>9. ASSUME NEW p \in Procs, ScanObject(p) PROVE DamagedWasHarmed'
  <2>1. PICK id \in Ids :
          \/ UNCHANGED rows
          \/ id \in Referenced(rows) /\ ~Readable(id) /\ rows' = MarkDamaged(rows, id)
    BY <1>9 DEF ScanObject
  <2>2. CASE UNCHANGED rows
    BY <1>2, <2>2
  <2>3. CASE /\ id \in Referenced(rows)
             /\ ~Readable(id)
             /\ rows' = MarkDamaged(rows, id)
    <3>1. id \in corrupt
      BY <2>3 DEF Readable
    <3>2. \A i \in Ids \ {id} : rows'[i] = rows[i]
      BY <2>3 DEF MarkDamaged
    <3>3. QED
      BY <1>1, <2>3, <3>1, <3>2
  <2>4. QED
    BY <2>1, <2>2, <2>3
<1>10. ASSUME NEW p \in Procs, CloseCatalog(p) PROVE UNCHANGED rows
  BY <1>10 DEF CloseCatalog
<1>11. Certain
  BY DEF Certain
<1>12. QED
  BY <1>2, <1>3, <1>4, <1>5, <1>6, <1>7, <1>8, <1>9, <1>10, <1>11, CatalogSteps
  DEF Transact

\* As long as the log is synced and reads do not fail by themselves, recovery
\* marks no sound object damaged: not one that is being published, replaced or
\* deleted, and not one that a crash has interrupted.
THEOREM DamageIsReal ==
  ASSUME "commit" \notin Faults, "read" \notin Faults
  PROVE  Spec => []DamagedWasHarmed
<1>1. Init => DamagedWasHarmed
  BY DEF Init, DamagedWasHarmed, Referenced
<1>2. DurableInv /\ DamagedWasHarmed /\ [Next]_vars => DamagedWasHarmed'
  BY DamageStep
<1>3. QED
  BY <1>1, <1>2, DurableAlways, PTL DEF Spec

-----------------------------------------------------------------------------
(* The service implements the abstract vault: every step changes the         *)
(* library by one whole operation, or leaves it alone.  The library stays    *)
(* well formed for that reason.                                              *)

\* Each operation on the rows of the catalog keeps them well formed.

\* What InsertRow does to each row.
LEMMA InsertChanges ==
  ASSUME NEW r \in Rows, NEW id \in Ids, NEW m \in Media
  PROVE  LET new == InsertRow(r, id, m)
         IN  /\ new \in Rows
             /\ Referenced(new) = Referenced(r) \cup {id}
             /\ new[id].media = m
             /\ \A i \in Ids \ {id} : new[i] = r[i]
BY CatalogAssumption DEF InsertRow, Referenced, Rows, Row, ObjectState

\* A new original brings a medium of its own.
LEMMA ImportFormed ==
  ASSUME NEW r \in Rows, WellFormed(r),
         NEW id \in Ids \ Referenced(r), NEW m \in Media \ MediaIn(r),
         RoleOf[id] = Original
  PROVE  InsertRow(r, id, m) \in Rows /\ WellFormed(InsertRow(r, id, m))
<1> DEFINE new == InsertRow(r, id, m)
<1>1. new \in Rows
  BY InsertChanges
<1>2. /\ Referenced(new) = Referenced(r) \cup {id}
      /\ new[id].media = m
      /\ \A i \in Referenced(r) : new[i] = r[i]
  BY InsertChanges DEF Referenced
<1>3. MediaIn(new) = MediaIn(r) \cup {m}
  BY <1>2 DEF MediaIn
<1>4. \A i \in Referenced(r) : r[i].media # m
  BY DEF WellFormed
<1>5. WellFormed(new)
  BY <1>2, <1>3, <1>4 DEF WellFormed
<1>6. QED
  BY <1>1, <1>5

\* A medium goes with all of its objects.
LEMMA DeleteFormed ==
  ASSUME NEW r \in Rows, WellFormed(r), NEW m \in Media
  PROVE  LET new == DropRows(r, ObjectsOf(r, m))
         IN  new \in Rows /\ WellFormed(new)
<1> DEFINE new == DropRows(r, ObjectsOf(r, m))
<1>1. new \in Rows
  BY DEF DropRows, Rows
<1>2. /\ Referenced(new) = {i \in Referenced(r) : r[i].media # m}
      /\ \A i \in Referenced(new) : new[i] = r[i]
  BY DEF Referenced, DropRows, ObjectsOf
<1>3. MediaIn(new) = MediaIn(r) \ {m}
  BY <1>2 DEF MediaIn
<1>4. WellFormed(new)
  BY <1>2, <1>3 DEF WellFormed
<1>5. QED
  BY <1>1, <1>4

\* A derived object takes the place of those of its role.
LEMMA ReplaceFormed ==
  ASSUME NEW r \in Rows, WellFormed(r),
         NEW id \in Ids \ Referenced(r), NEW m \in MediaIn(r),
         RoleOf[id] # Original
  PROVE  ReplaceDerived(r, id, m) \in Rows /\ WellFormed(ReplaceDerived(r, id, m))
<1> DEFINE old == Replaced(r, id, m)
           rest == DropRows(r, old)
           new == ReplaceDerived(r, id, m)
<1>1. m \in Media
  BY DEF MediaIn, Referenced, Rows, Row
<1>2. /\ rest \in Rows
      /\ Referenced(rest) = Referenced(r) \ old
      /\ \A i \in Referenced(r) \ old : rest[i] = r[i]
  BY DEF DropRows, Rows, Referenced
<1>3. new \in Rows
  BY <1>1, <1>2, InsertChanges DEF ReplaceDerived
<1>4. /\ Referenced(new) = (Referenced(r) \ old) \cup {id}
      /\ new[id].media = m
      /\ \A i \in Referenced(r) \ old : new[i] = r[i]
  <2>1. new = InsertRow(rest, id, m)
    BY DEF ReplaceDerived
  <2>2. Referenced(r) \subseteq Ids \ {id}
    BY DEF Referenced
  <2> HIDE DEF rest, old, new
  <2>3. QED
    BY <1>1, <1>2, <2>1, <2>2, InsertChanges
<1>5. \A i \in old : RoleOf[i] # Original
  BY DEF Replaced
<1>6. MediaIn(new) = MediaIn(r)
  BY <1>4, <1>5 DEF MediaIn
<1>7. \A i \in Referenced(r) \ old : ~(r[i].media = m /\ RoleOf[i] = RoleOf[id])
  BY DEF Replaced, ObjectsOf
<1>8. WellFormed(new)
  BY <1>4, <1>6, <1>7 DEF WellFormed
<1>9. QED
  BY <1>3, <1>8

\* The mark that an object is damaged moves no object.
LEMMA DamageFormed ==
  ASSUME NEW r \in Rows, WellFormed(r), NEW id \in Referenced(r)
  PROVE  MarkDamaged(r, id) \in Rows /\ WellFormed(MarkDamaged(r, id))
<1> DEFINE new == MarkDamaged(r, id)
<1>1. [r[id] EXCEPT !.state = "Damaged"] \in Row
  BY DEF Referenced, Rows, Row, ObjectState
<1>2. new \in Rows
  BY <1>1 DEF MarkDamaged, Rows
<1>3. /\ Referenced(new) = Referenced(r)
      /\ \A i \in Referenced(r) : new[i].media = r[i].media
  BY <1>1, CatalogAssumption DEF Referenced, MarkDamaged, Rows, Row
<1>4. MediaIn(new) = MediaIn(r)
  BY <1>3 DEF MediaIn
<1>5. QED
  BY <1>2, <1>3, <1>4 DEF WellFormed

----------------------------------------------------------------------------
\* The operations of the service on the abstract vault.

USE DEF PublishSteps

Goal == Abstract!Next \/ UNCHANGED Abstract!vars

\* Both modules extend Catalog: the operators they take from it are the same.
LEMMA SameCatalog ==
  ASSUME NEW r, NEW id, NEW m, NEW S
  PROVE  /\ Abstract!Original = Original
         /\ Abstract!Referenced(r) = Referenced(r)
         /\ Abstract!MediaIn(r) = MediaIn(r)
         /\ Abstract!ObjectsOf(r, m) = ObjectsOf(r, m)
         /\ Abstract!InsertRow(r, id, m) = InsertRow(r, id, m)
         /\ Abstract!DropRows(r, S) = DropRows(r, S)
         /\ Abstract!ReplaceDerived(r, id, m) = ReplaceDerived(r, id, m)
         /\ Abstract!MarkDamaged(r, id) = MarkDamaged(r, id)
BY DEF Abstract!Original, Original, Abstract!Referenced, Referenced,
       Abstract!MediaIn, MediaIn, Abstract!ObjectsOf, ObjectsOf,
       Abstract!InsertRow, InsertRow, Abstract!DropRows, DropRows,
       Abstract!Replaced, Replaced, Abstract!ReplaceDerived, ReplaceDerived,
       Abstract!MarkDamaged, MarkDamaged

\* What a transaction leaves in doubt: nothing, or the rows it failed to commit.
LEMMA DoubtAfterCommit ==
  ASSUME NEW r, NEW j
  PROVE  /\ Commit(r, j) =>
              rows' = r /\ ({c.rows : c \in limbo} \ {rows})' = {}
         /\ CommitFails(r, j) =>
              rows' = rows /\ ({c.rows : c \in limbo} \ {rows})' = {r} \ {rows}
<1>1. ASSUME Commit(r, j)
      PROVE  rows' = r /\ ({c.rows : c \in limbo} \ {rows})' = {}
  BY <1>1 DEF Commit
<1>2. ASSUME CommitFails(r, j)
      PROVE  rows' = rows /\ ({c.rows : c \in limbo} \ {rows})' = {r} \ {rows}
  <2>1. {c.rows : c \in {[rows |-> r, journal |-> j]}} = {r}
    OBVIOUS
  <2>2. QED
    BY <1>2, <2>1 DEF CommitFails
<1>3. QED
  BY <1>1, <1>2

\* One that leaves the rows alone settles what was in doubt.
LEMMA CommitIsSettle ==
  ASSUME NEW j, Commit(rows, j) \/ CommitFails(rows, j)
  PROVE  Abstract!Settle
BY DoubtAfterCommit DEF Abstract!Settle

\* Each step of the service is a step of the abstract vault.
LEMMA RefineStep ==
  ASSUME CleanupInv, Certain, [Next]_vars
  PROVE  Goal
<1> USE DEF Abstract!Next, Abstract!vars, Goal
<1>1. CASE UNCHANGED <<rows, limbo>>
  BY <1>1
<1>2. ASSUME NEW p \in Procs, OpenCatalog(p) PROVE Goal
  BY <1>2 DEF OpenCatalog, Abstract!Settle
<1>3. ASSUME NEW p \in Procs, CloseCatalog(p) PROVE Goal
  BY <1>3 DEF CloseCatalog, Abstract!Settle
<1>4. ASSUME NEW p \in Procs, CommitImport(p) PROVE Goal
  <2>1. PICK m \in Media \ MediaIn(rows) :
          LET new == InsertRow(rows, obj[p], m)
          IN  Commit(new, journal) \/ CommitFails(new, journal)
    BY <1>4 DEF CommitImport
  <2>2. PICK id \in Ids \ Referenced(rows) : id = obj[p] /\ RoleOf[id] = Original
    BY <1>4 DEF CommitImport, CleanupInv, WorkOK, NoTrace, Referenced,
                RepairInv, TypeOK, SessionTypeOK
  <2>3. Abstract!Change(Abstract!InsertRow(rows, id, m))
    BY <2>1, <2>2, DoubtAfterCommit, SameCatalog DEF Abstract!Change
  <2>4. QED
    BY <2>2, <2>3, SameCatalog DEF Abstract!Import
<1>5. ASSUME NEW p \in Procs, CommitReplace(p) PROVE Goal
  <2>1. PICK m \in MediaIn(rows) :
          LET new == ReplaceDerived(rows, obj[p], m)
              e   == CleanupIntent(obj[p], Replaced(rows, obj[p], m))
          IN  \/ Commit(new, journal \cup {e})
              \/ CommitFails(new, journal \cup {e})
    BY <1>5 DEF CommitReplace
  <2>2. PICK id \in Ids \ Referenced(rows) : id = obj[p] /\ RoleOf[id] # Original
    BY <1>5 DEF CommitReplace, CleanupInv, WorkOK, NoTrace, Referenced,
                RepairInv, TypeOK, SessionTypeOK
  <2>3. Abstract!Change(Abstract!ReplaceDerived(rows, id, m))
    BY <2>1, <2>2, DoubtAfterCommit, SameCatalog DEF Abstract!Change
  <2>4. QED
    BY <2>2, <2>3, SameCatalog DEF Abstract!Replace
<1>6. ASSUME NEW p \in Procs, DeleteMedia(p) PROVE Goal
  <2>1. PICK m \in MediaIn(rows) :
          LET e   == CleanupIntent(m, ObjectsOf(rows, m))
              new == DropRows(rows, e.targets)
          IN  Commit(new, journal \cup {e}) \/ CommitFails(new, journal \cup {e})
    BY <1>6 DEF DeleteMedia
  <2>2. CleanupIntent(m, ObjectsOf(rows, m)).targets = ObjectsOf(rows, m)
    BY DEF CleanupIntent
  <2>3. Abstract!Change(Abstract!DropRows(rows, Abstract!ObjectsOf(rows, m)))
    BY <2>1, <2>2, DoubtAfterCommit, SameCatalog DEF Abstract!Change
  <2>4. QED
    BY <2>3, SameCatalog DEF Abstract!Delete
<1>7. ASSUME NEW p \in Procs, RemoveOperation(p) PROVE Goal
  BY <1>7, CommitIsSettle DEF RemoveOperation
<1>8. ASSUME NEW p \in Procs, ScanObject(p) PROVE Goal
  <2>1. CASE UNCHANGED catalogVars
    BY <2>1, <1>1 DEF catalogVars
  <2>2. CASE ~UNCHANGED catalogVars
    <3>1. PICK id \in Referenced(rows) :
            LET new == MarkDamaged(rows, id)
            IN  Commit(new, journal) \/ CommitFails(new, journal)
      BY <1>8, <2>2 DEF ScanObject
    <3>2. Abstract!Change(Abstract!MarkDamaged(rows, id))
      BY <3>1, DoubtAfterCommit, SameCatalog DEF Abstract!Change
    <3>3. QED
      BY <3>2, SameCatalog DEF Abstract!Damage
  <2>3. QED
    BY <2>1, <2>2
<1>9. QED
  <2>1. \/ UNCHANGED <<rows, limbo>>
        \/ \E p \in Procs : \/ OpenCatalog(p) \/ CloseCatalog(p) \/ Transact(p)
                            \/ RemoveOperation(p) \/ ScanObject(p)
    BY CatalogSteps DEF CleanupInv
  <2>2. ASSUME NEW p \in Procs, RejectCommit(p) PROVE UNCHANGED <<rows, limbo>>
    BY <2>2 DEF RejectCommit, catalogVars
  <2>3. QED
    BY <1>1, <1>2, <1>3, <1>4, <1>5, <1>6, <1>7, <1>8, <2>1, <2>2 DEF Transact

\* The library changes by one whole import, delete, replacement or damage mark
\* at a time; kills, failures, power losses, recovery and reopening do not show,
\* except that the outcome of a failed commit is open until it is settled, for which
\* no power loss may follow it.
THEOREM Implements ==
  ASSUME Certain PROVE Spec => AbstractSpec
<1>1. Init => Abstract!Init
  BY DEF Init, Abstract!Init
<1>2. CleanupInv /\ [Next]_vars => [Abstract!Next]_(Abstract!vars)
  BY RefineStep DEF Goal
<1>3. QED
  BY <1>1, <1>2, CleanupAlways, PTL DEF Spec, AbstractSpec, Abstract!Spec

-----------------------------------------------------------------------------
(* What the library's changes keep. *)

\* An operation takes effect or is in doubt: its rows are among those to come.
LEMMA FormedChange ==
  ASSUME LibraryWellFormed, NEW r, WellFormed(r),
         \/ rows' = r /\ ({c.rows : c \in limbo} \ {rows})' = {}
         \/ rows' = rows /\ ({c.rows : c \in limbo} \ {rows})' = {r} \ {rows}
  PROVE  LibraryWellFormed'
<1> DEFINE doubt == {c.rows : c \in limbo} \ {rows}
<1>1. {rows'} \cup doubt' \subseteq {rows, r}
  OBVIOUS
<1>2. ({rows} \cup {c.rows : c \in limbo})' = {rows'} \cup doubt'
  OBVIOUS
<1>3. WellFormed(rows)
  BY DEF LibraryWellFormed
<1>4. \A x \in ({rows} \cup {c.rows : c \in limbo})' : WellFormed(x)
  BY <1>1, <1>2, <1>3
<1> QED
  BY <1>4 DEF LibraryWellFormed

\* A change of the abstract library keeps its rows well formed.
LEMMA FormedStep ==
  ASSUME rows \in Rows, LibraryWellFormed, Goal
  PROVE  LibraryWellFormed'
<1>0. WellFormed(rows)
  BY DEF LibraryWellFormed
<1>1. CASE Abstract!Import
  <2>1. PICK id \in Ids \ Abstract!Referenced(rows),
             m \in Media \ Abstract!MediaIn(rows) :
          /\ RoleOf[id] = Abstract!Original
          /\ Abstract!Change(Abstract!InsertRow(rows, id, m))
    BY <1>1 DEF Abstract!Import
  <2>2. Abstract!InsertRow(rows, id, m) = InsertRow(rows, id, m)
    BY SameCatalog
  <2>3. WellFormed(InsertRow(rows, id, m))
    BY <1>0, <2>1, SameCatalog, ImportFormed
  <2> QED BY <2>1, <2>2, <2>3, FormedChange DEF Abstract!Change
<1>2. CASE Abstract!Delete
  <2>1. PICK m \in Abstract!MediaIn(rows) :
          Abstract!Change(Abstract!DropRows(rows, Abstract!ObjectsOf(rows, m)))
    BY <1>2 DEF Abstract!Delete
  <2>2. Abstract!DropRows(rows, Abstract!ObjectsOf(rows, m))
          = DropRows(rows, ObjectsOf(rows, m))
    BY SameCatalog
  <2>3. m \in MediaIn(rows)
    BY <2>1, SameCatalog
  <2>4. m \in Media
    BY <2>3 DEF MediaIn, Referenced, Rows, Row
  <2>5. WellFormed(DropRows(rows, ObjectsOf(rows, m)))
    BY <1>0, <2>4, DeleteFormed
  <2> QED BY <2>1, <2>2, <2>5, FormedChange DEF Abstract!Change
<1>3. CASE Abstract!Replace
  <2>1. PICK id \in Ids \ Abstract!Referenced(rows),
             m \in Abstract!MediaIn(rows) :
          /\ RoleOf[id] # Abstract!Original
          /\ Abstract!Change(Abstract!ReplaceDerived(rows, id, m))
    BY <1>3 DEF Abstract!Replace
  <2>2. Abstract!ReplaceDerived(rows, id, m) = ReplaceDerived(rows, id, m)
    BY SameCatalog
  <2>3. WellFormed(ReplaceDerived(rows, id, m))
    BY <1>0, <2>1, SameCatalog, ReplaceFormed
  <2> QED BY <2>1, <2>2, <2>3, FormedChange DEF Abstract!Change
<1>4. CASE Abstract!Damage
  <2>1. PICK id \in Abstract!Referenced(rows) :
          Abstract!Change(Abstract!MarkDamaged(rows, id))
    BY <1>4 DEF Abstract!Damage
  <2>2. Abstract!MarkDamaged(rows, id) = MarkDamaged(rows, id)
    BY SameCatalog
  <2>3. WellFormed(MarkDamaged(rows, id))
    BY <1>0, <2>1, SameCatalog, DamageFormed
  <2> QED BY <2>1, <2>2, <2>3, FormedChange DEF Abstract!Change
<1>5. CASE Abstract!Settle \/ UNCHANGED Abstract!vars
  <2> DEFINE doubt == {c.rows : c \in limbo} \ {rows}
  <2>1. {rows'} \cup doubt' \subseteq {rows} \cup doubt
    BY <1>5 DEF Abstract!Settle, Abstract!vars
  <2>2. ({rows} \cup {c.rows : c \in limbo})' = {rows'} \cup doubt'
    OBVIOUS
  <2>3. \A x \in ({rows} \cup {c.rows : c \in limbo})' : WellFormed(x)
    BY <2>1, <2>2 DEF LibraryWellFormed
  <2> QED
    BY <2>3 DEF LibraryWellFormed
<1> QED
  BY <1>1, <1>2, <1>3, <1>4, <1>5 DEF Goal, Abstract!Next

\* At every moment, under any fault, and whatever a doubtful transaction leaves (as
\* far as no power loss follows it), each object belongs to a medium that has its
\* original, and no medium has two objects of one role.
THEOREM CatalogFormed ==
  ASSUME Certain PROVE Spec => []LibraryWellFormed
<1>1. Init => LibraryWellFormed
  BY DEF Init, LibraryWellFormed, WellFormed, Referenced
<1>2. CleanupInv /\ LibraryWellFormed /\ [Next]_vars => LibraryWellFormed'
  <2>1. CleanupInv => rows \in Rows
    BY DEF CleanupInv, RepairInv, TypeOK, CatalogTypeOK
  <2> QED BY <2>1, RefineStep, FormedStep
<1> QED
  BY <1>1, <1>2, CleanupAlways, PTL DEF Spec
=============================================================================

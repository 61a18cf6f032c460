---------------------------- MODULE HeaderRewrap ----------------------------
(***************************************************************************)
(* The header of a vault (crates/osv-storage/src/lib.rs): unlocking from   *)
(* it or from its backup, and the change of credentials that rewrap_with   *)
(* makes with two renames, under I/O errors, kills and power losses        *)
(* between any two of its steps.                                           *)
(*                                                                         *)
(* A header is the credentials that unlock it; the salt and the KDF cost   *)
(* tell no two headers apart.  hOutcomes holds every directory that a      *)
(* power loss may leave behind.                                            *)
(***************************************************************************)
EXTENDS Naturals

CONSTANTS
  Credentials,   \* password and key file, as one
  First,         \* the credentials the vault was created with
  RewrapFaults   \* what may fail: "io", "kill", "power"

Nothing == "nothing"  \* no such file
Torn == "torn"        \* a file whose write failed half way

ASSUME RewrapAssumption ==
  /\ First \in Credentials
  /\ Nothing \notin Credentials /\ Torn \notin Credentials
  /\ RewrapFaults \subseteq {"io", "kill", "power"}

VARIABLES
  hDisk,      \* the three names of the directory as the process sees them
  hOutcomes,  \* what a power loss may leave of them
  hSession,   \* the UnlockedVault, and where its rewrap stands
  goal,       \* credentials the owner may rely on
  certain,    \* the last change of credentials that was asked for has returned
  journaled,  \* the file system keeps the order of changes that are not synced
  settled     \* the session found no change that was not synced

rewrapVars == <<hDisk, hOutcomes, hSession, goal, certain, journaled, settled>>

Names == {"header", "new", "backup"}
Directory == [Names -> Credentials \cup {Nothing, Torn}]
Steps == {"removeNew", "removeBackup", "syncRemoved", "write", "renameOld",
          "syncOld", "renameNew", "syncNew", "unlinkBackup", "syncEnd"}
Session == [pc : Steps \cup {"idle"}, credentials : Credentials,
            replacement : Credentials,
            source : {"Current", "RecoveryBackup"}]
NoSession == [pc |-> "none"]

Unlocks(d, c) == d["header"] = c \/ d["backup"] = c

RewrapInit ==
  /\ hDisk = [n \in Names |-> IF n = "header" THEN First ELSE Nothing]
  /\ hOutcomes = {hDisk}
  /\ hSession = NoSession
  /\ goal = {First} /\ certain = TRUE
  /\ journaled \in BOOLEAN
  /\ settled = TRUE

----------------------------------------------------------------------------
\* Changes of the directory.  Without a sync a power loss keeps a prefix of the
\* changes on a file system with an ordered journal, and any of them otherwise.

Put(d, n, value) == [d EXCEPT ![n] = value]
Moved(d, from, to) == IF d[from] = Nothing THEN d
                      ELSE [d EXCEPT ![to] = d[from], ![from] = Nothing]

PutEntry(n, value) ==
  /\ hDisk' = Put(hDisk, n, value)
  /\ hOutcomes' = hOutcomes \cup
       (IF journaled THEN {hDisk'} ELSE {Put(d, n, value) : d \in hOutcomes})

MoveEntry(from, to) ==
  /\ hDisk' = Moved(hDisk, from, to)
  /\ hOutcomes' = hOutcomes \cup
       (IF journaled THEN {hDisk'} ELSE {Moved(d, from, to) : d \in hOutcomes})

SyncDirectory == hOutcomes' = {hDisk} /\ UNCHANGED hDisk

----------------------------------------------------------------------------
\* The header is tried first; whatever goes wrong with it, the backup is tried.
\* A backup that unlocks makes a session that may not change credentials.
UnlockFrom(c, failed) ==
  LET source == IF hDisk["header"] = c /\ ~failed THEN "Current" ELSE "RecoveryBackup" IN
    /\ hSession.pc = "none"
    /\ failed => "io" \in RewrapFaults
    /\ source = "RecoveryBackup" => hDisk["backup"] = c
    /\ hSession' = [pc |-> "idle", credentials |-> c, replacement |-> c, source |-> source]
    /\ settled' = (hOutcomes = {hDisk})
    /\ UNCHANGED <<hDisk, hOutcomes, goal, certain, journaled>>

UnlockVault == \E c \in Credentials, failed \in BOOLEAN : UnlockFrom(c, failed)

\* Mutant: a session unlocked from the backup may change credentials.
MayAlwaysRewrap == hSession.pc = "idle"

MayRewrap == hSession.pc = "idle" /\ hSession.source = "Current"

\* The owner asks for new credentials.  From then on both the old and the new ones
\* are meant to unlock, and any older ones that an unsynced change may bring back.
BeginRewrap(c) ==
  /\ MayRewrap
  /\ hSession' = [hSession EXCEPT !.pc = "removeNew", !.replacement = c]
  /\ goal' = {hSession.credentials, c} \cup (IF settled THEN {} ELSE goal)
  /\ certain' = FALSE
  /\ UNCHANGED <<hDisk, hOutcomes, journaled, settled>>

At(step) == hSession.pc = step
Goto(step) == hSession' = [hSession EXCEPT !.pc = step]
Still == UNCHANGED <<goal, certain, journaled, settled>>

RemoveNew == At("removeNew") /\ PutEntry("new", Nothing) /\ Goto("removeBackup") /\ Still
RemoveBackup ==
  At("removeBackup") /\ PutEntry("backup", Nothing) /\ Goto("syncRemoved") /\ Still
SyncRemoved == At("syncRemoved") /\ SyncDirectory /\ Goto("write") /\ Still

\* The new header is written and its bytes are synced, its name is not.
WriteNew == At("write") /\ PutEntry("new", hSession.replacement) /\ Goto("renameOld") /\ Still

\* From the first rename on the handle is for recovery only.
RenameOld ==
  /\ At("renameOld") /\ MoveEntry("header", "backup")
  /\ hSession' = [hSession EXCEPT !.pc = "syncOld", !.source = "RecoveryBackup"]
  /\ Still

SyncOld == At("syncOld") /\ SyncDirectory /\ Goto("renameNew") /\ Still
RenameNew == At("renameNew") /\ MoveEntry("new", "header") /\ Goto("syncNew") /\ Still
SyncNew == At("syncNew") /\ SyncDirectory /\ Goto("unlinkBackup") /\ Still
UnlinkBackup == At("unlinkBackup") /\ PutEntry("backup", Nothing) /\ Goto("syncEnd") /\ Still

\* Mutant: the removal of the backup is not synced.
EndWithoutSync == UNCHANGED <<hDisk, hOutcomes>>

EndSync == SyncDirectory

SyncEnd ==
  /\ At("syncEnd") /\ EndSync
  /\ hSession' = [pc |-> "idle", credentials |-> hSession.replacement,
                  replacement |-> hSession.replacement, source |-> "Current"]
  /\ goal' = {hSession.replacement} /\ certain' = TRUE
  /\ settled' = TRUE
  /\ UNCHANGED journaled

\* A step fails before it has an effect; a write may fail half way.
FailStep ==
  /\ "io" \in RewrapFaults
  /\ hSession.pc \in Steps
  /\ \/ UNCHANGED <<hDisk, hOutcomes>>
     \/ At("write") /\ PutEntry("new", Torn)
  /\ Goto("idle")
  /\ Still

\* The handle is dropped, or the process is killed.
Leave ==
  /\ hSession.pc # "none"
  /\ hSession.pc \in Steps => "kill" \in RewrapFaults
  /\ hSession' = NoSession
  /\ UNCHANGED <<hDisk, hOutcomes, goal, certain, journaled, settled>>

PowerLoss ==
  /\ "power" \in RewrapFaults
  /\ hDisk' \in hOutcomes
  /\ hOutcomes' = {hDisk'}
  /\ hSession' = NoSession
  /\ UNCHANGED <<goal, certain, journaled, settled>>

RewrapNext ==
  \/ UnlockVault \/ \E c \in Credentials : BeginRewrap(c)
  \/ RemoveNew \/ RemoveBackup \/ SyncRemoved \/ WriteNew \/ RenameOld \/ SyncOld
  \/ RenameNew \/ SyncNew \/ UnlinkBackup \/ SyncEnd
  \/ FailStep \/ Leave \/ PowerLoss

RewrapSpec == RewrapInit /\ [][RewrapNext]_rewrapVars

----------------------------------------------------------------------------
RewrapTypeOK ==
  /\ hDisk \in Directory /\ hOutcomes \subseteq Directory
  /\ hSession \in Session \cup {NoSession}
  /\ goal \subseteq Credentials
  /\ certain \in BOOLEAN /\ journaled \in BOOLEAN /\ settled \in BOOLEAN

\* Wherever a change of credentials is cut short, the old or the new credentials
\* unlock what is on the disk: the order of the removals, the two renames and their
\* syncs, and the refusal to rewrap from a backup.  On a file system that reorders
\* unsynced changes this needs a session that started from a synced directory.
OldOrNewUnlocks ==
  journaled \/ settled =>
    \A d \in hOutcomes \cup {hDisk} : \E c \in goal : Unlocks(d, c)

\* Once a change of credentials has returned, and until the next one is asked for, no
\* power loss brings back a file that other credentials unlock.
OldCredentialsAreGone ==
  certain => \A d \in hOutcomes \cup {hDisk}, c \in Credentials : Unlocks(d, c) => c \in goal

\* A change of credentials never locks the owner out of the vault, and when it has
\* returned it keeps the old credentials out.
RewrapIsSafe == OldOrNewUnlocks /\ OldCredentialsAreGone
=============================================================================

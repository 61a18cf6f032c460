-------------------------- MODULE HeaderRewrapProofs --------------------------
(***************************************************************************)
(* For any credentials and any faults: a change of credentials never locks *)
(* the owner out, and when it has returned it keeps the old ones out.      *)
(*                                                                         *)
(* The invariant follows the header.  In every directory that a power loss *)
(* may leave, the header, or the backup where there is no header, belongs  *)
(* to the goal; and a session that may rewrap knows the header it moves.   *)
(***************************************************************************)
EXTENDS HeaderRewrap, TLAPS

Directories == hOutcomes \cup {hDisk}

\* What is tried first belongs to the goal.
BelongsToGoal(d) ==
  /\ d["header"] \in Credentials => d["header"] \in goal
  /\ d["header"] \notin Credentials /\ d["backup"] \in Credentials => d["backup"] \in goal
HeadersBelong == \A d \in Directories : BelongsToGoal(d)

\* Nothing is lost where the property promises so.
Holds(d) == d["header"] \in Credentials \/ d["backup"] \in Credentials
NothingIsLost == journaled \/ settled => \A d \in Directories : Holds(d)

\* A session from the header has its credentials there, and if it started on a synced
\* directory then no power loss changes that.
CurrentStands ==
  hSession \in Session /\ hSession.source = "Current" =>
    /\ hDisk["header"] = hSession.credentials
    /\ settled => \A d \in hOutcomes : d["header"] = hSession.credentials

\* What the steps so far have left.
StepsStand ==
  /\ hSession.pc \in {"removeNew", "removeBackup", "syncRemoved", "write", "renameOld"} =>
       hSession.source = "Current"
  /\ hSession.pc \in {"syncOld", "renameNew", "syncNew", "unlinkBackup", "syncEnd"} =>
       hSession.source = "RecoveryBackup"
  /\ hSession.pc \in {"renameOld", "syncOld", "renameNew"} =>
       hDisk["new"] = hSession.replacement
  /\ hSession.pc \in {"renameNew", "unlinkBackup"} => hOutcomes = {hDisk}
  /\ hSession.pc \in {"syncNew", "unlinkBackup", "syncEnd"} =>
       hDisk["header"] = hSession.replacement
  /\ hSession.pc = "syncEnd" => hDisk["backup"] = Nothing
  /\ hSession.pc \in Steps => certain = FALSE /\ hSession.replacement \in goal

RewrapInvariant ==
  /\ RewrapTypeOK /\ HeadersBelong /\ NothingIsLost /\ CurrentStands /\ StepsStand
  /\ OldCredentialsAreGone

\* Where no header and no backup changes.
SameHeaders ==
  \A d \in hOutcomes' \cup {hDisk'} : \E e \in Directories :
    d["header"] = e["header"] /\ d["backup"] = e["backup"]

\* Credentials, the two states without them and the names are told apart.
LEMMA Values ==
  /\ First \in Credentials
  /\ Nothing \notin Credentials /\ Torn \notin Credentials /\ Nothing # Torn
  /\ "header" \in Names /\ "new" \in Names /\ "backup" \in Names
BY RewrapAssumption DEF RewrapAssumption, Names, Nothing, Torn

\* The invariant holds at first.
LEMMA RewrapInitial == RewrapInit => RewrapInvariant
<1> SUFFICES ASSUME RewrapInit PROVE RewrapInvariant
  OBVIOUS
<1> USE Values DEF RewrapInit
<1>1. /\ hDisk \in Directory /\ hDisk["header"] = First /\ hDisk["backup"] = Nothing
      /\ hOutcomes = {hDisk} /\ Directories = {hDisk}
  BY DEF Directory, Names, Directories
<1>2. hSession.pc = "none" /\ hSession \notin Session
  BY DEF NoSession, Session, Steps
<1>3. RewrapTypeOK
  BY <1>1 DEF RewrapTypeOK
<1>4. HeadersBelong /\ NothingIsLost /\ OldCredentialsAreGone
  BY <1>1 DEF HeadersBelong, BelongsToGoal, NothingIsLost, Holds, OldCredentialsAreGone,
              Unlocks
<1>5. CurrentStands /\ StepsStand
  BY <1>2 DEF CurrentStands, StepsStand, Steps
<1> QED
  BY <1>3, <1>4, <1>5 DEF RewrapInvariant

-----------------------------------------------------------------------------
(* The changes of the directory. *)

\* A write keeps the types of the directory.
LEMMA PutTypes ==
  ASSUME RewrapTypeOK, NEW n \in Names, NEW value \in Credentials \cup {Nothing, Torn},
         PutEntry(n, value)
  PROVE  hDisk' \in Directory /\ hOutcomes' \subseteq Directory
<1>1. \A d \in Directory : Put(d, n, value) \in Directory
  BY DEF Put, Directory
<1> QED
  BY <1>1 DEF RewrapTypeOK, PutEntry

\* So does a rename.
LEMMA MoveTypes ==
  ASSUME RewrapTypeOK, NEW from \in Names, NEW to \in Names, MoveEntry(from, to)
  PROVE  hDisk' \in Directory /\ hOutcomes' \subseteq Directory
<1>1. \A d \in Directory : Moved(d, from, to) \in Directory
  BY DEF Moved, Directory
<1> QED
  BY <1>1 DEF RewrapTypeOK, MoveEntry

\* Every directory there may be after a change was there, or comes from one that was:
\* from what is on the disk if the journal is ordered.
LEMMA PutComesFrom ==
  ASSUME NEW n \in Names, NEW value, PutEntry(n, value)
  PROVE  /\ hDisk' = Put(hDisk, n, value)
         /\ \A d \in hOutcomes' \cup {hDisk'} :
              \/ d \in Directories
              \/ d = Put(hDisk, n, value)
              \/ journaled # TRUE /\ \E e \in hOutcomes : d = Put(e, n, value)
BY DEF PutEntry, Directories

\* What is at a name after a rename was somewhere before.
LEMMA MoveComesFrom ==
  ASSUME NEW from \in Names, NEW to \in Names, MoveEntry(from, to)
  PROVE  /\ hDisk' = Moved(hDisk, from, to)
         /\ \A d \in hOutcomes' \cup {hDisk'} :
              \/ d \in Directories
              \/ d = Moved(hDisk, from, to)
              \/ journaled # TRUE /\ \E e \in hOutcomes : d = Moved(e, from, to)
BY DEF MoveEntry, Directories

\* The new header and a sync change no header and no backup.
LEMMA PutNewKeepsHeaders ==
  ASSUME RewrapTypeOK, NEW value, PutEntry("new", value)
  PROVE  /\ SameHeaders
         /\ hDisk'["header"] = hDisk["header"] /\ hDisk'["backup"] = hDisk["backup"]
         /\ hDisk'["new"] = value
<1>1. \A d \in Directory : /\ Put(d, "new", value)["header"] = d["header"]
                           /\ Put(d, "new", value)["backup"] = d["backup"]
                           /\ Put(d, "new", value)["new"] = value
  BY DEF Put, Directory, Names
<1>2. hDisk \in Directory /\ hOutcomes \subseteq Directory
  BY DEF RewrapTypeOK
<1>3. hDisk' = Put(hDisk, "new", value)
  BY Values, PutComesFrom
<1>4. ASSUME NEW d \in hOutcomes' \cup {hDisk'}
      PROVE  \E e \in Directories : d["header"] = e["header"] /\ d["backup"] = e["backup"]
  <2>1. CASE d \in Directories
    BY <2>1
  <2>2. CASE d = Put(hDisk, "new", value)
    BY <2>2, <1>1, <1>2 DEF Directories
  <2>3. CASE \E e \in hOutcomes : d = Put(e, "new", value)
    BY <2>3, <1>1, <1>2 DEF Directories
  <2> QED
    BY <2>1, <2>2, <2>3, <1>4, Values, PutComesFrom
<1> QED
  BY <1>1, <1>2, <1>3, <1>4 DEF SameHeaders

\* Where the headers stay, what holds of them stays.
LEMMA HeadersStay ==
  ASSUME RewrapInvariant, SameHeaders, UNCHANGED <<goal, certain, journaled, settled>>
  PROVE  HeadersBelong' /\ NothingIsLost' /\ OldCredentialsAreGone'
<1> USE DEF RewrapInvariant, SameHeaders
<1>1. HeadersBelong'
  BY DEF HeadersBelong, BelongsToGoal, Directories
<1>2. NothingIsLost'
  BY DEF NothingIsLost, Holds, Directories
<1>3. OldCredentialsAreGone'
  BY DEF OldCredentialsAreGone, Unlocks, Directories
<1> QED
  BY <1>1, <1>2, <1>3

-----------------------------------------------------------------------------
(* The steps. *)

\* A session is not the lack of one; its step and its credentials have their
\* types.
LEMMA SessionTypes ==
  /\ NoSession \notin Session /\ NoSession.pc = "none"
  /\ \A s \in Session : s.pc # "none" /\ s.pc \in Steps \cup {"idle"}
  /\ \A s \in Session : s.credentials \in Credentials /\ s.replacement \in Credentials
BY DEF NoSession, Session, Steps

\* Only the session changes, and it starts no step.
LEMMA UnlockStep ==
  ASSUME RewrapInvariant, UnlockVault
  PROVE  RewrapInvariant'
<1> USE DEF RewrapInvariant
<1>1. PICK c \in Credentials, failed \in BOOLEAN : UnlockFrom(c, failed)
  BY DEF UnlockVault
<1> DEFINE source == IF hDisk["header"] = c /\ ~failed THEN "Current" ELSE "RecoveryBackup"
<1>2. /\ UNCHANGED <<hDisk, hOutcomes, goal, certain, journaled>>
      /\ settled' = (hOutcomes = {hDisk})
      /\ hSession' = [pc |-> "idle", credentials |-> c, replacement |-> c, source |-> source]
      /\ hDisk["header"] = c \/ hDisk["backup"] = c
      /\ source = "Current" => hDisk["header"] = c
  BY <1>1 DEF UnlockFrom
<1>3. hSession' \in Session /\ hSession'.pc = "idle" /\ hSession'.credentials = c
  BY <1>2 DEF Session
<1>4. RewrapTypeOK'
  BY <1>2, <1>3 DEF RewrapTypeOK
<1>5. HeadersBelong' /\ OldCredentialsAreGone'
  BY <1>2 DEF HeadersBelong, BelongsToGoal, Directories, OldCredentialsAreGone
<1>6. NothingIsLost'
  <2>1. CASE hOutcomes = {hDisk}
    BY <1>2, <2>1 DEF NothingIsLost, Holds, Directories
  <2>2. CASE hOutcomes # {hDisk}
    <3>1. settled' = FALSE
      BY <1>2, <2>2
    <3> QED
      BY <1>2, <3>1 DEF NothingIsLost, Holds, Directories, RewrapTypeOK
  <2> QED
    BY <2>1, <2>2
<1>7. CurrentStands'
  <2> SUFFICES ASSUME hSession'.source = "Current"
               PROVE  /\ hDisk'["header"] = hSession'.credentials
                      /\ settled' => \A d \in hOutcomes' : d["header"] = hSession'.credentials
    BY DEF CurrentStands
  <2>1. hDisk["header"] = c
    BY <1>2
  <2> QED
    BY <1>2, <1>3, <2>1
<1>8. StepsStand'
  BY <1>3 DEF StepsStand, Steps
<1> QED
  BY <1>4, <1>5, <1>6, <1>7, <1>8

\* The start of a change keeps the invariant.
LEMMA BeginStep ==
  ASSUME RewrapInvariant, NEW c \in Credentials, BeginRewrap(c)
  PROVE  RewrapInvariant'
<1> USE DEF RewrapInvariant
<1>1. /\ hSession \in Session /\ hSession.source = "Current"
      /\ UNCHANGED <<hDisk, hOutcomes, journaled, settled>>
      /\ hSession' = [hSession EXCEPT !.pc = "removeNew", !.replacement = c]
      /\ goal' = {hSession.credentials, c} \cup (IF settled THEN {} ELSE goal)
      /\ certain' = FALSE
  BY SessionTypes DEF BeginRewrap, MayRewrap, RewrapTypeOK
<1>2. /\ hSession' \in Session /\ hSession'.pc = "removeNew" /\ hSession'.replacement = c
      /\ hSession'.credentials = hSession.credentials /\ hSession'.source = "Current"
      /\ hSession.credentials \in Credentials
  BY <1>1 DEF Session, Steps
<1>3. RewrapTypeOK'
  <2>1. goal' \subseteq Credentials
    BY <1>1, <1>2 DEF RewrapTypeOK
  <2> QED
    BY <1>1, <1>2, <2>1 DEF RewrapTypeOK
<1>4. HeadersBelong'
  <2>1. CASE settled = TRUE
    <3>1. \A d \in Directories : d["header"] = hSession.credentials
      BY <1>1, <2>1 DEF CurrentStands, Directories
    <3> QED
      BY <1>1, <1>2, <3>1 DEF HeadersBelong, BelongsToGoal, Directories
  <2>2. CASE settled = FALSE
    <3>1. goal \subseteq goal'
      BY <1>1, <2>2
    <3> QED
      BY <1>1, <3>1 DEF HeadersBelong, BelongsToGoal, Directories
  <2> QED
    BY <2>1, <2>2 DEF RewrapTypeOK
<1>5. NothingIsLost' /\ OldCredentialsAreGone'
  BY <1>1 DEF NothingIsLost, Holds, Directories, OldCredentialsAreGone
<1>6. CurrentStands'
  BY <1>1, <1>2 DEF CurrentStands
<1>7. StepsStand'
  BY <1>1, <1>2 DEF StepsStand
<1> QED
  BY <1>3, <1>4, <1>5, <1>6, <1>7

\* What a step does to the session.
LEMMA StepTypes ==
  ASSUME RewrapInvariant, NEW step \in Steps, At(step),
         NEW next \in Steps \cup {"idle"}, Goto(next)
  PROVE  /\ hSession \in Session /\ hSession' \in Session
         /\ hSession.pc = step /\ hSession'.pc = next
         /\ hSession'.credentials = hSession.credentials
         /\ hSession'.replacement = hSession.replacement
         /\ hSession'.source = hSession.source
         /\ hSession.replacement \in Credentials /\ hSession.replacement \in goal
         /\ certain = FALSE
<1>1. hSession \in Session /\ hSession.pc = step
  BY SessionTypes DEF RewrapInvariant, RewrapTypeOK, At, Steps
<1>2. hSession' \in Session /\ hSession'.pc = next
  BY <1>1 DEF Goto, Session
<1>3. certain = FALSE /\ hSession.replacement \in goal
  BY <1>1 DEF RewrapInvariant, StepsStand
<1> QED
  BY <1>1, <1>2, <1>3, SessionTypes DEF Goto, Session

\* A new header, or a torn one, under the name that nothing unlocks.
LEMMA PutNewStep ==
  ASSUME RewrapInvariant, NEW step \in Steps, At(step),
         step \in {"removeNew", "write"},
         NEW value \in Credentials \cup {Nothing, Torn}, PutEntry("new", value),
         NEW next \in {"idle", "removeBackup", "renameOld"}, Goto(next), Still,
         next = "renameOld" => value = hSession.replacement
  PROVE  RewrapInvariant'
<1> USE DEF RewrapInvariant
<1>1. next \in Steps \cup {"idle"}
  BY DEF Steps
<1>2. /\ hSession \in Session /\ hSession' \in Session
      /\ hSession.pc = step /\ hSession'.pc = next
      /\ hSession'.credentials = hSession.credentials
      /\ hSession'.replacement = hSession.replacement /\ hSession'.source = hSession.source
      /\ hSession.replacement \in goal /\ certain = FALSE
  BY <1>1, StepTypes
<1>3. UNCHANGED <<goal, certain, journaled, settled>>
  BY DEF Still
<1>4. /\ SameHeaders /\ hDisk'["header"] = hDisk["header"] /\ hDisk'["new"] = value
  BY PutNewKeepsHeaders
<1>5. HeadersBelong' /\ NothingIsLost' /\ OldCredentialsAreGone'
  BY <1>3, <1>4, HeadersStay
<1>6. RewrapTypeOK'
  BY <1>2, <1>3, Values, PutTypes DEF RewrapTypeOK
<1>7. CurrentStands'
  BY <1>2, <1>3, <1>4 DEF CurrentStands, SameHeaders, Directories
<1>8. StepsStand'
  BY <1>2, <1>3, <1>4 DEF StepsStand
<1> QED
  BY <1>5, <1>6, <1>7, <1>8

\* A sync leaves what is on the disk and nothing else.
LEMMA SyncKeepsHeaders ==
  ASSUME RewrapTypeOK, SyncDirectory
  PROVE  /\ SameHeaders /\ hDisk' = hDisk /\ hOutcomes' = {hDisk}
         /\ hDisk' \in Directory /\ hOutcomes' \subseteq Directory
BY DEF SyncDirectory, SameHeaders, Directories, RewrapTypeOK

\* A sync of the directory keeps it.
LEMMA SyncStep ==
  ASSUME RewrapInvariant, NEW step \in {"syncRemoved", "syncOld", "syncNew"}, At(step),
         SyncDirectory, NEW next \in {"write", "renameNew", "unlinkBackup"}, Goto(next), Still,
         next = "write" => step = "syncRemoved",
         next = "renameNew" => step = "syncOld",
         next = "unlinkBackup" => step = "syncNew"
  PROVE  RewrapInvariant'
<1> USE DEF RewrapInvariant
<1>1. step \in Steps /\ next \in Steps /\ next \in Steps \cup {"idle"}
  BY DEF Steps
<1>2. /\ hSession \in Session /\ hSession' \in Session
      /\ hSession.pc = step /\ hSession'.pc = next
      /\ hSession'.credentials = hSession.credentials
      /\ hSession'.replacement = hSession.replacement /\ hSession'.source = hSession.source
      /\ hSession.replacement \in goal /\ certain = FALSE
  BY <1>1, StepTypes
<1>3. UNCHANGED <<goal, certain, journaled, settled>>
  BY DEF Still
<1>4. /\ SameHeaders /\ hDisk' = hDisk /\ hOutcomes' = {hDisk}
      /\ hDisk' \in Directory /\ hOutcomes' \subseteq Directory
  BY SyncKeepsHeaders
<1>5. HeadersBelong' /\ NothingIsLost' /\ OldCredentialsAreGone'
  BY <1>3, <1>4, HeadersStay
<1>6. RewrapTypeOK'
  BY <1>2, <1>3, <1>4 DEF RewrapTypeOK
<1>7. CurrentStands'
  BY <1>2, <1>3, <1>4 DEF CurrentStands
<1>8. StepsStand'
  BY <1>1, <1>2, <1>3, <1>4 DEF StepsStand
<1> QED
  BY <1>5, <1>6, <1>7, <1>8

\* The backup goes while the header is there: on the disk, and, where a power loss may
\* take one change without the other, in every directory it may leave.
LEMMA RemoveBackupStep ==
  ASSUME RewrapInvariant, NEW step \in {"removeBackup", "unlinkBackup"}, At(step),
         PutEntry("backup", Nothing),
         NEW next \in {"syncRemoved", "syncEnd"}, Goto(next), Still,
         next = "syncRemoved" => step = "removeBackup",
         next = "syncEnd" => step = "unlinkBackup"
  PROVE  RewrapInvariant'
<1> USE DEF RewrapInvariant
<1>1. step \in Steps /\ next \in Steps /\ next \in Steps \cup {"idle"}
  BY DEF Steps
<1>2. /\ hSession \in Session /\ hSession' \in Session
      /\ hSession.pc = step /\ hSession'.pc = next
      /\ hSession'.credentials = hSession.credentials
      /\ hSession'.replacement = hSession.replacement /\ hSession'.source = hSession.source
      /\ hSession.replacement \in Credentials /\ hSession.replacement \in goal
      /\ certain = FALSE
  BY <1>1, StepTypes
<1>3. UNCHANGED <<goal, certain, journaled, settled>>
  BY DEF Still
<1>4. \A d \in Directory : /\ Put(d, "backup", Nothing)["header"] = d["header"]
                           /\ Put(d, "backup", Nothing)["new"] = d["new"]
                           /\ Put(d, "backup", Nothing)["backup"] = Nothing
  BY DEF Put, Directory, Names
<1>5. hDisk \in Directory /\ hOutcomes \subseteq Directory
  BY DEF RewrapTypeOK
<1>6. /\ hDisk' = Put(hDisk, "backup", Nothing)
      /\ hDisk'["header"] = hDisk["header"] /\ hDisk'["backup"] = Nothing
  BY <1>4, <1>5, Values, PutComesFrom
<1>7. hDisk["header"] \in Credentials
  <2>1. hSession.credentials \in Credentials
    BY <1>2, SessionTypes
  <2>2. CASE step = "removeBackup"
    BY <1>2, <2>1, <2>2 DEF StepsStand, CurrentStands
  <2>3. CASE step = "unlinkBackup"
    BY <1>2, <2>3 DEF StepsStand
  <2> QED
    BY <2>2, <2>3
<1>8. settled = TRUE => \A e \in hOutcomes : e["header"] \in Credentials
  <2>1. hSession.credentials \in Credentials
    BY <1>2, SessionTypes
  <2>2. CASE step = "removeBackup"
    BY <1>2, <2>1, <2>2 DEF StepsStand, CurrentStands
  <2>3. CASE step = "unlinkBackup"
    BY <1>2, <1>7, <2>3 DEF StepsStand
  <2> QED
    BY <2>2, <2>3
<1>9. ASSUME NEW d \in hOutcomes' \cup {hDisk'}
      PROVE  \/ d \in Directories
             \/ /\ d["backup"] = Nothing
                /\ \E e \in Directories :
                     d["header"] = e["header"] /\ (e = hDisk \/ (e \in hOutcomes /\ journaled # TRUE))
  <2>1. CASE d \in Directories
    BY <2>1
  <2>2. CASE d = Put(hDisk, "backup", Nothing)
    <3>1. hDisk \in Directories /\ d["backup"] = Nothing /\ d["header"] = hDisk["header"]
      BY <2>2, <1>4, <1>5 DEF Directories
    <3> QED
      BY <3>1
  <2>3. CASE journaled # TRUE /\ \E e \in hOutcomes : d = Put(e, "backup", Nothing)
    BY <2>3, <1>4, <1>5 DEF Directories
  <2> QED
    BY <2>1, <2>2, <2>3, <1>9, Values, PutComesFrom
<1>10. RewrapTypeOK'
  BY <1>2, <1>3, Values, PutTypes DEF RewrapTypeOK
<1>11. HeadersBelong'
  BY <1>3, <1>9, Values DEF HeadersBelong, BelongsToGoal, Directories
<1>12. NothingIsLost'
  <2> SUFFICES ASSUME journaled = TRUE \/ settled = TRUE,
                      NEW d \in hOutcomes' \cup {hDisk'}
               PROVE  Holds(d)
    BY <1>3 DEF NothingIsLost, Directories, Holds, RewrapTypeOK
  <2>1. CASE d \in Directories
    BY <2>1 DEF NothingIsLost
  <2>2. CASE \E e \in Directories :
               d["header"] = e["header"] /\ (e = hDisk \/ (e \in hOutcomes /\ journaled # TRUE))
    BY <2>2, <1>7, <1>8 DEF Holds
  <2> QED
    BY <1>9, <2>1, <2>2
<1>13. CurrentStands'
  <2> SUFFICES ASSUME hSession.source = "Current"
               PROVE  /\ hDisk["header"] = hSession.credentials
                      /\ settled => \A d \in hOutcomes' : d["header"] = hSession.credentials
    BY <1>2, <1>3, <1>6 DEF CurrentStands
  <2>1. \A e \in Directories : settled = TRUE => e["header"] = hSession.credentials
    BY <1>2 DEF CurrentStands, Directories
  <2> QED
    BY <1>2, <1>9, <2>1 DEF CurrentStands, RewrapTypeOK
<1>14. StepsStand'
  BY <1>1, <1>2, <1>3, <1>6 DEF StepsStand
<1>15. OldCredentialsAreGone'
  BY <1>2, <1>3 DEF OldCredentialsAreGone
<1> QED
  BY <1>10, <1>11, <1>12, <1>13, <1>14, <1>15

\* The header becomes the backup, which is then tried in its place.
LEMMA RenameOldStep ==
  ASSUME RewrapInvariant, RenameOld
  PROVE  RewrapInvariant'
<1> USE DEF RewrapInvariant
<1>1. /\ hSession \in Session /\ hSession.pc = "renameOld" /\ hSession.source = "Current"
      /\ hSession.replacement \in goal /\ certain = FALSE
      /\ hDisk["new"] = hSession.replacement /\ hSession.credentials \in Credentials
      /\ hDisk["header"] = hSession.credentials
  BY SessionTypes DEF RenameOld, At, RewrapTypeOK, Steps, StepsStand, CurrentStands
<1>2. /\ hSession' \in Session /\ hSession'.pc = "syncOld"
      /\ hSession'.source = "RecoveryBackup"
      /\ hSession'.replacement = hSession.replacement
  BY <1>1 DEF RenameOld, Session, Steps
<1>3. UNCHANGED <<goal, certain, journaled, settled>> /\ MoveEntry("header", "backup")
  BY DEF RenameOld, Still
<1>4. \A d \in Directory :
        \/ d["header"] = Nothing /\ Moved(d, "header", "backup") = d
        \/ /\ d["header"] # Nothing
           /\ Moved(d, "header", "backup")["header"] = Nothing
           /\ Moved(d, "header", "backup")["backup"] = d["header"]
           /\ Moved(d, "header", "backup")["new"] = d["new"]
  BY DEF Moved, Directory, Names
<1>5. hDisk \in Directory /\ hOutcomes \subseteq Directory
  BY DEF RewrapTypeOK
<1>6. hDisk' = Moved(hDisk, "header", "backup") /\ hDisk'["new"] = hSession.replacement
  BY <1>1, <1>3, <1>4, <1>5, Values, MoveComesFrom
<1>7. ASSUME NEW d \in hOutcomes' \cup {hDisk'}
      PROVE  \/ d \in Directories
             \/ /\ d["header"] = Nothing
                /\ \E e \in Directories :
                     d["backup"] = e["header"] /\ (e = hDisk \/ (e \in hOutcomes /\ journaled # TRUE))
  <2>1. CASE d \in Directories
    BY <2>1
  <2>2. CASE d = Moved(hDisk, "header", "backup")
    <3>1. hDisk \in Directories
      BY DEF Directories
    <3>2. d = hDisk \/ (d["header"] = Nothing /\ d["backup"] = hDisk["header"])
      BY <2>2, <1>4, <1>5
    <3> QED
      BY <3>1, <3>2
  <2>3. CASE journaled # TRUE /\ \E e \in hOutcomes : d = Moved(e, "header", "backup")
    <3>1. PICK e \in hOutcomes : d = Moved(e, "header", "backup")
      BY <2>3
    <3> QED
      BY <2>3, <3>1, <1>4, <1>5 DEF Directories
  <2> QED
    BY <2>1, <2>2, <2>3, <1>3, <1>7, Values, MoveComesFrom
<1>8. RewrapTypeOK'
  BY <1>2, <1>3, Values, MoveTypes DEF RewrapTypeOK
<1>9. HeadersBelong'
  BY <1>3, <1>7, Values DEF HeadersBelong, BelongsToGoal, Directories
<1>10. NothingIsLost'
  <2> SUFFICES ASSUME journaled = TRUE \/ settled = TRUE,
                      NEW d \in hOutcomes' \cup {hDisk'}
               PROVE  Holds(d)
    BY <1>3 DEF NothingIsLost, Directories, Holds, RewrapTypeOK
  <2>1. CASE d \in Directories
    BY <2>1 DEF NothingIsLost
  <2>2. CASE \E e \in Directories :
               d["backup"] = e["header"] /\ (e = hDisk \/ (e \in hOutcomes /\ journaled # TRUE))
    BY <2>2, <1>1 DEF Holds, CurrentStands
  <2> QED
    BY <1>7, <2>1, <2>2
<1>11. CurrentStands'
  BY <1>2 DEF CurrentStands
<1>12. StepsStand'
  BY <1>1, <1>2, <1>3, <1>6 DEF StepsStand
<1>13. OldCredentialsAreGone'
  BY <1>1, <1>3 DEF OldCredentialsAreGone
<1> QED
  BY <1>8, <1>9, <1>10, <1>11, <1>12, <1>13

\* The new header takes its place; every directory there may be has it under "new".
LEMMA RenameNewStep ==
  ASSUME RewrapInvariant, RenameNew
  PROVE  RewrapInvariant'
<1> USE DEF RewrapInvariant
<1>1. "renameNew" \in Steps /\ "syncNew" \in Steps \cup {"idle"}
      /\ At("renameNew") /\ Goto("syncNew") /\ MoveEntry("new", "header") /\ Still
  BY DEF RenameNew, Steps
<1>2. /\ hSession \in Session /\ hSession' \in Session
      /\ hSession.pc = "renameNew" /\ hSession'.pc = "syncNew"
      /\ hSession'.credentials = hSession.credentials
      /\ hSession'.replacement = hSession.replacement /\ hSession'.source = hSession.source
      /\ hSession.replacement \in Credentials /\ hSession.replacement \in goal
      /\ certain = FALSE
  BY <1>1, StepTypes
<1>3. hOutcomes = {hDisk} /\ hDisk["new"] = hSession.replacement /\ hDisk \in Directory
  BY <1>2 DEF StepsStand, RewrapTypeOK
<1>4. UNCHANGED <<goal, certain, journaled, settled>>
  BY <1>1 DEF Still
<1>5. /\ Moved(hDisk, "new", "header")["header"] = hSession.replacement
      /\ Moved(hDisk, "new", "header")["backup"] = hDisk["backup"]
  BY <1>2, <1>3, Values DEF Moved, Directory, Names
<1>6. \A d \in hOutcomes' \cup {hDisk'} : d = hDisk \/ d = Moved(hDisk, "new", "header")
  BY <1>1, <1>3, Values, MoveComesFrom DEF Directories
<1>7. hDisk'["header"] = hSession.replacement
  BY <1>1, <1>5, Values, MoveComesFrom
<1>8. RewrapTypeOK'
  BY <1>1, <1>2, <1>4, Values, MoveTypes DEF RewrapTypeOK
<1>9. HeadersBelong'
  BY <1>2, <1>4, <1>5, <1>6 DEF HeadersBelong, BelongsToGoal, Directories
<1>10. NothingIsLost'
  <2>1. \A d \in hOutcomes' \cup {hDisk'} : d = hDisk \/ Holds(d)
    BY <1>2, <1>5, <1>6 DEF Holds
  <2> QED
    BY <1>4, <2>1 DEF NothingIsLost, Directories, Holds
<1>11. CurrentStands'
  BY <1>2 DEF CurrentStands, StepsStand
<1>12. StepsStand'
  BY <1>2, <1>4, <1>7 DEF StepsStand
<1>13. OldCredentialsAreGone'
  BY <1>2, <1>4 DEF OldCredentialsAreGone
<1> QED
  BY <1>8, <1>9, <1>10, <1>11, <1>12, <1>13

\* The change of credentials is over, and nothing but the new header is left.
LEMMA SyncEndStep ==
  ASSUME RewrapInvariant, SyncEnd
  PROVE  RewrapInvariant'
<1> USE DEF RewrapInvariant
<1>1. /\ hSession \in Session /\ hSession.pc = "syncEnd"
      /\ hSession.replacement \in Credentials
      /\ hDisk["header"] = hSession.replacement /\ hDisk["backup"] = Nothing
  BY SessionTypes DEF SyncEnd, At, RewrapTypeOK, Steps, StepsStand
<1>2. /\ hDisk' = hDisk /\ hOutcomes' = {hDisk}
      /\ hDisk' \in Directory /\ hOutcomes' \subseteq Directory
  BY SyncKeepsHeaders DEF SyncEnd, EndSync
<1>3. /\ hSession' \in Session /\ hSession'.pc = "idle"
      /\ hSession'.credentials = hSession.replacement
      /\ goal' = {hSession.replacement} /\ certain' = TRUE /\ settled' = TRUE
      /\ journaled' = journaled
  BY <1>1 DEF SyncEnd, Session
<1>4. RewrapTypeOK'
  BY <1>1, <1>2, <1>3 DEF RewrapTypeOK
<1>5. HeadersBelong' /\ NothingIsLost'
  BY <1>1, <1>2, <1>3 DEF HeadersBelong, BelongsToGoal, NothingIsLost, Holds, Directories
<1>6. CurrentStands'
  BY <1>1, <1>2, <1>3 DEF CurrentStands
<1>7. StepsStand'
  BY <1>3 DEF StepsStand, Steps
<1>8. OldCredentialsAreGone'
  BY <1>1, <1>2, <1>3, Values DEF OldCredentialsAreGone, Unlocks
<1> QED
  BY <1>4, <1>5, <1>6, <1>7, <1>8

\* A step that fails keeps it.
LEMMA FailStepStep ==
  ASSUME RewrapInvariant, FailStep
  PROVE  RewrapInvariant'
<1> USE DEF RewrapInvariant
<1>1. hSession.pc \in Steps /\ Goto("idle") /\ Still
  BY DEF FailStep
<1>2. CASE UNCHANGED <<hDisk, hOutcomes>>
  <2>1. At(hSession.pc)
    BY DEF At
  <2>2. /\ hSession \in Session /\ hSession' \in Session /\ hSession'.pc = "idle"
        /\ hSession'.credentials = hSession.credentials
        /\ hSession'.source = hSession.source
    BY <1>1, <2>1, StepTypes
  <2>3. UNCHANGED <<goal, certain, journaled, settled>>
    BY <1>1 DEF Still
  <2>4. RewrapTypeOK'
    BY <1>2, <2>2, <2>3 DEF RewrapTypeOK
  <2>5. HeadersBelong' /\ NothingIsLost' /\ OldCredentialsAreGone'
    BY <1>2, <2>3 DEF HeadersBelong, BelongsToGoal, NothingIsLost, Holds, Directories,
                      OldCredentialsAreGone
  <2>6. CurrentStands'
    BY <1>2, <2>2, <2>3 DEF CurrentStands
  <2>7. StepsStand'
    BY <2>2 DEF StepsStand, Steps
  <2> QED
    BY <2>4, <2>5, <2>6, <2>7
<1>3. CASE At("write") /\ PutEntry("new", Torn)
  BY <1>1, <1>3, PutNewStep DEF Steps
<1> QED
  BY <1>2, <1>3 DEF FailStep

\* The end of a session keeps it.
LEMMA LeaveStep ==
  ASSUME RewrapInvariant, Leave
  PROVE  RewrapInvariant'
<1> USE DEF RewrapInvariant, Leave
<1>1. RewrapTypeOK'
  BY DEF RewrapTypeOK
<1>2. HeadersBelong' /\ NothingIsLost' /\ OldCredentialsAreGone'
  BY DEF HeadersBelong, BelongsToGoal, NothingIsLost, Holds, Directories, OldCredentialsAreGone
<1>3. CurrentStands' /\ StepsStand'
  BY SessionTypes DEF CurrentStands, StepsStand, Steps
<1> QED
  BY <1>1, <1>2, <1>3

\* A loss of power keeps it.
LEMMA PowerLossStep ==
  ASSUME RewrapInvariant, PowerLoss
  PROVE  RewrapInvariant'
<1> USE DEF RewrapInvariant, PowerLoss
<1>1. SameHeaders
  BY DEF SameHeaders, Directories
<1>2. RewrapTypeOK'
  BY DEF RewrapTypeOK
<1>3. HeadersBelong' /\ NothingIsLost' /\ OldCredentialsAreGone'
  BY <1>1, HeadersStay
<1>4. CurrentStands' /\ StepsStand'
  BY SessionTypes DEF CurrentStands, StepsStand, Steps
<1> QED
  BY <1>2, <1>3, <1>4

\* Nothing changes.
LEMMA RewrapStutter ==
  ASSUME RewrapInvariant, UNCHANGED rewrapVars
  PROVE  RewrapInvariant'
BY DEF RewrapInvariant, rewrapVars, RewrapTypeOK, HeadersBelong, BelongsToGoal, NothingIsLost,
       Holds, Directories, CurrentStands, StepsStand, OldCredentialsAreGone

\* Every step keeps the invariant.
LEMMA RewrapStep == RewrapInvariant /\ [RewrapNext]_rewrapVars => RewrapInvariant'
<1> SUFFICES ASSUME RewrapInvariant, [RewrapNext]_rewrapVars PROVE RewrapInvariant'
  OBVIOUS
<1> USE DEF Steps
<1>1. CASE UnlockVault
  BY <1>1, UnlockStep
<1>2. CASE \E c \in Credentials : BeginRewrap(c)
  BY <1>2, BeginStep
<1>3. CASE RemoveNew
  BY <1>3, PutNewStep DEF RemoveNew
<1>4. CASE RemoveBackup
  BY <1>4, RemoveBackupStep DEF RemoveBackup
<1>5. CASE SyncRemoved
  BY <1>5, SyncStep DEF SyncRemoved
<1>6. CASE WriteNew
  <2>1. hSession.replacement \in Credentials
    BY <1>6, SessionTypes DEF WriteNew, At, RewrapInvariant, RewrapTypeOK
  <2> QED
    BY <1>6, <2>1, PutNewStep DEF WriteNew
<1>7. CASE RenameOld
  BY <1>7, RenameOldStep
<1>8. CASE SyncOld
  BY <1>8, SyncStep DEF SyncOld
<1>9. CASE RenameNew
  BY <1>9, RenameNewStep
<1>10. CASE SyncNew
  BY <1>10, SyncStep DEF SyncNew
<1>11. CASE UnlinkBackup
  BY <1>11, RemoveBackupStep DEF UnlinkBackup
<1>12. CASE SyncEnd
  BY <1>12, SyncEndStep
<1>13. CASE FailStep
  BY <1>13, FailStepStep
<1>14. CASE Leave
  BY <1>14, LeaveStep
<1>15. CASE PowerLoss
  BY <1>15, PowerLossStep
<1>16. CASE UNCHANGED rewrapVars
  BY <1>16, RewrapStutter
<1> QED
  BY <1>1, <1>2, <1>3, <1>4, <1>5, <1>6, <1>7, <1>8, <1>9, <1>10, <1>11, <1>12, <1>13, <1>14,
     <1>15, <1>16 DEF RewrapNext

-----------------------------------------------------------------------------
(* The theorems. *)

\* The header, its backup and the session of UnlockedVault keep their shape, whatever
\* fails in rewrap_with and wherever the power is lost.
THEOREM RewrapIsTyped == RewrapSpec => []RewrapTypeOK
<1>1. RewrapInvariant => RewrapTypeOK
  BY DEF RewrapInvariant
<1> QED
  BY RewrapInitial, RewrapStep, <1>1, PTL DEF RewrapSpec

\* Wherever rewrap_with is cut short, the old or the new credentials unlock the vault; and
\* when it has returned, no power loss brings the old ones back.
THEOREM RewrapKeepsTheVault == RewrapSpec => []RewrapIsSafe
<1>1. RewrapInvariant => RewrapIsSafe
  <2> SUFFICES ASSUME RewrapInvariant PROVE RewrapIsSafe
    OBVIOUS
  <2>1. OldCredentialsAreGone
    BY DEF RewrapInvariant
  <2>2. OldOrNewUnlocks
    <3> SUFFICES ASSUME journaled \/ settled, NEW d \in Directories
                 PROVE  \E c \in goal : Unlocks(d, c)
      BY DEF OldOrNewUnlocks, Directories
    <3>1. Holds(d) /\ BelongsToGoal(d)
      BY DEF RewrapInvariant, NothingIsLost, HeadersBelong
    <3> QED
      BY <3>1 DEF Holds, BelongsToGoal, Unlocks
  <2> QED
    BY <2>1, <2>2 DEF RewrapIsSafe
<1> QED
  BY RewrapInitial, RewrapStep, <1>1, PTL DEF RewrapSpec
=============================================================================

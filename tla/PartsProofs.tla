----------------------------- MODULE PartsProofs ----------------------------
(***************************************************************************)
(* The components of Parts keep their promises for every value of their    *)
(* constants.  Each has an inductive invariant of its own; a step of Parts  *)
(* is a step of one of them or leaves it alone.                            *)
(***************************************************************************)
EXTENDS Parts, FiniteSetTheorems, TLAPS

\* A step of the parts is, for each of them, a step of its own or none.
LEMMA StepOfAPart ==
  ASSUME [PartsNext]_partVars
  PROVE  /\ [CreationNext]_creationVars
         /\ [BackupNext]_backupVars
         /\ [FilesNext]_fileVars
         /\ [GalleryNext]_galleryVars
         /\ [ViewNext]_viewVars
         /\ [PlaybackNext]_playbackVars
         /\ [ShellNext]_shellVars
         /\ [ObjectNext]_objectVars
         /\ [FormatNext]_formatVars
         /\ [WireNext]_wireVars
         /\ [ProbeNext]_probeVars
         /\ [RenditionNext]_renditionVars
<1> USE DEF partVars, directoryVars, screenVars, byteVars
<1>1. CASE UNCHANGED partVars
  BY <1>1
<1>2. CASE RewrapPart
  BY <1>2 DEF RewrapPart
<1>3. CASE CreationPart
  BY <1>3 DEF CreationPart
<1>4. CASE BackupPart
  BY <1>4 DEF BackupPart
<1>5. CASE FilesPart
  BY <1>5 DEF FilesPart
<1>6. CASE GalleryPart
  BY <1>6 DEF GalleryPart
<1>7. CASE ViewPart
  BY <1>7 DEF ViewPart
<1>8. CASE PlaybackPart
  BY <1>8 DEF PlaybackPart
<1>9. CASE ShellPart
  BY <1>9 DEF ShellPart
<1>10. CASE ObjectPart
  BY <1>10 DEF ObjectPart
<1>11. CASE HeaderPart
  BY <1>11 DEF HeaderPart
<1>12. CASE WirePart
  BY <1>12 DEF WirePart
<1>13. CASE ProbePart
  BY <1>13 DEF ProbePart
<1>14. CASE RenditionPart
  BY <1>14 DEF RenditionPart
<1> QED
  BY <1>1, <1>2, <1>3, <1>4, <1>5, <1>6, <1>7, <1>8, <1>9, <1>10, <1>11, <1>12, <1>13,
     <1>14 DEF PartsNext

----------------------------------------------------------------------------
\* Shell: handles and shortcuts.

\* The shortcuts that the shell begins with have a key each.
LEMMA ShellBegins ==
  ASSUME ShellInit
  PROVE  ShellInvariant
<1>1. \A c \in Commands : DefaultKey[c] \in {"l", "f", "g", "j", "comma"}
  BY DEF Commands, DefaultKey
<1>2. \A c, d \in Commands : DefaultKey[c] = DefaultKey[d] => c = d
  BY DEF Commands, DefaultKey
<1>3. \A c \in Commands : Binding(shortcuts[c]).key = DefaultKey[c]
  <2> TAKE c \in Commands
  <2> QED
    BY DEF Binding, DefaultShortcuts, Accelerator, ShellInit
<1>4. ShortcutsAreDistinct
  <2>1. \A b \in Reserved : b.key \in {"f4", "delete"}
    BY DEF Reserved
  <2> QED
    BY <1>1, <1>2, <1>3, <2>1 DEF ShortcutsAreDistinct
<1>5. DOMAIN shortcuts = Commands
  BY DEF ShellInit, DefaultShortcuts
<1> QED
  BY <1>4, <1>5 DEF ShellInit, ShellInvariant, AuthorityIsAccounted

\* Locks, replaced models, ended jobs and replaced workers revoke what they leave behind.
LEMMA ShellStep ==
  ASSUME ShellInvariant, [ShellNext]_shellVars
  PROVE  ShellInvariant'
<1> USE ShellAssumption DEF ShellInvariant, AuthorityIsAccounted, Worker, JobHandle
<1>0. ASSUME UNCHANGED shortcuts PROVE ShortcutsAreDistinct'
  BY <1>0 DEF ShortcutsAreDistinct
<1>1. CASE UNCHANGED shellVars
  BY <1>1, <1>0 DEF shellVars
<1>2. ASSUME NEW to \in Routes, Navigate(to) PROVE ShellInvariant'
  BY <1>2, <1>0 DEF Navigate
<1>3. CASE UnlockShell
  BY <1>3, <1>0 DEF UnlockShell
<1>4. CASE LockShell
  BY <1>4, <1>0 DEF LockShell
<1>5. CASE StartJob
  BY <1>5, <1>0 DEF StartJob
<1>6. ASSUME NEW w \in Workers, RegisterWorker(w) PROVE ShellInvariant'
  BY <1>6, <1>0 DEF RegisterWorker
<1>7. ASSUME NEW j \in 1..MaxJobs, NEW state, EndJob(j, state) PROVE ShellInvariant'
  BY <1>7, <1>0 DEF EndJob, ReleaseHandle, HandleOf
<1>8. ASSUME NEW c \in Commands, NEW a \in Accelerators, Assign(c, a) PROVE ShellInvariant'
  <2>1. \A d \in Commands : shortcuts'[d] = IF d = c THEN a ELSE shortcuts[d]
    BY <1>8 DEF Assign
  <2>2. ShortcutsAreDistinct'
    BY <1>8, <2>1 DEF Assign, ShortcutsAreDistinct, SameBinding
  <2> QED
    BY <1>8, <2>2 DEF Assign
<1> QED
  BY <1>1, <1>2, <1>3, <1>4, <1>5, <1>6, <1>7, <1>8
  DEF ShellNext, ActivateLock, JobResult, CancelJob

\* Every handle that is not revoked belongs to the unlocked session and stands for a job
\* that runs or for the only worker of its number, and no two shortcuts are one key press
\* (RevocationOwner, UnlockedModel and Shortcuts of the shell).
THEOREM ShellHolds == PartsSpec => []ShellIsAccounted
<1>1. PartsInit => ShellInvariant
  BY ShellBegins DEF PartsInit
<1>2. ShellInvariant /\ [PartsNext]_partVars => ShellInvariant'
  BY StepOfAPart, ShellStep
<1>3. ShellInvariant => ShellIsAccounted
  BY DEF ShellInvariant, ShellIsAccounted
<1> QED
  BY <1>1, <1>2, <1>3, PTL DEF PartsSpec

----------------------------------------------------------------------------
\* ViewerPlayback: the frame that is shown.

\* Nothing is viewed before the first original arrives.
LEMMA PlaybackBegins ==
  ASSUME PlaybackInit
  PROVE  PlaybackInvariant
BY PlaybackAssumption
DEF PlaybackInit, PlaybackInvariant, PictureIsTheFrame, NewPlayer, NoFrames, Blackness

\* What an original, the timer, a button, an import or a lock leaves of the picture.
LEMMA PlaybackStep ==
  ASSUME PlaybackInvariant, [PlaybackNext]_playbackVars
  PROVE  PlaybackInvariant'
<1> USE PlaybackAssumption
    DEF PlaybackInvariant, PictureIsTheFrame, NewPlayer, NoFrames, Frame
<1>1. CASE UNCHANGED playbackVars
  BY <1>1 DEF playbackVars
<1>2. CASE UnlockViewer
  BY <1>2 DEF UnlockViewer
<1>3. CASE LockViewer
  BY <1>3 DEF LockViewer, Blackness
<1>4. CASE ImportShown
  BY <1>4 DEF ImportShown, Imported
<1>5. ASSUME NEW m \in DOMAIN FrameCount, OpenOriginal(m) PROVE PlaybackInvariant'
  BY <1>5 DEF OpenOriginal
<1>6. ASSUME NEW i \in opening, OriginalArrives(i) PROVE PlaybackInvariant'
  BY <1>6 DEF OriginalArrives, PlayerOf
<1>7. ASSUME NEW i \in opening, OriginalDropped(i) PROVE PlaybackInvariant'
  BY <1>7 DEF OriginalDropped
<1>8. CASE Tick \/ ClickStep
  <2>1. /\ player' = StepForward(player) /\ picture' = Painted(player')
        /\ UNCHANGED <<viewing, opening, registry, delays, applied>>
    BY <1>8 DEF Tick, ClickStep, Advance
  <2>2. (player.frame + 1) % player.frames \in 0..player.frames - 1
    OBVIOUS
  <2>3. /\ player'.frame \in 0..player.frames - 1
        /\ player'.frames = player.frames /\ player'.transform = player.transform
    BY <2>1, <2>2 DEF StepForward
  <2> QED
    BY <2>1, <2>3 DEF Painted
<1>9. CASE ClickPlay
  BY <1>9 DEF ClickPlay, ToggleAnimation
<1>10. ASSUME NEW t \in Transforms, ClickTransform(t) PROVE PlaybackInvariant'
  BY <1>10 DEF ClickTransform
<1> QED
  BY <1>1, <1>2, <1>3, <1>4, <1>5, <1>6, <1>7, <1>8, <1>9, <1>10 DEF PlaybackNext

----------------------------------------------------------------------------
\* GalleryView: the tiles, and the listing that is navigated.

\* No tile shows anything, and no listing was asked for.
LEMMA ViewBegins ==
  ASSUME ViewInit
  PROVE  ViewInvariant
<1>1. /\ DOMAIN view = {"entries", "path", "selected", "up"} /\ DOMAIN tiles = Tiles
      /\ \A t \in Tiles : /\ DOMAIN tiles[t] = {"position", "picture"}
                          /\ tiles[t].position = Unbound
  BY DEF ViewInit, EmptyView, FreeTile
<1>2. loaded = <<0, 0>> /\ shownSession = 0 /\ sessions = 0 /\ revision = 1
  BY DEF ViewInit, NotLoaded
<1> QED
  BY <1>1, <1>2 DEF ViewInit, ViewInvariant, TileShowsItsEntry, ListingsInTime

\* The fields of a level.
ViewFields == {"entries", "path", "selected", "up"}

\* Whatever GTK selects, the view keeps its fields; a selected image leaves the level as
\* it is.
LEMMA SelectsViews ==
  ASSUME NEW tree, NEW v, DOMAIN v = ViewFields, NEW w \in Selects(tree, v)
  PROVE  /\ DOMAIN w = ViewFields
         /\ ~OnFolder(v) => w = v
<1>1. \A u, x : DOMAIN Shown(u, x) = ViewFields
  BY DEF Shown, ViewFields
<1>2. \A x \in Told(tree, v) : DOMAIN x = ViewFields
  BY <1>1 DEF Told, Inner
<1>3. \A x : DOMAIN Inside(x) = DOMAIN x
  BY DEF Inside
<1>4. \A x \in Told(tree, v) : \A e \in Ends(tree, x) : DOMAIN e = ViewFields
  BY <1>1, <1>2 DEF Ends
<1> QED
  BY <1>3, <1>4 DEF Selects

\* So does every level that the window may show next.
LEMMA ShowsViews ==
  ASSUME NEW tree, NEW v, NEW w \in Shows(tree, v)
  PROVE  DOMAIN w = ViewFields
<1>1. \A u, x : DOMAIN Shown(u, x) = ViewFields
  BY DEF Shown, ViewFields
<1> QED
  BY <1>1, SelectsViews DEF Shows

\* Tiles as records: what GTK does with them keeps their fields.
Tidy(ts) == DOMAIN ts = Tiles /\ \A t \in Tiles : DOMAIN ts[t] = {"position", "picture"}

\* A tile that is off its position shows nothing that could be wrong.
LEMMA RecycledShows ==
  ASSUME Recycled(TRUE), Tidy(tiles)
  PROVE  TileShowsItsEntry' /\ Tidy(tiles')
<1>1. Tidy(tiles') /\ \A t \in Tiles : tiles'[t].position = Unbound
  BY DEF Recycled, Tidy
<1> QED
  BY <1>1 DEF TileShowsItsEntry

\* The tiles, whatever happens: a new listing or level takes them off their positions, and
\* a thumbnail that arrives is the one of the entry that its tile is at.
LEMMA TilesStep ==
  ASSUME ViewInvariant, [ViewNext]_viewVars
  PROVE  /\ TileShowsItsEntry' /\ Tidy(tiles') /\ DOMAIN view' = ViewFields
         /\ \A i \in thumbnails' : i.generation # 0 /\ i.position # Unbound
<1> DEFINE Goal == /\ TileShowsItsEntry' /\ Tidy(tiles') /\ DOMAIN view' = ViewFields
                   /\ \A i \in thumbnails' : i.generation # 0 /\ i.position # Unbound
<1>0. /\ TileShowsItsEntry /\ Tidy(tiles) /\ DOMAIN view = ViewFields
      /\ \A i \in thumbnails : i.generation # 0 /\ i.position # Unbound
      /\ \A t \in Tiles : Recycled(FALSE) => tiles'[t] = tiles[t]
      /\ Recycled(FALSE) => DOMAIN tiles' = Tiles
  BY DEF ViewInvariant, Tidy, ViewFields, Recycled
<1>1. CASE UNCHANGED <<shownSession, view, tiles, thumbnails>>
  BY <1>0, <1>1 DEF TileShowsItsEntry
<1>2. CASE OpenSession
  BY <1>0, <1>2 DEF OpenSession, TileShowsItsEntry, ViewInvariant
<1>3. CASE LockGallery
  <2>1. Tidy(tiles') /\ \A t \in Tiles : tiles'[t].position = Unbound
    BY <1>3 DEF LockGallery, FreeTile, Tidy
  <2> QED
    BY <1>0, <1>3, <2>1 DEF LockGallery, EmptyView, ViewFields, TileShowsItsEntry
<1>4. CASE PollLocked
  BY <1>0, <1>4, RecycledShows DEF PollLocked, EmptyView, ViewFields
<1>5. CASE ListingArrives
  <2>1. PICK i \in listings :
          /\ Due(i) /\ UNCHANGED <<shownSession, thumbnails>>
          /\ IF i.generation = shownSession
             THEN /\ \E v : /\ DOMAIN v = ViewFields
                            /\ view' \in Selects(snapshot, v) \cup {v}
                  /\ Recycled(TRUE)
             ELSE UNCHANGED <<view, tiles>>
    BY <1>5 DEF ListingArrives, ViewFields
  <2>2. CASE i.generation = shownSession
    BY <1>0, <2>1, <2>2, RecycledShows, SelectsViews
  <2>3. CASE i.generation # shownSession
    BY <1>1, <2>1, <2>3
  <2> QED
    BY <2>2, <2>3
<1>6. CASE ClickUp
  <2>1. /\ DOMAIN view' = ViewFields
        /\ Recycled(snapshot # NoTree)
        /\ UNCHANGED <<shownSession, thumbnails>>
        /\ snapshot = NoTree => view'.entries = view.entries
    <3> DEFINE path == IF view.path = <<>> THEN <<>>
                       ELSE SubSeq(view.path, 1, Len(view.path) - 1)
               v == [view EXCEPT !.path = path, !.up = path # <<>>]
    <3>1. DOMAIN v = ViewFields /\ v.entries = view.entries
      BY <1>0 DEF ViewFields
    <3>2. /\ view' \in (IF snapshot = NoTree THEN {v} ELSE Shows(snapshot, v))
          /\ Recycled(snapshot # NoTree)
          /\ UNCHANGED <<shownSession, thumbnails>>
      BY <1>6 DEF ClickUp
    <3> HIDE DEF v
    <3> QED
      BY <3>1, <3>2, ShowsViews
  <2>2. CASE snapshot = NoTree
    BY <1>0, <2>1, <2>2 DEF TileShowsItsEntry, Tidy
  <2>3. CASE snapshot # NoTree
    BY <1>0, <2>1, <2>3, RecycledShows
  <2> QED
    BY <2>2, <2>3
<1>7. ASSUME NEW position, Select(position) PROVE Goal
  <2> DEFINE v == [view EXCEPT !.selected = position]
  <2>1. /\ DOMAIN v = ViewFields /\ v.entries = view.entries /\ v.selected = position
    BY <1>0 DEF ViewFields
  <2>2. /\ view' \in Selects(snapshot, v)
        /\ Recycled(snapshot # NoTree /\ view.entries[position] \in Folders)
        /\ UNCHANGED <<shownSession, thumbnails>>
    BY <1>7 DEF Select
  <2> HIDE DEF v
  <2>3. /\ DOMAIN view' = ViewFields
        /\ view.entries[position] \notin Folders => view'.entries = view.entries
        /\ snapshot = NoTree => view'.entries = view.entries
    <3>1. DOMAIN Inside(v) = ViewFields /\ Inside(v).entries = v.entries
      BY <2>1 DEF Inside, ViewFields
    <3> QED
      BY <2>1, <2>2, <3>1, SelectsViews DEF Selects, OnFolder
  <2>4. CASE snapshot # NoTree /\ view.entries[position] \in Folders
    BY <1>0, <2>2, <2>3, <2>4, RecycledShows
  <2>5. CASE ~(snapshot # NoTree /\ view.entries[position] \in Folders)
    BY <1>0, <2>2, <2>3, <2>5 DEF TileShowsItsEntry, Tidy
  <2> QED
    BY <2>4, <2>5
<1>8. CASE Bind
  <2>1. PICK t \in Tiles, position \in 1..Len(view.entries) : BindTile(t, position)
    BY <1>8 DEF Bind
  <2>2. /\ Tidy(tiles')
        /\ \A u \in Tiles : \/ tiles'[u] = tiles[u]
                            \/ tiles'[u].picture = NoPicture
        /\ UNCHANGED <<shownSession, view>>
    BY <1>0, <2>1 DEF BindTile, Tidy
  <2>3. \A i \in thumbnails' : i.generation # 0 /\ i.position # Unbound
    BY <1>0, <2>1 DEF BindTile, Unbound
  <2> QED
    BY <1>0, <2>2, <2>3 DEF TileShowsItsEntry
<1>9. CASE ThumbnailArrives
  <2>1. PICK i \in thumbnails, arrived \in BOOLEAN :
          /\ thumbnails' = thumbnails \ {i}
          /\ tiles' = IF arrived /\ StillCurrent(i)
                      THEN [tiles EXCEPT ![i.tile].picture = i.image] ELSE tiles
          /\ UNCHANGED <<shownSession, view>>
    BY <1>9 DEF ThumbnailArrives
  <2>2. CASE arrived /\ StillCurrent(i)
    <3>1. /\ Tidy(tiles')
          /\ \A u \in Tiles \ {i.tile} : tiles'[u] = tiles[u]
          /\ i.tile \in Tiles => /\ tiles'[i.tile].position = tiles[i.tile].position
                                /\ tiles'[i.tile].picture = i.image
      BY <1>0, <2>1, <2>2 DEF Tidy
    <3>2. shownSession # 0 /\ view.entries[i.position] = i.image
          /\ tiles[i.tile].position = i.position
      BY <1>0, <2>2 DEF StillCurrent
    <3> QED
      BY <1>0, <2>1, <3>1, <3>2 DEF TileShowsItsEntry
  <2>3. CASE ~(arrived /\ StillCurrent(i))
    BY <1>0, <2>1, <2>3 DEF TileShowsItsEntry
  <2> QED
    BY <2>2, <2>3
<1> QED
  BY <1>1, <1>2, <1>3, <1>4, <1>5, <1>6, <1>7, <1>8, <1>9
  DEF ViewNext, viewVars, CatalogChanges, PollRevision, AnswerListing, ListingFails,
      ClickPrevious, ClickNext, ClickTile

\* What the owner thread was asked for last is what the gallery shows in the end.
LEMMA ListingsStep ==
  ASSUME ViewInvariant, [ViewNext]_viewVars
  PROVE  /\ ListingsInTime'
         /\ (sessions \in Nat /\ shownSession \in 0..sessions /\ revision \in Nat \ {0})'
         /\ (loaded \in (0..sessions) \X (0..revision))'
         /\ (\A i \in listings : i.number \in Nat /\ i.generation \in 0..sessions
                                /\ i.revision \in 0..revision)'
<1> DEFINE Types == /\ sessions \in Nat /\ shownSession \in 0..sessions
                    /\ revision \in Nat \ {0}
                    /\ loaded \in (0..sessions) \X (0..revision)
                    /\ \A i \in listings :
                         /\ i.number \in Nat /\ i.generation \in 0..sessions
                         /\ i.revision \in 0..revision
<1>0. Types /\ ListingsInTime
  BY DEF ViewInvariant
<1>1. CASE UNCHANGED <<shownSession, sessions, revision, loaded, listings, unlisted, snapshot>>
  BY <1>0, <1>1 DEF ListingsInTime, Current
<1>2. CASE OpenSession
  <2>1. Types' /\ loaded' # <<shownSession', revision'>>
    BY <1>0, <1>2 DEF OpenSession
  <2> QED
    BY <2>1 DEF ListingsInTime
<1>3. CASE CatalogChanges
  <2>1. Types' /\ loaded' # <<shownSession', revision'>>
    BY <1>0, <1>3 DEF CatalogChanges
  <2> QED
    BY <2>1 DEF ListingsInTime
<1>4. CASE LockGallery \/ PollLocked
  <2>1. /\ shownSession' = 0 /\ UNCHANGED <<sessions, revision, listings>>
        /\ loaded' \in {loaded, <<0, 0>>}
    BY <1>4 DEF LockGallery, PollLocked, NotLoaded
  <2>2. Types'
    BY <1>0, <2>1
  <2> QED
    BY <2>1, <2>2 DEF ListingsInTime
<1>5. CASE PollRevision
  <2>1. PICK last :
          /\ \A i \in listings : i.number < last.number
          /\ last.generation = shownSession /\ last.number \in Nat /\ last.revision = 0
          /\ last.behind = {i.number : i \in Answered}
          /\ listings' = listings \cup {last}
    <3>1. PICK number \in 1..MaxListings :
            /\ \A i \in listings : i.number < number
            /\ listings' = listings \cup
                 {[number |-> number, generation |-> shownSession, revision |-> 0,
                   behind |-> {i.number : i \in Answered}]}
      BY <1>5 DEF PollRevision
    <3> WITNESS [number |-> number, generation |-> shownSession, revision |-> 0,
                 behind |-> {i.number : i \in Answered}]
    <3> QED
      BY <3>1
  <2>2. /\ loaded' = <<shownSession, revision>>
        /\ UNCHANGED <<shownSession, sessions, revision, snapshot>>
    BY <1>5 DEF PollRevision
  <2>3. Types'
    BY <1>0, <2>1, <2>2
  <2>4. \A i \in listings' \ {last} :
          i.number < last.number /\ (Current(i)' \/ i.number \in last.behind)
    BY <1>0, <2>1, <2>2 DEF Current, Answered
  <2>5. last.generation = shownSession' /\ Current(last)'
    BY <2>1, <2>2 DEF Current
  <2> QED
    BY <2>1, <2>3, <2>4, <2>5 DEF ListingsInTime
<1>6. CASE AnswerListing
  <2>1. PICK old \in listings :
          /\ old.revision = 0
          /\ listings' = (listings \ {old}) \cup {[old EXCEPT !.revision = revision]}
          /\ UNCHANGED <<shownSession, sessions, revision, loaded, unlisted, snapshot>>
    BY <1>6 DEF AnswerListing
  <2>2. PICK new : new = [old EXCEPT !.revision = revision]
    OBVIOUS
  <2>3. /\ new.number = old.number /\ new.generation = old.generation
        /\ new.behind = old.behind /\ new.revision = revision
    BY <1>0, <2>2
  <2>4. listings' = (listings \ {old}) \cup {new}
    BY <2>1, <2>2
  <2>5. Types'
    BY <1>0, <2>1, <2>3, <2>4
  <2>6. SUFFICES ASSUME shownSession' # 0, loaded' = <<shownSession', revision'>>, ~unlisted'
                 PROVE  \/ snapshot' = Trees[revision'] /\ \A i \in listings' : Current(i)'
                        \/ \E last \in listings' :
                             /\ last.generation = shownSession' /\ Current(last)'
                             /\ \A i \in listings' \ {last} :
                                  /\ i.number < last.number
                                  /\ Current(i)' \/ i.number \in last.behind
    BY <2>5 DEF ListingsInTime
  <2>7. \A i : Current(i)' <=> Current(i)
    BY <2>1 DEF Current
  <2>8. Current(new)
    BY <2>3 DEF Current
  <2>9. CASE snapshot = Trees[revision] /\ \A i \in listings : Current(i)
    BY <2>1, <2>4, <2>7, <2>8, <2>9
  <2>10. ASSUME NEW last \in listings,
                last.generation = shownSession, Current(last),
                \A i \in listings \ {last} :
                  i.number < last.number /\ (Current(i) \/ i.number \in last.behind)
         PROVE  \E l \in listings' :
                  /\ l.generation = shownSession /\ Current(l)
                  /\ \A i \in listings' \ {l} :
                       i.number < l.number /\ (Current(i) \/ i.number \in l.behind)
    <3>1. CASE last = old
      BY <2>3, <2>4, <2>8, <2>10, <3>1
    <3>2. CASE last # old
      BY <2>3, <2>4, <2>8, <2>10, <3>2
    <3> QED
      BY <3>1, <3>2
  <2> QED
    BY <1>0, <2>1, <2>6, <2>7, <2>9, <2>10 DEF ListingsInTime
<1>7. CASE ListingArrives \/ ListingFails
  <2>1. PICK gone \in listings :
          /\ Due(gone) /\ listings' = listings \ {gone}
          /\ UNCHANGED <<shownSession, sessions, revision, loaded>>
          /\ \/ UNCHANGED unlisted /\ gone.generation = shownSession
                                 /\ snapshot' = Trees[gone.revision]
             \/ UNCHANGED <<unlisted, snapshot>> /\ gone.generation # shownSession
             \/ UNCHANGED snapshot
                 /\ unlisted' = (unlisted \/ \A j \in listings' : j.number < gone.number)
    BY <1>7 DEF ListingArrives, ListingFails
  <2>2. Types'
    BY <1>0, <2>1
  <2>3. SUFFICES ASSUME shownSession' # 0, loaded' = <<shownSession', revision'>>, ~unlisted'
                 PROVE  \/ snapshot' = Trees[revision'] /\ \A i \in listings' : Current(i)'
                        \/ \E last \in listings' :
                             /\ last.generation = shownSession' /\ Current(last)'
                             /\ \A i \in listings' \ {last} :
                                  /\ i.number < last.number
                                  /\ Current(i)' \/ i.number \in last.behind
    BY <2>2 DEF ListingsInTime
  <2>4. \A i : Current(i)' <=> Current(i)
    BY <2>1 DEF Current
  <2>5. ~unlisted
    BY <2>1, <2>3
  <2>6. Current(gone) /\ gone.generation = shownSession => gone.revision = revision
    BY <2>1 DEF Due, Current
  <2>7. CASE snapshot = Trees[revision] /\ \A i \in listings : Current(i)
    BY <2>1, <2>4, <2>6, <2>7
  <2>8. ASSUME NEW last \in listings,
               last.generation = shownSession, Current(last),
               \A i \in listings \ {last} :
                 i.number < last.number /\ (Current(i) \/ i.number \in last.behind)
        PROVE  \/ snapshot' = Trees[revision] /\ \A i \in listings' : Current(i)
               \/ \E l \in listings' :
                    /\ l.generation = shownSession /\ Current(l)
                    /\ \A i \in listings' \ {l} :
                         i.number < l.number /\ (Current(i) \/ i.number \in l.behind)
    <3>1. CASE last # gone
      BY <2>1, <2>8, <3>1
    <3>2. CASE last = gone
      <4>1. \A j \in listings' : j.number < gone.number
        BY <2>1, <2>8, <3>2
      <4>2. UNCHANGED unlisted /\ snapshot' = Trees[gone.revision]
        BY <2>1, <2>3, <2>8, <3>2, <4>1
      <4>3. \A i \in listings' : Current(i)
        BY <2>1, <2>8, <3>2 DEF Due
      <4> QED
        BY <2>6, <2>8, <3>2, <4>2, <4>3
    <3> QED
      BY <3>1, <3>2
  <2> QED
    BY <1>0, <2>1, <2>3, <2>4, <2>5, <2>7, <2>8 DEF ListingsInTime
<1> QED
  BY <1>1, <1>2, <1>3, <1>4, <1>5, <1>6, <1>7
  DEF ViewNext, viewVars, ClickUp, ClickPrevious, ClickNext, ClickTile, Select, Bind,
      BindTile, ThumbnailArrives

\* A tile shows the thumbnail of its entry, the gallery that is navigated is the one of the
\* catalog once every listing has arrived, and a viewed picture is the frame that the player
\* counts, in whatever order GTK and the timers call the handlers of the page and the viewer.
THEOREM ScreenHolds == PartsSpec => []ScreenIsTrue
<1> DEFINE Inv == ViewInvariant /\ PlaybackInvariant
<1>1. PartsInit => Inv
  BY ViewBegins, PlaybackBegins DEF PartsInit
<1>2. Inv /\ [PartsNext]_partVars => Inv'
  <2>1. ViewInvariant /\ [ViewNext]_viewVars => ViewInvariant'
    BY TilesStep, ListingsStep DEF ViewInvariant, Tidy, ViewFields
  <2> QED
    BY <2>1, StepOfAPart, PlaybackStep
<1>3. Inv => ScreenIsTrue
  BY DEF ViewInvariant, PlaybackInvariant, ScreenIsTrue, ListingsInTime, ListingIsCurrent
<1> QED
  BY <1>1, <1>2, <1>3, PTL DEF PartsSpec

----------------------------------------------------------------------------
\* GalleryTree: galleries that hold galleries.

\* What a gallery reaches, it reaches for good: the least set is closed.
LEMMA DescendantsClosed ==
  ASSUME NEW rows, NEW root \in Galleries
  PROVE  /\ root \in Descendants(rows, root)
         /\ Below(rows, Descendants(rows, root)) \subseteq Descendants(rows, root)
<1>1. root \in Descendants(rows, root)
  BY DEF Descendants
<1>2. ASSUME NEW g \in Below(rows, Descendants(rows, root)),
             NEW found \in SUBSET Galleries,
             root \in found, Below(rows, found) \subseteq found
      PROVE  g \in found
  <2>1. Descendants(rows, root) \subseteq found
    BY <1>2 DEF Descendants
  <2> QED
    BY <1>2, <2>1 DEF Below
<1> QED
  BY <1>1, <1>2 DEF Descendants, Below

\* The check of add_gallery_child keeps galleries from holding each other: if some did,
\* those of them that the child does not reach would have done so before.
LEMMA ChildAdded ==
  ASSUME GalleryAssumption, NEW s, ShelfHolds(s),
         NEW parent \in Galleries, NEW position \in 0..MaxPosition, NEW child \in Children,
         RowAllowed(s, parent, position, child),
         child \in Galleries => ~WouldCycle(s.rows, parent, child)
  PROVE  ShelfHolds([s EXCEPT
           !.rows = @ \cup {[parent |-> parent, position |-> position, child |-> child]}])
<1> DEFINE row == [parent |-> parent, position |-> position, child |-> child]
           t == [s EXCEPT !.rows = @ \cup {row}]
<1>1. /\ t \in Shelf /\ t.rows = s.rows \cup {row}
      /\ t.galleries = s.galleries /\ t.media = s.media
      /\ t.tagged = s.tagged /\ t.favorites = s.favorites /\ t.indexed = s.indexed
  BY DEF ShelfHolds, Shelf, Row
<1>2. row.parent = parent /\ row.child = child
  OBVIOUS
<1> HIDE DEF row, t
<1>3. ASSUME NEW some \in SUBSET s.galleries, some # {}
      PROVE  \E g \in some : \A r \in t.rows : r.child = g => r.parent \notin some
  <2>1. PICK g \in some : \A r \in s.rows : r.child = g => r.parent \notin some
    BY <1>3 DEF ShelfHolds
  <2>2. CASE g # child \/ parent \notin some
    BY <1>1, <1>2, <2>1, <2>2
  <2>3. CASE g = child /\ parent \in some
    <3> DEFINE reached == Descendants(s.rows, child)
               rest == some \ reached
    <3>1. child \in Galleries /\ s.galleries \subseteq Galleries
      BY <2>3 DEF ShelfHolds, Shelf
    <3>2. parent \in rest
      BY <2>3, <3>1 DEF WouldCycle
    <3>3. /\ child \in reached
          /\ \A r \in s.rows : r.parent \in reached /\ r.child \in Galleries => r.child \in reached
      BY <3>1, DescendantsClosed DEF Below
    <3> HIDE DEF reached
    <3>4. PICK h \in rest : \A r \in s.rows : r.child = h => r.parent \notin rest
      BY <1>3, <3>2 DEF ShelfHolds
    <3>5. h # child /\ h \in Galleries
      BY <3>1, <3>3
    <3>6. \A r \in s.rows : r.child = h => r.parent \notin some
      BY <3>3, <3>4, <3>5
    <3> QED
      BY <1>1, <1>2, <3>5, <3>6
  <2> QED
    BY <2>2, <2>3
<1>4. parent \in s.galleries /\ child \in s.galleries \cup s.media
  BY DEF RowAllowed
<1>5. ShelfHolds(t)
  BY <1>1, <1>2, <1>3, <1>4 DEF ShelfHolds
<1> QED
  BY <1>5 DEF t, row

\* A new gallery is held by none and holds nothing.
LEMMA GalleryAdded ==
  ASSUME NEW s, ShelfHolds(s), NEW g \in Galleries
  PROVE  ShelfHolds([s EXCEPT !.galleries = @ \cup {g}])
<1> DEFINE t == [s EXCEPT !.galleries = @ \cup {g}]
<1>1. /\ t \in Shelf /\ t.galleries = s.galleries \cup {g} /\ t.rows = s.rows
      /\ t.media = s.media /\ t.tagged = s.tagged /\ t.favorites = s.favorites
      /\ t.indexed = s.indexed
  BY DEF ShelfHolds, Shelf
<1> HIDE DEF t
<1>2. ASSUME NEW some \in SUBSET t.galleries, some # {}
      PROVE  \E h \in some : \A r \in t.rows : r.child = h => r.parent \notin some
  <2> DEFINE rest == some \cap s.galleries
  <2>1. CASE rest # {}
    <3>1. PICK h \in rest : \A r \in s.rows : r.child = h => r.parent \notin rest
      BY <2>1 DEF ShelfHolds
    <3> QED
      BY <1>1, <3>1 DEF ShelfHolds
  <2>2. CASE rest = {}
    BY <1>1, <1>2, <2>2 DEF ShelfHolds
  <2> QED
    BY <2>1, <2>2
<1>3. ShelfHolds(t)
  BY <1>1, <1>2 DEF ShelfHolds
<1> QED
  BY <1>3 DEF t

\* Images come and go, are tagged and become favourites; the galleries stay as they are.
LEMMA ImagesChanged ==
  ASSUME NEW s, ShelfHolds(s), NEW t \in Shelf,
         t.galleries = s.galleries, t.rows \subseteq s.rows,
         \A r \in t.rows : r.child \in s.galleries \cup t.media,
         t.tagged \cup t.favorites \subseteq t.media, t.indexed = t.media
  PROVE  ShelfHolds(t)
BY DEF ShelfHolds

\* Every statement keeps the rows of the transaction in order.
LEMMA ShelvesStep ==
  ASSUME ShelvesHold, [GalleryNext]_galleryVars
  PROVE  ShelvesHold'
<1> DEFINE s == draft.rows
<1>a. draft.open => draft # NoDraft
  BY DEF NoDraft
<1>0. ASSUME NEW t, Statement(t), ShelfHolds(t) PROVE ShelvesHold'
  <2>1. /\ draft.count < MaxStatements /\ shelf' = shelf
        /\ draft' = [draft EXCEPT !.count = @ + 1, !.rows = t]
    BY <1>0 DEF Statement
  <2>2. draft \in [open : BOOLEAN, count : 0..MaxStatements, rows : Shelf]
    BY <1>0, <1>a DEF ShelvesHold, Statement
  <2>3. t \in Shelf
    BY <1>0 DEF ShelfHolds
  <2>4. /\ draft' \in [open : BOOLEAN, count : 0..MaxStatements, rows : Shelf]
        /\ draft'.rows = t
    <3>1. draft.count + 1 \in 0..MaxStatements
      BY <2>1, <2>2, GalleryAssumption
    <3> QED
      BY <2>1, <2>2, <2>3, <3>1
  <2> QED
    BY <1>0, <2>1, <2>4 DEF ShelvesHold
<1>1. CASE UNCHANGED galleryVars
  BY <1>1 DEF galleryVars, ShelvesHold
<1>2. CASE BeginTransaction
  <2>1. shelf' = shelf /\ draft' = [open |-> TRUE, count |-> 0, rows |-> shelf]
    BY <1>2 DEF BeginTransaction
  <2>2. ShelfHolds(shelf) /\ shelf \in Shelf
    BY DEF ShelvesHold, ShelfHolds
  <2>3. draft' \in [open : BOOLEAN, count : 0..MaxStatements, rows : Shelf] /\ draft'.rows = shelf
    BY <2>1, <2>2, GalleryAssumption
  <2> QED
    BY <2>1, <2>2, <2>3 DEF ShelvesHold
<1>3. CASE Commit \/ Rollback
  <2>1. draft' = NoDraft /\ shelf' \in {shelf, draft.rows} /\ draft # NoDraft
    BY <1>3, <1>a DEF Commit, Rollback
  <2> QED
    BY <2>1 DEF ShelvesHold
<1>4. ASSUME NEW g \in Galleries, CreateGallery(g) PROVE ShelvesHold'
  BY <1>0, <1>a, <1>4, GalleryAdded DEF CreateGallery, ShelvesHold
<1>5. ASSUME NEW m \in Images, InsertMedia(m) \/ DeleteMedia(m) \/ TagMedia(m)
      PROVE ShelvesHold'
  <2>1. ShelfHolds(s) /\ s \in Shelf
    BY <1>a, <1>5 DEF ShelvesHold, ShelfHolds, InsertMedia, DeleteMedia, TagMedia
  <2>2. CASE InsertMedia(m)
    <3> DEFINE t == [s EXCEPT !.media = @ \cup {m}, !.indexed = @ \cup {m}]
    <3>1. /\ t \in Shelf /\ t.galleries = s.galleries /\ t.rows = s.rows
          /\ t.media = s.media \cup {m} /\ t.indexed = s.indexed \cup {m}
          /\ t.tagged = s.tagged /\ t.favorites = s.favorites
      BY <2>1 DEF Shelf
    <3>2. ShelfHolds(t)
      BY <2>1, <3>1, ImagesChanged DEF ShelfHolds
    <3> QED
      BY <1>0, <2>2, <3>2 DEF InsertMedia
  <2>3. CASE DeleteMedia(m)
    <3> DEFINE t == WithoutMedia(s, m)
    <3>1. /\ t \in Shelf /\ t.galleries = s.galleries
          /\ t.rows = {r \in s.rows : r.child # m}
          /\ t.media = s.media \ {m} /\ t.indexed = s.indexed \ {m}
          /\ t.tagged = s.tagged \ {m} /\ t.favorites = s.favorites \ {m}
      BY <2>1 DEF Shelf, WithoutMedia
    <3> HIDE DEF t
    <3>2. ShelfHolds(t)
      BY <2>1, <3>1, ImagesChanged DEF ShelfHolds
    <3> QED
      BY <1>0, <2>3, <3>2 DEF DeleteMedia, t
  <2>4. CASE TagMedia(m)
    <3> DEFINE t == [s EXCEPT !.tagged = @ \cup {m}]
    <3>1. ShelfHolds(t)
      BY <2>1, <2>4, ImagesChanged DEF TagMedia, ShelfHolds, Shelf
    <3> QED
      BY <1>0, <2>4, <3>1 DEF TagMedia
  <2> QED
    BY <1>5, <2>2, <2>3, <2>4
<1>6. ASSUME NEW m \in Images, NEW favorite \in BOOLEAN, SetFavorite(m, favorite)
      PROVE ShelvesHold'
  <2> DEFINE t == [s EXCEPT !.favorites = IF favorite THEN @ \cup {m} ELSE @ \ {m}]
  <2>1. ShelfHolds(s) /\ s \in Shelf /\ m \in s.media
    BY <1>a, <1>6 DEF ShelvesHold, ShelfHolds, SetFavorite
  <2>2. ShelfHolds(t)
    BY <2>1, ImagesChanged DEF ShelfHolds, Shelf
  <2> QED
    BY <1>0, <1>6, <2>2 DEF SetFavorite
<1>7. ASSUME NEW parent \in Galleries, NEW position \in 0..MaxPosition, NEW child \in Children,
             AddGalleryChild(parent, position, child)
      PROVE ShelvesHold'
  BY <1>0, <1>a, <1>7, ChildAdded, GalleryAssumption DEF AddGalleryChild, ShelvesHold
<1> QED
  BY <1>1, <1>2, <1>3, <1>4, <1>5, <1>6, <1>7 DEF GalleryNext

\* What has no circle can be reached from the top level, if the listing has all images.
LEMMA HoldsReaches ==
  ASSUME IsFiniteSet(Images), Cardinality(Images) <= ListLimit, ShelfHolds(shelf)
  PROVE  GalleriesHold
<1>1. Listed(shelf) = shelf.media
  <2>1. shelf.media \in SUBSET Images
    BY DEF ShelfHolds, Shelf
  <2>2. IsFiniteSet(shelf.media) /\ Cardinality(shelf.media) <= Cardinality(Images)
    BY <2>1, FS_Subset
  <2>3. Cardinality(shelf.media) \in Nat /\ Cardinality(Images) \in Nat
    BY <2>2, FS_CardinalityType
  <2>4. Cardinality(shelf.media) <= ListLimit
    BY <2>2, <2>3, GalleryAssumption
  <2> QED
    BY <2>4 DEF Listed
<1>2. ASSUME NEW lost \in SUBSET (shelf.galleries \cup shelf.media), lost # {}
      PROVE  \E x \in lost : \/ x \in Roots(shelf)
                            \/ \E r \in shelf.rows : r.child = x /\ r.parent \notin lost
  <2>1. \A x \in lost : x \in Roots(shelf) \/ \E r \in shelf.rows : r.child = x
    BY <1>1 DEF Roots, Held
  <2>2. PICK x \in lost : \A r \in shelf.rows : r.child = x => r.parent \notin lost
    <3> DEFINE some == lost \cap shelf.galleries
    <3>1. CASE some # {}
      <4>1. PICK x \in some : \A r \in shelf.rows : r.child = x => r.parent \notin some
        BY <3>1 DEF ShelfHolds
      <4> QED
        BY <4>1 DEF ShelfHolds
    <3>2. CASE some = {}
      BY <1>2, <3>2 DEF ShelfHolds
    <3> QED
      BY <3>1, <3>2
  <2> QED
    BY <2>1, <2>2
<1>3. NothingDangles
  BY DEF ShelfHolds, NothingDangles
<1> QED
  BY <1>2, <1>3 DEF GalleriesHold, EverythingIsReachable

\* No sequence of committed insertions hides a gallery or an image below itself, and a
\* deleted image leaves nothing behind (add_gallery_child, the triggers and the cascades of
\* the schema), as long as the listing has room for all images.
THEOREM GalleriesAreReachable ==
  ASSUME IsFiniteSet(Images), Cardinality(Images) <= ListLimit
  PROVE  PartsSpec => []GalleriesHold
<1>1. PartsInit => ShelvesHold
  <2>1. ASSUME GalleryInit PROVE ShelfHolds(shelf)
    BY <2>1 DEF GalleryInit, ShelfHolds, Shelf
  <2> QED
    BY <2>1 DEF PartsInit, GalleryInit, ShelvesHold, NoDraft
<1>2. ShelvesHold /\ [PartsNext]_partVars => ShelvesHold'
  BY StepOfAPart, ShelvesStep
<1>3. ShelvesHold => GalleriesHold
  BY HoldsReaches DEF ShelvesHold
<1> QED
  BY <1>1, <1>2, <1>3, PTL DEF PartsSpec

----------------------------------------------------------------------------
\* VaultCreation: a vault that was created is there for good, and its catalog has one user.

\* Nothing is there yet.
LEMMA CreationBegins ==
  ASSUME CreationInit
  PROVE  CreationInvariant
<1> USE DEF CreationInit
<1>1. Blank \in Image /\ ~Blank.directory
  BY DEF Blank, Image
<1>2. CreationTypeOK
  BY <1>1 DEF CreationTypeOK, CreationSteps
<1>3. \A p \in Creators : cPc[p] = "mkdir"
  OBVIOUS
<1>4. LockHeld /\ StepsBehind
  BY <1>3 DEF LockHeld, StepsBehind, Behind, CatalogSteps, SchemaKept, LogKept, LockKept,
     NameKept, HeaderKept
<1>5. OneCreator
  BY <1>1, <1>3 DEF OneCreator, Active
<1> QED
  BY <1>2, <1>4, <1>5 DEF CreationInvariant, CreatedSurvives

\* The lock, whatever creators, opener and power do: who has it gives it up before another
\* takes it.
LEMMA LockStep ==
  ASSUME CreationTypeOK, LockHeld, [CreationNext]_creationVars
  PROVE  LockHeld'
<1> USE CreationAssumption DEF CreationTypeOK, LockHeld, CatalogSteps
<1>1. CASE UNCHANGED creationVars
  BY <1>1 DEF creationVars
<1>2. ASSUME NEW p \in Creators, NEW step, NEW next, From(p, step, next), NoLock,
             next \in CatalogSteps \cup {"serving"} => step \in CatalogSteps
      PROVE  LockHeld'
  BY <1>2 DEF From, NoLock
<1>3. ASSUME NEW p \in Creators, Create(p) PROVE LockHeld'
  <2>1. CASE TakeLock(p)
    BY <2>1 DEF TakeLock, From, TryLock, Nobody
  <2>2. CASE Mark(p)
    BY <2>2 DEF Mark, From
  <2>3. CASE FailCreation(p) \/ EndCreator(p)
    BY <2>3 DEF FailCreation, EndCreator, Released
  <2>4. CASE \/ MakeDirectory(p) \/ CreateHeader(p) \/ WriteHeader(p) \/ SyncDirectoryOf(p)
             \/ SyncParentOf(p) \/ CreateLock(p)
    BY <1>2, <2>4 DEF MakeDirectory, CreateHeader, WriteHeader, SyncDirectoryOf, SyncParentOf,
       CreateLock
  <2>5. CASE \/ SyncLock(p) \/ CreateCatalog(p) \/ OpenWal(p) \/ Migrate(p) \/ BindCatalog(p)
             \/ SyncCatalog(p)
    BY <1>2, <2>5 DEF SyncLock, CreateCatalog, OpenWal, Migrate, BindCatalog, SyncCatalog
  <2> QED
    BY <1>3, <2>1, <2>2, <2>3, <2>4, <2>5 DEF Create
<1>4. CASE OpenLock \/ OpenRest \/ CloseOpener
  BY <1>4 DEF OpenLock, OpenRest, CloseOpener, Nobody
<1>5. CASE CreationPowerLoss
  BY <1>5 DEF CreationPowerLoss
<1> QED
  BY <1>1, <1>3, <1>4, <1>5 DEF CreationNext

\* What each step does to an image of the disk.
LEMMA ImagesMade ==
  ASSUME NEW d \in Image
  PROVE  /\ {Made(d), HeaderOpened(d), HeaderWritten(d), Locked(d), WithCatalog(d), WithWal(d)}
              \subseteq Image
         /\ Secured(d) = [cDisk EXCEPT !.directory = d.directory]
         /\ \A b \in BOOLEAN : /\ [d EXCEPT !.directory = b] \in Image
                               /\ [d EXCEPT !.schema = b] \in Image
         /\ \A m \in {"empty", "dirty"} : [d EXCEPT !.marker = m] \in Image
<1> USE DEF Image
<1>1. Made(d) \in Image /\ HeaderOpened(d) \in Image /\ HeaderWritten(d) \in Image
  BY DEF Made, HeaderOpened, HeaderWritten
<1>2. Locked(d) \in Image /\ WithCatalog(d) \in Image /\ WithWal(d) \in Image
  BY DEF Locked, WithCatalog, WithWal
<1> QED
  BY <1>1, <1>2 DEF Secured

\* Images stay images, and steps steps.
LEMMA CreationTypes ==
  ASSUME CreationTypeOK, [CreationNext]_creationVars
  PROVE  CreationTypeOK'
<1> USE DEF CreationTypeOK
<1>0. \A d \in Image : d.directory \in BOOLEAN /\ d.wal \in BOOLEAN
  BY DEF Image
<1>1. CASE UNCHANGED creationVars
  BY <1>1 DEF creationVars
<1>2. ASSUME NEW p \in Creators, Create(p) PROVE CreationTypeOK'
  <2>1. cPc' \in [Creators -> CreationSteps \cup {"serving", "failed"}]
    BY <1>2 DEF Create, From, MakeDirectory, CreateHeader, WriteHeader, SyncDirectoryOf,
       SyncParentOf, CreateLock, TakeLock, SyncLock, CreateCatalog, OpenWal, Migrate,
       BindCatalog, SyncCatalog, Mark, FailCreation, EndCreator, CreationSteps, StorageSteps,
       CatalogSteps
  <2>2. /\ openerAt' = openerAt /\ created' \in BOOLEAN
        /\ cHolder' \in {cHolder, p, Nobody}
    BY <1>2 DEF Create, NoLock, MakeDirectory, CreateHeader, WriteHeader, SyncDirectoryOf,
       SyncParentOf, CreateLock, TakeLock, SyncLock, CreateCatalog, OpenWal, Migrate,
       BindCatalog, SyncCatalog, Mark, FailCreation, EndCreator, TryLock, Released
  <2>3. cDisk' \in Image /\ cOutcomes' \subseteq Image
    <3>1. CASE MakeDirectory(p) \/ CreateHeader(p) \/ WriteHeader(p)
      BY <3>1, ImagesMade DEF MakeDirectory, CreateHeader, WriteHeader, Change
    <3>2. CASE \/ SyncDirectoryOf(p) \/ SyncParentOf(p) \/ SyncLock(p) \/ BindCatalog(p)
               \/ SyncCatalog(p)
      BY <1>0, <3>2, ImagesMade DEF SyncDirectoryOf, SyncParentOf, SyncLock, BindCatalog,
         SyncCatalog, SyncNames, SyncParent, Secured, NameSecured
    <3>3. CASE CreateLock(p) \/ TakeLock(p) \/ CreateCatalog(p)
      BY <3>3, ImagesMade DEF CreateLock, TakeLock, CreateCatalog, Change
    <3>4. CASE OpenWal(p)
      <4>1. WithWal(cDisk) \in Image
        BY ImagesMade
      <4>2. \A b \in BOOLEAN : [WithWal(cDisk) EXCEPT !.directory = b] \in Image
        BY <4>1, ImagesMade
      <4> QED
        BY <1>0, <3>4, <4>1, <4>2 DEF OpenWal
    <3>5. CASE Migrate(p)
      <4>1. \A d \in Image : [d EXCEPT !.schema = d.wal] \in Image
        BY DEF Image
      <4> QED
        BY <3>5, <4>1, ImagesMade DEF Migrate
    <3>6. CASE Mark(p)
      <4>1. \A d \in Image :
               [d EXCEPT !.marker = IF d.lock THEN "dirty" ELSE "empty"] \in Image
        BY DEF Image
      <4> QED
        BY <3>6, <4>1, ImagesMade DEF Mark
    <3>7. CASE FailCreation(p)
      <4>1. \A d \in Image : [d EXCEPT !.schema = d.wal] \in Image
        BY DEF Image
      <4> QED
        BY <3>7, <4>1 DEF FailCreation
    <3>8. CASE EndCreator(p)
      BY <3>8 DEF EndCreator
    <3> QED
      BY <1>2, <3>1, <3>2, <3>3, <3>4, <3>5, <3>6, <3>7, <3>8 DEF Create
  <2> QED
    BY <2>1, <2>2, <2>3
<1>3. CASE OpenLock \/ OpenRest \/ CloseOpener
  BY <1>3 DEF OpenLock, OpenRest, CloseOpener
<1>4. CASE CreationPowerLoss
  BY <1>4 DEF CreationPowerLoss, Blank, CreationSteps, Image
<1> QED
  BY <1>1, <1>2, <1>3, <1>4 DEF CreationNext

\* A creator that is past mkdir has the directory for itself.
LEMMA StepBehind ==
  ASSUME OneCreator, NEW p \in Creators, NEW next,
         cPc \in [Creators -> CreationSteps \cup {"serving", "failed"}],
         cPc' = [cPc EXCEPT ![p] = next],
         \A q \in Creators : q # p => cPc[q] \notin Active,
         created' => next = "serving",
         cDisk'.directory, cDisk' \in cOutcomes', Behind(next, cDisk', cOutcomes')
  PROVE  OneCreator' /\ StepsBehind'
<1>1. \A q \in Creators : cPc'[q] = IF q = p THEN next ELSE cPc[q]
  OBVIOUS
<1>2. OneCreator'
  BY <1>1 DEF OneCreator, Active
<1>3. \A q \in Creators : q # p => cPc'[q] \in {"mkdir", "failed"}
  BY <1>1 DEF Active
<1>4. ASSUME NEW q \in Creators, q # p PROVE Behind(cPc'[q], cDisk', cOutcomes')
  BY <1>3, <1>4 DEF Behind, HeaderKept, NameKept, LockKept, LogKept, SchemaKept
<1> QED
  BY <1>1, <1>2, <1>4 DEF StepsBehind

\* Each step of a creator puts on the disk what the next one builds on.
LEMMA CreatorStep ==
  ASSUME CreationInvariant, NEW p \in Creators,
         \/ CreateHeader(p) \/ WriteHeader(p) \/ SyncDirectoryOf(p) \/ SyncParentOf(p)
         \/ CreateLock(p) \/ TakeLock(p) \/ SyncLock(p) \/ CreateCatalog(p) \/ OpenWal(p)
         \/ Migrate(p) \/ BindCatalog(p) \/ SyncCatalog(p)
  PROVE  OneCreator' /\ StepsBehind' /\ CreatedSurvives'
<1> USE DEF CreationInvariant, CreationTypeOK
<1> DEFINE Keeps(step, next) == /\ cPc[p] = step /\ cPc' = [cPc EXCEPT ![p] = next]
                                /\ created' = created
                                /\ cDisk'.directory /\ cDisk' \in cOutcomes'
                                /\ Behind(next, cDisk', cOutcomes')
<1>1. ASSUME NEW step \in CreationSteps \ {"mkdir"}, NEW next, Keeps(step, next)
      PROVE  OneCreator' /\ StepsBehind' /\ CreatedSurvives'
  <2>1. cPc[p] \in Active /\ cPc[p] \notin {"mkdir", "serving", "failed"}
    BY <1>1 DEF Active, CreationSteps, StorageSteps, CatalogSteps
  <2>2. ~created /\ \A q \in Creators : q # p => cPc[q] \notin Active
    BY <2>1 DEF OneCreator
  <2>3. OneCreator' /\ StepsBehind'
    BY <1>1, <2>2, StepBehind
  <2> QED
    BY <1>1, <2>2, <2>3 DEF CreatedSurvives
<1> HIDE DEF Keeps
<1>2. \A d \in cOutcomes \cup {cDisk} : d \in Image
  OBVIOUS
<1>3. Behind(cPc[p], cDisk, cOutcomes) /\ cDisk \in cOutcomes
  BY DEF StepsBehind, OneCreator
<1>4. cPc[p] \in Active => cDisk.directory
  BY DEF OneCreator
<1> USE <1>2, <1>3, <1>4 DEF Active, CreationSteps, StorageSteps, CatalogSteps, From, NoLock,
        Change, Image, Behind, HeaderKept, NameKept, LockKept, LogKept, SchemaKept
<1>5. CASE CreateHeader(p)
  <2>1. Keeps("createHeader", "writeHeader")
    BY <1>5 DEF CreateHeader, HeaderOpened, Keeps
  <2> QED
    BY <1>1, <2>1
<1>6. CASE WriteHeader(p)
  <2>1. Keeps("writeHeader", "syncDirectory")
    BY <1>6 DEF WriteHeader, HeaderWritten, Keeps
  <2> QED
    BY <1>1, <2>1
<1>7. CASE SyncDirectoryOf(p)
  <2>1. Keeps("syncDirectory", "syncParent")
    BY <1>7 DEF SyncDirectoryOf, SyncNames, Secured, Keeps
  <2> QED
    BY <1>1, <2>1
<1>8. CASE SyncParentOf(p)
  <2>1. Keeps("syncParent", "createLock")
    BY <1>8 DEF SyncParentOf, SyncParent, NameSecured, Keeps
  <2> QED
    BY <1>1, <2>1
<1>9. CASE CreateLock(p)
  <2>1. \A d \in Image : /\ Locked(d).lock /\ Locked(d).header = d.header
                         /\ Locked(d).directory = d.directory
    BY DEF Locked
  <2>2. \A d \in cOutcomes : d.header = "whole" /\ d.directory
    BY <1>9 DEF CreateLock
  <2>3. \A d \in cOutcomes' : d.header = "whole" /\ d.directory
    BY <1>9, <2>1, <2>2 DEF CreateLock
  <2>4. cDisk'.directory /\ cDisk' \in cOutcomes' /\ cDisk'.lock
    BY <1>9, <2>1 DEF CreateLock
  <2>5. Keeps("createLock", "flock")
    BY <1>9, <2>3, <2>4 DEF CreateLock, Keeps
  <2> QED
    BY <1>1, <2>5
<1>10. CASE TakeLock(p)
  <2>1. Keeps("flock", "syncLock")
    BY <1>10 DEF TakeLock, Keeps
  <2> QED
    BY <1>1, <2>1
<1>11. CASE SyncLock(p)
  <2>1. Keeps("syncLock", "createCatalog")
    BY <1>11 DEF SyncLock, SyncNames, Secured, Keeps
  <2> QED
    BY <1>1, <2>1
<1>12. CASE CreateCatalog(p)
  <2>1. \A d \in Image : /\ WithCatalog(d).catalog /\ WithCatalog(d).header = d.header
                         /\ WithCatalog(d).directory = d.directory
                         /\ WithCatalog(d).lock = d.lock
    BY DEF WithCatalog
  <2>2. \A d \in cOutcomes : d.header = "whole" /\ d.directory /\ d.lock
    BY <1>12 DEF CreateCatalog
  <2>3. \A d \in cOutcomes' : d.header = "whole" /\ d.directory /\ d.lock
    BY <1>12, <2>1, <2>2 DEF CreateCatalog
  <2>4. cDisk'.directory /\ cDisk' \in cOutcomes' /\ cDisk'.catalog
    BY <1>12, <2>1 DEF CreateCatalog
  <2>5. Keeps("createCatalog", "openWal")
    BY <1>12, <2>3, <2>4 DEF CreateCatalog, Keeps
  <2> QED
    BY <1>1, <2>5
<1>13. CASE OpenWal(p)
  <2>1. /\ WithWal(cDisk) \in Image /\ WithWal(cDisk).wal
        /\ WithWal(cDisk).header = cDisk.header /\ WithWal(cDisk).lock = cDisk.lock
        /\ WithWal(cDisk).catalog = cDisk.catalog
        /\ WithWal(cDisk).directory = cDisk.directory
    BY DEF WithWal
  <2>2. /\ cDisk.header = "whole" /\ cDisk.lock /\ cDisk.catalog /\ cDisk.directory
        /\ cDisk' = WithWal(cDisk) /\ \A d \in cOutcomes : d.directory = TRUE
    BY <1>13 DEF OpenWal
  <2>3. \A d \in Image : d.directory => [d EXCEPT !.directory = TRUE] = d
    OBVIOUS
  <2>4. \A d \in cOutcomes : [WithWal(cDisk) EXCEPT !.directory = d.directory] = WithWal(cDisk)
    BY <2>1, <2>2, <2>3
  <2> DEFINE InPlace(d) == [WithWal(cDisk) EXCEPT !.directory = d.directory]
  <2>5. cOutcomes' = {InPlace(d) : d \in cOutcomes}
    BY <1>13 DEF OpenWal
  <2>6. \A d \in cOutcomes : InPlace(d) = WithWal(cDisk)
    BY <2>4
  <2> HIDE DEF InPlace
  <2>7. cOutcomes' = {WithWal(cDisk)}
    BY <2>5, <2>6
  <2>8. Keeps("openWal", "migrate")
    BY <1>13, <2>1, <2>2, <2>7 DEF OpenWal, Keeps
  <2> QED
    BY <1>1, <2>8
<1>14. CASE Migrate(p)
  <2>1. \A d \in cOutcomes : d.header = "whole" /\ d.directory /\ d.lock /\ d.catalog /\ d.wal
    BY <1>14 DEF Migrate
  <2>2. ASSUME NEW d \in cOutcomes
        PROVE  LET after == [d EXCEPT !.schema = d.wal]
               IN /\ after = [d EXCEPT !.schema = TRUE] /\ after.schema
                  /\ after.header = "whole" /\ after.directory /\ after.lock
                  /\ after.catalog /\ after.wal
    BY <2>1
  <2>3. \A d \in cOutcomes' :
           d.header = "whole" /\ d.directory /\ d.lock /\ d.catalog /\ d.wal /\ d.schema
    BY <1>14, <2>2 DEF Migrate
  <2>4. cDisk'.directory /\ cDisk' \in cOutcomes'
    BY <1>14, <2>1, <2>2 DEF Migrate
  <2>5. Keeps("migrate", "bind")
    BY <1>14, <2>3, <2>4 DEF Migrate, Keeps
  <2> QED
    BY <1>1, <2>5
<1>15. CASE BindCatalog(p)
  <2>1. Keeps("bind", "syncCatalog")
    BY <1>15 DEF BindCatalog, Keeps
  <2> QED
    BY <1>1, <2>1
<1>16. CASE SyncCatalog(p)
  <2>1. Keeps("syncCatalog", "mark")
    BY <1>16 DEF SyncCatalog, SyncNames, Secured, Keeps
  <2> QED
    BY <1>1, <2>1
<1> QED
  BY <1>5, <1>6, <1>7, <1>8, <1>9, <1>10, <1>11, <1>12, <1>13, <1>14, <1>15, <1>16

\* Everything else that happens to a vault that is made or opened.
LEMMA CreationStep ==
  ASSUME CreationInvariant, [CreationNext]_creationVars
  PROVE  CreationInvariant'
<1>0. CreationTypeOK' /\ LockHeld'
  BY CreationTypes, LockStep DEF CreationInvariant
<1> SUFFICES OneCreator' /\ StepsBehind' /\ CreatedSurvives'
  BY <1>0 DEF CreationInvariant
<1> USE DEF CreationInvariant
<1>1. CASE UNCHANGED <<cDisk, cOutcomes, cPc, created>>
  BY <1>1 DEF OneCreator, StepsBehind, CreatedSurvives
<1>2. CASE UNCHANGED creationVars \/ OpenLock \/ OpenRest \/ CloseOpener
  BY <1>1, <1>2 DEF creationVars, OpenLock, OpenRest, CloseOpener
<1>3. ASSUME NEW p \in Creators, cPc' = [cPc EXCEPT ![p] = "failed"], created' = created,
             UNCHANGED <<cDisk, cOutcomes>>
      PROVE  OneCreator' /\ StepsBehind' /\ CreatedSurvives'
  <2>1. \A q \in Creators : cPc'[q] \in {cPc[q], "failed"}
    BY <1>3 DEF CreationTypeOK
  <2>2. OneCreator' /\ CreatedSurvives'
    BY <1>3, <2>1 DEF OneCreator, Active, CreationSteps, StorageSteps, CatalogSteps,
       CreatedSurvives
  <2>3. Behind("failed", cDisk, cOutcomes)
    BY DEF Behind, HeaderKept, NameKept, LockKept, LogKept, SchemaKept
  <2> QED
    BY <1>3, <2>1, <2>2, <2>3 DEF StepsBehind
<1>4. ASSUME NEW p \in Creators, Create(p)
      PROVE  OneCreator' /\ StepsBehind' /\ CreatedSurvives'
  <2>1. CASE MakeDirectory(p)
    <3>1. cOutcomes = {Blank} /\ cDisk = Blank /\ ~created
      BY <2>1 DEF MakeDirectory, OneCreator, CreatedSurvives, Opens
    <3>2. \A q \in Creators : cPc[q] \notin Active
      BY <2>1 DEF MakeDirectory, OneCreator
    <3>3. cDisk'.directory /\ cDisk' \in cOutcomes'
      BY <2>1, <3>1 DEF MakeDirectory, Change, Made, Blank
    <3>4. Behind("createHeader", cDisk', cOutcomes')
      BY DEF Behind, HeaderKept, NameKept, LockKept, LogKept, SchemaKept
    <3>5. OneCreator' /\ StepsBehind'
      BY <2>1, <3>1, <3>2, <3>3, <3>4, StepBehind DEF MakeDirectory, From, NoLock, CreationTypeOK
    <3> QED
      BY <2>1, <3>1, <3>5 DEF MakeDirectory, NoLock, CreatedSurvives
  <2>2. CASE Mark(p)
    <3>1. Behind("mark", cDisk, cOutcomes) /\ cDisk \in cOutcomes
      BY <2>2 DEF Mark, From, StepsBehind, OneCreator
    <3>2. \A d \in cOutcomes : Opens(d) /\ d \in Image
      BY <3>1 DEF Behind, HeaderKept, NameKept, LockKept, LogKept, SchemaKept, Opens,
         CreationTypeOK
    <3>3. ASSUME NEW d \in cOutcomes
          PROVE  LET after == [d EXCEPT !.marker = IF d.lock THEN "dirty" ELSE "empty"]
                 IN after = [d EXCEPT !.marker = "dirty"] /\ Opens(after)
      BY <3>2 DEF Opens, Image
    <3>4. cDisk' \in cOutcomes' /\ \A d \in cOutcomes' : Opens(d)
      BY <2>2, <3>1, <3>3 DEF Mark
    <3>5. \A q \in Creators : q # p => cPc[q] \notin Active
      BY <2>2 DEF Mark, From, OneCreator, Active, CreationSteps, CatalogSteps
    <3>6. Behind("serving", cDisk', cOutcomes')
      BY DEF Behind, HeaderKept, NameKept, LockKept, LogKept, SchemaKept
    <3>7. OneCreator' /\ StepsBehind'
      BY <2>2, <3>4, <3>5, <3>6, StepBehind DEF Mark, From, CreationTypeOK, Opens
    <3> QED
      BY <3>4, <3>7 DEF CreatedSurvives
  <2>3. CASE FailCreation(p)
    <3>1. CASE UNCHANGED <<cDisk, cOutcomes>>
      BY <1>3, <2>3, <3>1 DEF FailCreation
    <3>2. CASE ~ UNCHANGED <<cDisk, cOutcomes>>
      <4>1. cPc[p] \in StorageSteps \cup {"migrate"} /\ cDisk' = cDisk
        BY <2>3, <3>2 DEF FailCreation
      <4>2. cPc[p] \in Active /\ ~created /\ created' = created
        BY <2>3, <4>1 DEF FailCreation, OneCreator, Active, CreationSteps, StorageSteps,
           CatalogSteps
      <4>3. cDisk'.directory /\ cDisk' \in cOutcomes'
        BY <2>3, <3>2, <4>1, <4>2 DEF FailCreation, OneCreator
      <4>4. \A q \in Creators : q # p => cPc[q] \notin Active
        BY <4>2 DEF OneCreator
      <4>5. Behind("failed", cDisk', cOutcomes')
        BY DEF Behind, HeaderKept, NameKept, LockKept, LogKept, SchemaKept
      <4>6. cPc' = [cPc EXCEPT ![p] = "failed"]
        BY <2>3 DEF FailCreation
      <4>7. OneCreator' /\ StepsBehind'
        BY <4>2, <4>3, <4>4, <4>5, <4>6, StepBehind DEF CreationTypeOK
      <4> QED
        BY <4>2, <4>7 DEF CreatedSurvives
    <3> QED
      BY <3>1, <3>2
  <2>4. CASE EndCreator(p)
    BY <1>3, <2>4 DEF EndCreator
  <2> QED
    BY <1>4, <2>1, <2>2, <2>3, <2>4, CreatorStep DEF Create
<1>5. CASE CreationPowerLoss
  <2>1. PICK d \in cOutcomes : cDisk' = IF d.directory THEN d ELSE Blank
    BY <1>5 DEF CreationPowerLoss
  <2>2. \A q \in Creators : cPc'[q] \in {"mkdir", "failed"}
    BY <1>5 DEF CreationPowerLoss
  <2>3. cOutcomes' = {cDisk'} /\ created' = created /\ ~Blank.directory
    BY <1>5 DEF CreationPowerLoss, Blank
  <2>4. OneCreator'
    BY <2>1, <2>2, <2>3 DEF OneCreator, Active, CreationSteps, StorageSteps, CatalogSteps
  <2>5. StepsBehind'
    BY <2>2 DEF StepsBehind, Behind, HeaderKept, NameKept, LockKept, LogKept, SchemaKept
  <2> QED
    BY <2>1, <2>3, <2>4, <2>5 DEF CreatedSurvives, Opens
<1> QED
  BY <1>1, <1>2, <1>4, <1>5 DEF CreationNext

\* The lock and the order of the steps are enough for the promises.
LEMMA CreationPromises ==
  ASSUME CreationInvariant
  PROVE  CreatedSurvives /\ CatalogHasOneUser
<1>1. \A p \in Creators : p # Opener
  BY CreationAssumption
<1> QED
  BY <1>1 DEF CreationInvariant, CreationTypeOK, LockHeld, CatalogHasOneUser

----------------------------------------------------------------------------
\* VaultBackup: a backup that succeeded is a clean vault of one moment.

\* What a name of the destination can stand for.
LEMMA ContentsDiffer ==
  /\ Absent # Part
  /\ \A v \in Nat : Whole(v) # Absent /\ Whole(v) # Part
  /\ \A v, w \in Nat : Whole(v) = Whole(w) => v = w
<1>1. Absent.content = "absent" /\ Part.content = "part"
  BY DEF Absent, Part
<1>2. \A v \in Nat : Whole(v).content = "whole" /\ Whole(v).version = v
  BY DEF Whole
<1> QED
  BY <1>1, <1>2

\* There is no destination yet.
LEMMA BackupBegins ==
  ASSUME BackupInit
  PROVE  BackupInvariant
<1> USE BackupAssumption DEF BackupInit
<1>1. BackupTypeOK
  <2>1. 0 \in 0..MaxVersion
    OBVIOUS
  <2>2. source \in [Files -> 0..MaxVersion]
    BY <2>1
  <2>3. copy \in [Entries -> {Absent, Part} \cup {Whole(v) : v \in 0..MaxVersion}]
    OBVIOUS
  <2> QED
    BY <2>2, <2>3 DEF BackupTypeOK
<1>2. CleanSource /\ CopiesClean /\ CopiedSoFar
  BY DEF CleanSource, CopiesClean, CopiedSoFar
<1> QED
  BY <1>1, <1>2 DEF BackupInvariant, BackupIsWhole

\* While the backup copies no writer is in, so writers do not touch what it relies on.
LEMMA WriterStep ==
  ASSUME BackupInvariant,
         \/ StartWriter \/ CloseWriter \/ KillWriter \/ \E f \in Files : ChangeFile(f)
  PROVE  BackupInvariant'
<1> USE BackupAssumption
<1>1. /\ copyAt' = copyAt /\ left' = left /\ copy' = copy /\ secured' = secured
      /\ copyClean' = copyClean
  BY DEF StartWriter, CloseWriter, KillWriter, ChangeFile
<1>2. copyAt \notin {"make", "copy", "syncParent", "check"}
  BY DEF BackupInvariant, CleanSource, CopiesClean, StartWriter, CloseWriter, KillWriter,
     ChangeFile, SourceHeld
<1>3. BackupTypeOK'
  <2>1. source' \in [Files -> 0..MaxVersion]
    BY DEF BackupInvariant, BackupTypeOK, StartWriter, CloseWriter, KillWriter, ChangeFile
  <2>2. marker' \in {"clean", "dirty"} /\ writerAt' \in {"out", "working"}
    BY DEF BackupInvariant, BackupTypeOK, StartWriter, CloseWriter, KillWriter, ChangeFile
  <2> QED
    BY <1>1, <2>1, <2>2 DEF BackupInvariant, BackupTypeOK
<1>4. CleanSource'
  BY DEF BackupInvariant, CleanSource, StartWriter, CloseWriter, KillWriter, ChangeFile
<1>5. CopiesClean' /\ CopiedSoFar'
  BY <1>1, <1>2 DEF BackupInvariant, CopiesClean, CopiedSoFar
<1> QED
  BY <1>1, <1>2, <1>3, <1>4, <1>5 DEF BackupInvariant, BackupIsWhole

\* What the backup does before and after it copies.
LEMMA LockAndFinishStep ==
  ASSUME BackupInvariant,
         LockSource \/ CheckClean \/ MakeDestination \/ FinishBackup \/ FailBackup
  PROVE  BackupInvariant'
<1> USE BackupAssumption DEF BackupInvariant
<1>1. /\ UNCHANGED <<source, marker, writerAt, copy, copyClean>>
      /\ copyAt' \in {"check", "make", "none", "copy", "succeeded", "failed"}
      /\ left' \subseteq Entries
      /\ secured' = IF FinishBackup THEN secured \cup {"destination"} ELSE secured
  BY DEF LockSource, CheckClean, MakeDestination, FinishBackup, FailBackup, KeepSource,
     BackupTypeOK, Entries, Files
<1>2. BackupTypeOK' /\ CleanSource'
  BY <1>1 DEF BackupTypeOK, CleanSource, CopyNames
<1>3. CopiesClean'
  BY <1>1 DEF LockSource, CheckClean, MakeDestination, FinishBackup, FailBackup, CopiesClean,
     BackupTypeOK, MayLock, SourceHeld
<1>4. CASE MakeDestination
  <2>1. copyAt' = "copy" /\ left' = Entries \ {"object"}
    BY <1>4 DEF MakeDestination, Entries, Files
  <2>2. copy["objects"] = Absent /\ copy' = copy
    BY <1>4 DEF MakeDestination, CopiesClean, Entries
  <2>3. CopiedSoFar'
    BY <1>1, <2>1, <2>2 DEF CopiedSoFar, Entries, Files
  <2> QED
    BY <1>2, <1>3, <2>1, <2>3 DEF BackupIsWhole
<1>5. CASE FinishBackup
  <2>1. copyAt = "syncParent" /\ copyAt' = "succeeded" /\ source["catalog"] \in 0..MaxVersion
    BY <1>5 DEF FinishBackup, BackupTypeOK, Files
  <2>2. BackupDone(source["catalog"]) /\ secured' = CopyNames
    BY <1>1, <1>5, <2>1 DEF BackupDone, BackupTypeOK, CopyNames
  <2>3. BackupIsWhole'
    BY <1>1, <2>1, <2>2 DEF BackupDone, BackupIsWhole
  <2> QED
    BY <1>1, <1>2, <1>3, <2>1, <2>3 DEF CopiedSoFar
<1>6. CASE LockSource \/ CheckClean \/ FailBackup
  <2>1. copyAt' \in {"check", "make", "none", "failed"}
    BY <1>6 DEF LockSource, CheckClean, FailBackup
  <2> QED
    BY <1>2, <1>3, <2>1 DEF CopiedSoFar, BackupIsWhole
<1> QED
  BY <1>4, <1>5, <1>6

\* Each entry that is copied is as the source has it, which nobody changes meanwhile.
LEMMA CopyStep ==
  ASSUME BackupInvariant,
         \/ \E f \in Files : CreateEntry(f) \/ CopyBytes(f)
         \/ EnterObjects \/ LeaveObjects
  PROVE  BackupInvariant'
<1> USE BackupAssumption, ContentsDiffer DEF BackupInvariant
<1>1. /\ copyAt = "copy" /\ copyAt' = "copy" /\ marker = "clean"
      /\ UNCHANGED <<source, marker, writerAt>>
  BY DEF CreateEntry, CopyBytes, EnterObjects, LeaveObjects, KeepSource, CopiesClean
<1>2. CleanSource' /\ CopiesClean' /\ BackupIsWhole'
  BY <1>1 DEF CleanSource, CopiesClean, BackupIsWhole
<1>3. SUFFICES BackupTypeOK' /\ CopiedSoFar'
  BY <1>1, <1>2
<1> DEFINE Copies == {Absent, Part} \cup {Whole(v) : v \in 0..MaxVersion}
<1>4. /\ source \in [Files -> 0..MaxVersion] /\ copy \in [Entries -> Copies]
      /\ left \subseteq Entries /\ secured \subseteq CopyNames /\ copyClean \in BOOLEAN
      /\ Whole(0) \in Copies /\ \A f \in Files : Whole(source[f]) \in Copies
  BY DEF BackupTypeOK
<1>5. ASSUME copy' \in [Entries -> Copies], left' \subseteq Entries, secured' \subseteq CopyNames,
             copyClean' \in BOOLEAN
      PROVE  BackupTypeOK'
  BY <1>1, <1>5 DEF BackupTypeOK
<1> HIDE DEF Copies
<1>6. ASSUME NEW f \in Files, CreateEntry(f) PROVE BackupTypeOK' /\ CopiedSoFar'
  <2>1. copy' = [copy EXCEPT ![f] = Part] /\ UNCHANGED <<left, secured, copyClean>> /\ f \in left
    BY <1>6 DEF CreateEntry
  <2>2. Part \in Copies
    BY DEF Copies
  <2>3. BackupTypeOK'
    BY <1>4, <1>5, <2>1, <2>2
  <2> QED
    BY <1>1, <1>4, <2>1, <2>3 DEF CopiedSoFar, Entries, Files
<1>7. ASSUME NEW f \in Files, CopyBytes(f) PROVE BackupTypeOK' /\ CopiedSoFar'
  <2>1. /\ copy' = [copy EXCEPT ![f] = Whole(source[f])] /\ secured' = secured
        /\ left' = left \ {f} /\ f \in left /\ copy[f] = Part
        /\ copyClean' = IF f = "lock" THEN TRUE ELSE copyClean
    BY <1>1, <1>7 DEF CopyBytes
  <2>2. BackupTypeOK'
    BY <1>4, <1>5, <2>1
  <2>3. source[f] \in Nat
    BY <1>4
  <2> QED
    BY <1>1, <1>4, <2>1, <2>2, <2>3 DEF CopiedSoFar, Entries, Files
<1>8. CASE EnterObjects
  <2>1. /\ copy' = [copy EXCEPT !["objects"] = Part] /\ UNCHANGED <<secured, copyClean>>
        /\ left' = left \cup {"object"} /\ "objects" \in left
    BY <1>8 DEF EnterObjects
  <2>2. Part \in Copies
    BY DEF Copies
  <2>3. BackupTypeOK'
    BY <1>4, <1>5, <2>1, <2>2 DEF Entries, Files
  <2> QED
    BY <1>1, <1>4, <2>1, <2>3 DEF CopiedSoFar, Entries, Files
<1>9. CASE LeaveObjects
  <2>1. /\ copy' = [copy EXCEPT !["objects"] = Whole(0)] /\ copyClean' = copyClean
        /\ left' = left \ {"objects"} /\ "object" \notin left /\ copy["objects"] = Part
        /\ secured' = secured \cup {"object"}
    BY <1>9 DEF LeaveObjects
  <2>2. BackupTypeOK'
    BY <1>4, <1>5, <2>1 DEF Entries, Files, CopyNames
  <2> QED
    BY <1>1, <1>4, <2>1, <2>2 DEF CopiedSoFar, Entries, Files
<1> QED
  BY <1>6, <1>7, <1>8, <1>9

\* Nothing is left to copy and every name is synced: the copy is the source.
LEMMA SyncCopyStep ==
  ASSUME BackupInvariant, SyncCopy
  PROVE  BackupInvariant'
<1> USE BackupAssumption, ContentsDiffer DEF BackupInvariant
<1>1. /\ copyAt = "copy" /\ left = {} /\ copyAt' = "syncParent" /\ marker = "clean"
      /\ UNCHANGED <<source, marker, writerAt, left, copy, copyClean>>
      /\ secured' = secured \cup (Present \ {"object"})
  BY DEF SyncCopy, SyncDestination, KeepSource, CopiesClean
<1>2. /\ source \in [Files -> 0..MaxVersion] /\ secured \subseteq CopyNames
      /\ \A f \in Files : source[f] \in Nat /\ source[f] = source["catalog"]
  BY <1>1 DEF BackupTypeOK, CleanSource, Files
<1>3. /\ \A f \in Files : copy[f] = Whole(source[f])
      /\ copy["objects"] = Whole(0) /\ "object" \in secured /\ copyClean
  BY <1>1, <1>2 DEF CopiedSoFar, Files
<1>4. Entries \subseteq secured' /\ secured' \subseteq CopyNames
  BY <1>1, <1>2, <1>3 DEF Present, Entries, CopyNames
<1>5. BackupTypeOK' /\ CleanSource' /\ CopiesClean' /\ CopiedSoFar'
  BY <1>1, <1>4 DEF BackupTypeOK, CleanSource, CopiesClean, CopiedSoFar
<1>6. \A f \in Files : copy'[f] = Whole(source'["catalog"])
  BY <1>1, <1>2, <1>3
<1> QED
  BY <1>1, <1>3, <1>4, <1>5, <1>6 DEF BackupDone, BackupIsWhole

\* What a power loss leaves of a backup that has succeeded is all of it.
LEMMA BackupPowerStep ==
  ASSUME BackupInvariant, BackupPowerLoss
  PROVE  BackupInvariant'
<1> USE BackupAssumption DEF BackupInvariant
<1>1. PICK kept \in SUBSET Present :
        /\ \/ secured \cap Entries \subseteq kept
           \/ "destination" \notin secured /\ kept = {}
        /\ copy' = Surviving(kept)
  BY DEF BackupPowerLoss
<1>2. /\ copyAt' = IF copyAt \in {"none", "succeeded"} THEN copyAt ELSE "failed"
      /\ writerAt' = "out" /\ UNCHANGED <<source, marker, left, secured, copyClean>>
  BY DEF BackupPowerLoss
<1>3. copy' \in [Entries -> {Absent, Part} \cup {Whole(v) : v \in 0..MaxVersion}]
  BY <1>1 DEF BackupTypeOK, Surviving
<1>4. BackupTypeOK' /\ CleanSource'
  BY <1>2, <1>3 DEF BackupTypeOK, CleanSource
<1>5. CASE copyAt = "none"
  <2>1. kept = {}
    BY <1>5 DEF CopiesClean, Present
  <2>2. copy' = [f \in Entries |-> Absent]
    BY <1>1, <2>1 DEF Surviving
  <2>3. CopiesClean'
    BY <1>2, <1>5, <2>2 DEF CopiesClean
  <2> QED
    BY <1>2, <1>4, <1>5, <2>3 DEF CopiedSoFar, BackupIsWhole
<1>6. CASE copyAt = "succeeded"
  <2>1. kept = Entries
    BY <1>1, <1>6 DEF BackupIsWhole, Present, CopyNames
  <2>2. copy' = copy
    BY <1>1, <2>1 DEF Surviving, BackupTypeOK, Entries
  <2> QED
    BY <1>2, <1>4, <1>6, <2>2 DEF CopiesClean, CopiedSoFar, BackupIsWhole
<1>7. CASE copyAt \notin {"none", "succeeded"}
  BY <1>2, <1>4, <1>7 DEF CopiesClean, CopiedSoFar, BackupIsWhole
<1> QED
  BY <1>5, <1>6, <1>7

\* Every step of the writer, of the backup and of the power.
LEMMA BackupStep ==
  ASSUME BackupInvariant, [BackupNext]_backupVars
  PROVE  BackupInvariant'
<1>1. CASE UNCHANGED backupVars
  BY <1>1 DEF backupVars, BackupInvariant, BackupTypeOK, CleanSource, CopiesClean, CopiedSoFar,
     BackupDone, BackupIsWhole
<1>2. CASE BackupNext
  BY <1>2, WriterStep, LockAndFinishStep, CopyStep, SyncCopyStep, BackupPowerStep DEF BackupNext
<1> QED
  BY <1>1, <1>2

----------------------------------------------------------------------------
\* CatalogFiles: the names that SQLite was told of, and the bytes that it moved.

\* What a name can stand for.
LEMMA EntryKinds ==
  /\ NoEntry \in Entry
  /\ \A e \in Entry : e = NoEntry \/ e.inode \in 1..MaxInodes
  /\ \A i \in 1..MaxInodes : File(i) \in Entry /\ Foreign(i) \in Entry /\ File(i).inode = i
<1>1. \A i \in 1..MaxInodes : File(i).inode = i /\ Foreign(i).inode = i
  BY DEF File, Foreign
<1> QED
  BY <1>1 DEF Entry

\* What SQLite can be told of a name.
LEMMA KnownOrNot ==
  ~Unknown.known /\ \A e \in Entry : Stands(e).known /\ Stands(e).entry = e
BY DEF Unknown, Stands

\* The names of deleted files are no members.
LEMMA RetiredIsNoMember ==
  ASSUME NEW m \in Members, NEW n \in RetiredNames
  PROVE  m # n
<1>1. DOMAIN m = {"member"} /\ DOMAIN n = {"pid", "count"}
  BY DEF Members, RetiredNames
<1> QED
  BY <1>1

\* An entry is put under one name.
LEMMA EntryPut ==
  ASSUME NEW d \in [DirNames -> Entry], NEW m \in Members, NEW e \in Entry
  PROVE  /\ WithEntry(d, m, e) \in [DirNames -> Entry]
         /\ \A k \in Members : WithEntry(d, m, e)[k] = IF k = m THEN e ELSE d[k]
BY DEF WithEntry, DirNames

\* A deletion takes the entry from one member and no entry from any other.
LEMMA EntryRetired ==
  ASSUME NEW d \in [DirNames -> Entry], NEW m \in Members, NextRetired \in RetiredNames
  PROVE  /\ Retired(d, m) \in [DirNames -> Entry]
         /\ \A k \in Members : Retired(d, m)[k] = IF k = m THEN NoEntry ELSE d[k]
<1>1. m \in DirNames /\ NextRetired \in DirNames /\ \A k \in Members : k # NextRetired
  BY RetiredIsNoMember DEF DirNames
<1>2. \A k \in Members : k \in DirNames
  BY DEF DirNames
<1> QED
  BY <1>1, <1>2, EntryKinds DEF Retired, Renamed

\* No file is there that SQLite knows of.
LEMMA FilesBegin ==
  ASSUME FilesInit
  PROVE  FilesInvariant
<1> USE CatalogFilesAssumption DEF FilesInit
<1>1. FilesTyped
  <2>1. \A i \in 1..MaxInodes : bytes[i] = <<>> /\ bytes[i] \in Seq(Nat)
    OBVIOUS
  <2>2. process \in [pid : Pids, retired : 0..MaxRetired]
    OBVIOUS
  <2>3. dir \in [DirNames -> Entry] /\ dirOutcomes \subseteq [DirNames -> Entry]
    BY EntryKinds
  <2>4. inodes \in 0..MaxInodes /\ opened \in [Members -> 0..MaxInodes]
    OBVIOUS
  <2> QED
    BY <2>1, <2>2, <2>3, <2>4 DEF FilesTyped
<1>2. NamesAreDurable
  BY KnownOrNot DEF NamesAreDurable
<1>3. NoTransfer.state = "none"
  BY DEF NoTransfer
<1> QED
  BY <1>1, <1>2, <1>3 DEF FilesInvariant, PiecesMoved, TransfersAreWhole

\* A change of one name that is told truly, and of nothing that was told of the others.
LEMMA OneNameChanges ==
  ASSUME NamesAreDurable, NEW m \in Members,
         told'[m].known => \A d \in dirOutcomes' \cup {dir'} : d[m] = told'[m].entry,
         \A k \in Members \ {m} :
           /\ told'[k] = told[k]
           /\ \A d \in dirOutcomes' \cup {dir'} : \E e \in dirOutcomes \cup {dir} : d[k] = e[k]
  PROVE  NamesAreDurable'
BY DEF NamesAreDurable

\* SQLite opens a member, and was told that it stays if it may just have been made.
LEMMA OpenStep ==
  ASSUME FilesTyped, NamesAreDurable, NEW m \in Members, NEW create \in BOOLEAN,
         OpenMember(m, create)
  PROVE  FilesTyped' /\ NamesAreDurable'
<1> USE CatalogFilesAssumption
<1> DEFINE isNew == dir[m] = NoEntry
           entry == IF isNew THEN File(inodes + 1) ELSE dir[m]
<1>1. /\ inodes' = IF isNew THEN inodes + 1 ELSE inodes
      /\ dir' = WithEntry(dir, m, entry)
      /\ opened' = [opened EXCEPT ![m] = entry.inode]
      /\ dirOutcomes' = IF create THEN {dir'} ELSE dirOutcomes
      /\ told' = IF create THEN [told EXCEPT ![m] = Stands(entry)] ELSE told
      /\ UNCHANGED <<bytes, process, transfer>>
      /\ isNew => create /\ inodes < MaxInodes
  BY DEF OpenMember, SyncNewName
<1>2. dir \in [DirNames -> Entry] /\ m \in DirNames /\ dir[m] \in Entry
  BY DEF FilesTyped, DirNames
<1>3. /\ inodes \in 0..MaxInodes /\ inodes' \in 0..MaxInodes
      /\ isNew => inodes + 1 \in 1..MaxInodes
  BY <1>1 DEF FilesTyped
<1>4. entry \in Entry /\ entry.inode \in 1..MaxInodes
  BY <1>2, <1>3, EntryKinds
<1> HIDE DEF isNew, entry
<1>5. /\ dir' \in [DirNames -> Entry]
      /\ \A k \in Members : dir'[k] = IF k = m THEN entry ELSE dir[k]
  BY <1>1, <1>2, <1>4, EntryPut
<1>6. FilesTyped'
  <2>1. opened' \in [Members -> 0..MaxInodes] /\ DOMAIN told' = Members
    BY <1>1, <1>4 DEF FilesTyped
  <2> QED
    BY <1>1, <1>3, <1>5, <2>1 DEF FilesTyped
<1>7. CASE create
  <2>1. \A k \in Members : told'[k] = IF k = m THEN Stands(entry) ELSE told[k]
    BY <1>1, <1>7 DEF FilesTyped
  <2> QED
    BY <1>1, <1>4, <1>5, <1>6, <1>7, <2>1, KnownOrNot, OneNameChanges
<1>8. CASE ~create
  <2>1. entry = dir[m]
    BY <1>1, <1>8 DEF entry
  <2> QED
    BY <1>1, <1>5, <1>6, <1>8, <2>1 DEF NamesAreDurable
<1> QED
  BY <1>7, <1>8

\* A name is made, or replaced by a link, and SQLite is told nothing.
LEMMA UntoldStep ==
  ASSUME FilesTyped, NamesAreDurable, NEW m \in Members, OpenFails(m) \/ PutForeign(m)
  PROVE  FilesTyped' /\ NamesAreDurable'
<1> USE CatalogFilesAssumption
<1>1. PICK e \in Entry :
        /\ dir' = WithEntry(dir, m, e)
        /\ dirOutcomes' = dirOutcomes \cup {WithEntry(d, m, e) : d \in dirOutcomes}
  <2>1. inodes + 1 \in 1..MaxInodes /\ inodes' = inodes + 1
    BY DEF FilesTyped, OpenFails, PutForeign
  <2>2. File(inodes + 1) \in Entry /\ Foreign(inodes + 1) \in Entry
    BY <2>1, EntryKinds
  <2> QED
    BY <2>1, <2>2 DEF OpenFails, PutForeign
<1>2. /\ told' = [told EXCEPT ![m] = Unknown] /\ UNCHANGED <<bytes, opened, process>>
      /\ inodes' \in 0..MaxInodes
  BY DEF FilesTyped, OpenFails, PutForeign
<1>3. /\ dir' \in [DirNames -> Entry] /\ dirOutcomes' \subseteq [DirNames -> Entry]
      /\ \A k \in Members \ {m}, d \in dirOutcomes' \cup {dir'} :
           \E f \in dirOutcomes \cup {dir} : d[k] = f[k]
  <2>1. dir \in [DirNames -> Entry] /\ dirOutcomes \subseteq [DirNames -> Entry]
    BY DEF FilesTyped
  <2>2. ASSUME NEW d \in dirOutcomes' \cup {dir'}
        PROVE  d \in [DirNames -> Entry] /\ \E f \in dirOutcomes \cup {dir} :
                 \A k \in Members \ {m} : d[k] = f[k]
    <3>1. CASE d \in dirOutcomes
      BY <2>1, <3>1
    <3>2. ASSUME NEW f \in dirOutcomes \cup {dir}, d = WithEntry(f, m, e)
          PROVE  d \in [DirNames -> Entry] /\ \A k \in Members \ {m} : d[k] = f[k]
      <4>1. f \in [DirNames -> Entry]
        BY <2>1
      <4>2. /\ WithEntry(f, m, e) \in [DirNames -> Entry]
            /\ \A k \in Members : WithEntry(f, m, e)[k] = IF k = m THEN e ELSE f[k]
        BY <4>1, EntryPut
      <4> QED
        BY <3>2, <4>2
    <3> QED
      BY <1>1, <2>2, <3>1, <3>2
  <2> QED
    BY <2>2
<1>4. FilesTyped'
  BY <1>2, <1>3 DEF FilesTyped
<1>5. \A k \in Members : told'[k] = IF k = m THEN Unknown ELSE told[k]
  BY <1>2 DEF FilesTyped
<1> QED
  BY <1>3, <1>4, <1>5, KnownOrNot, OneNameChanges

\* A member is deleted; SQLite is told so if the directory was synced.
LEMMA DeleteStep ==
  ASSUME FilesTyped, NamesAreDurable, NEW m \in Members,
         \/ \E sync \in BOOLEAN : DeleteMember(m, sync)
         \/ DeleteSyncFails(m)
  PROVE  FilesTyped' /\ NamesAreDurable'
<1> USE CatalogFilesAssumption
<1>1. process.retired < MaxRetired /\ process' = [process EXCEPT !.retired = @ + 1]
  BY DEF DeleteMember, DeleteSyncFails
<1>2. process \in [pid : Pids, retired : 0..MaxRetired]
  BY DEF FilesTyped
<1>3. /\ NextRetired \in RetiredNames
      /\ process' \in [pid : Pids, retired : 0..MaxRetired]
  BY <1>1, <1>2 DEF NextRetired, RetiredNames
<1>4. /\ dir' = Retired(dir, m) /\ UNCHANGED <<inodes, bytes, opened>>
      /\ \/ /\ dirOutcomes' = {dir'}
            /\ told' = [told EXCEPT ![m] = Stands(NoEntry)]
         \/ /\ dirOutcomes' = dirOutcomes \cup {Retired(d, m) : d \in dirOutcomes}
            /\ told' = [told EXCEPT ![m] = Unknown]
  BY DEF DeleteMember, DeleteSyncFails, RetireNew
<1>5. /\ dir' \in [DirNames -> Entry] /\ dirOutcomes' \subseteq [DirNames -> Entry]
      /\ dir'[m] = NoEntry
      /\ \A k \in Members \ {m}, d \in dirOutcomes' \cup {dir'} :
           \E f \in dirOutcomes \cup {dir} : d[k] = f[k]
  <2>1. dir \in [DirNames -> Entry] /\ dirOutcomes \subseteq [DirNames -> Entry]
    BY DEF FilesTyped
  <2>2. ASSUME NEW d \in dirOutcomes' \cup {dir'}
        PROVE  d \in [DirNames -> Entry] /\ \E f \in dirOutcomes \cup {dir} :
                 \A k \in Members \ {m} : d[k] = f[k]
    <3>1. CASE d \in dirOutcomes
      BY <2>1, <3>1
    <3>2. ASSUME NEW f \in dirOutcomes \cup {dir}, d = Retired(f, m)
          PROVE  d \in [DirNames -> Entry] /\ \A k \in Members \ {m} : d[k] = f[k]
      BY <1>3, <2>1, <3>2, EntryRetired
    <3> QED
      BY <1>4, <2>2, <3>1, <3>2
  <2>3. dir'[m] = NoEntry
    BY <1>3, <1>4, <2>1, EntryRetired
  <2> QED
    BY <2>2, <2>3
<1>6. FilesTyped'
  BY <1>3, <1>4, <1>5 DEF FilesTyped
<1>7. CASE dirOutcomes' = {dir'} /\ told' = [told EXCEPT ![m] = Stands(NoEntry)]
  <2>1. \A k \in Members : told'[k] = IF k = m THEN Stands(NoEntry) ELSE told[k]
    BY <1>7 DEF FilesTyped
  <2> QED
    BY <1>5, <1>6, <1>7, <2>1, KnownOrNot, EntryKinds, OneNameChanges
<1>8. CASE told' = [told EXCEPT ![m] = Unknown]
  <2>1. \A k \in Members : told'[k] = IF k = m THEN Unknown ELSE told[k]
    BY <1>8 DEF FilesTyped
  <2> QED
    BY <1>5, <1>6, <2>1, KnownOrNot, OneNameChanges
<1> QED
  BY <1>4, <1>7, <1>8

\* A new process opens nothing, and finds one of the directories that could be left.
LEMMA NewProcessStep ==
  ASSUME FilesTyped, NamesAreDurable, Restart \/ FilesPowerLoss
  PROVE  FilesTyped' /\ NamesAreDurable' /\ transfer' = NoTransfer
<1> USE CatalogFilesAssumption
<1>1. /\ process' \in [pid : Pids, retired : {0}] /\ opened' = [m \in Members |-> 0]
      /\ transfer' = NoTransfer /\ UNCHANGED <<inodes, bytes, told>>
      /\ dirOutcomes' \cup {dir'} \subseteq dirOutcomes \cup {dir}
  BY DEF Restart, FilesPowerLoss, NewProcess
<1>2. /\ process' \in [pid : Pids, retired : 0..MaxRetired]
      /\ opened' \in [Members -> 0..MaxInodes]
  BY <1>1
<1> QED
  BY <1>1, <1>2 DEF FilesTyped, NamesAreDurable

\* A member is closed, or there is nothing to delete.
LEMMA NothingNamedStep ==
  ASSUME FilesTyped, NamesAreDurable, NEW m \in Members,
         CloseMember(m) \/ DeleteWithoutEffect(m)
  PROVE  FilesTyped' /\ NamesAreDurable'
<1> USE CatalogFilesAssumption
<1>1. UNCHANGED <<dir, dirOutcomes, inodes, bytes, told>>
  BY DEF CloseMember, DeleteWithoutEffect
<1>2. /\ opened' \in [Members -> 0..MaxInodes]
      /\ process' \in [pid : Pids, retired : 0..MaxRetired]
  <2>1. CASE CloseMember(m)
    BY <2>1 DEF CloseMember, FilesTyped
  <2>2. CASE DeleteWithoutEffect(m)
    <3>1. /\ process' = [process EXCEPT !.retired = @ + 1] /\ process.retired < MaxRetired
          /\ opened' = opened
      BY <2>2 DEF DeleteWithoutEffect
    <3> QED
      BY <3>1 DEF FilesTyped
  <2> QED
    BY <2>1, <2>2
<1> QED
  BY <1>1, <1>2 DEF FilesTyped, NamesAreDurable

\* Bytes put into a file, and where they go.
LEMMA PatchedBytes ==
  ASSUME NEW old \in Seq(Nat), NEW at \in Nat, NEW piece \in Seq(Nat)
  PROVE  /\ Patched(old, at, piece) \in Seq(Nat)
         /\ Len(Patched(old, at, piece)) = IF at + Len(piece) > Len(old) THEN at + Len(piece)
                                           ELSE Len(old)
         /\ \A k \in 1..Len(Patched(old, at, piece)) :
              Patched(old, at, piece)[k] = IF k \in at + 1..at + Len(piece) THEN piece[k - at]
                                           ELSE IF k <= Len(old) THEN old[k] ELSE 0
<1> DEFINE size == IF at + Len(piece) > Len(old) THEN at + Len(piece) ELSE Len(old)
           byte(k) == IF k \in at + 1..at + Len(piece) THEN piece[k - at]
                      ELSE IF k <= Len(old) THEN old[k] ELSE 0
<1>1. size \in Nat
  OBVIOUS
<1>2. ASSUME NEW k \in 1..size PROVE byte(k) \in Nat
  <2>1. CASE k \in at + 1..at + Len(piece)
    <3>1. k - at \in 1..Len(piece)
      BY <2>1
    <3> QED
      BY <2>1, <3>1
  <2>2. CASE k \notin at + 1..at + Len(piece) /\ k <= Len(old)
    <3>1. k \in 1..Len(old)
      BY <2>2
    <3> QED
      BY <2>2, <3>1
  <2> QED
    BY <2>1, <2>2
<1>3. Patched(old, at, piece) = [k \in 1..size |-> byte(k)]
  BY DEF Patched
<1> HIDE DEF size, byte
<1>4. [k \in 1..size |-> byte(k)] \in [1..size -> Nat]
  BY <1>2
<1>5. [k \in 1..size |-> byte(k)] \in Seq(Nat) /\ Len([k \in 1..size |-> byte(k)]) = size
  BY <1>1, <1>4
<1> QED
  BY <1>3, <1>5 DEF size, byte

\* Two sequences with the same bytes are the same.
LEMMA SameBytes ==
  ASSUME NEW s \in Seq(Nat), NEW t \in Seq(Nat), Len(s) = Len(t),
         \A k \in 1..Len(s) : s[k] = t[k]
  PROVE  s = t
OBVIOUS

\* The first bytes of a write.
LEMMA PieceBytes ==
  ASSUME NEW s \in Seq(Nat), NEW from \in Nat, NEW to \in Nat, from <= to, to <= Len(s)
  PROVE  LET piece == SubSeq(s, from + 1, to)
         IN /\ piece \in Seq(Nat) /\ Len(piece) = to - from
            /\ \A k \in 1..to - from : piece[k] = s[from + k]
OBVIOUS

\* Two pieces that follow each other are one write.
OneWrite(old, at, wanted, done, n) ==
  Patched(Patched(old, at, SubSeq(wanted, 1, done)), at + done,
          SubSeq(wanted, done + 1, done + n))
    = Patched(old, at, SubSeq(wanted, 1, done + n))

\* A write that goes on where it stopped is the write of both pieces at once.
LEMMA PatchedTwice ==
  ASSUME NEW old \in Seq(Nat), NEW at \in Nat, NEW wanted \in Seq(Nat),
         NEW done \in Nat, NEW n \in Nat, done + n <= Len(wanted)
  PROVE  OneWrite(old, at, wanted, done, n)
<1>1. PICK first : first = SubSeq(wanted, 1, done)
  OBVIOUS
<1>2. PICK second : second = SubSeq(wanted, done + 1, done + n)
  OBVIOUS
<1>3. PICK both : both = SubSeq(wanted, 1, done + n)
  OBVIOUS
<1>4. /\ first \in Seq(Nat) /\ Len(first) = done
      /\ \A k \in 1..done : first[k] = wanted[k]
  BY <1>1, PieceBytes
<1>5. /\ second \in Seq(Nat) /\ Len(second) = n
      /\ \A k \in 1..n : second[k] = wanted[done + k]
  BY <1>2, PieceBytes
<1>6. /\ both \in Seq(Nat) /\ Len(both) = done + n
      /\ \A k \in 1..done + n : both[k] = wanted[k]
  BY <1>3, PieceBytes
<1>7. PICK size \in Nat : size = Len(old)
  OBVIOUS
<1>8. PICK next \in Nat : next = at + done
  OBVIOUS
<1>9. PICK all \in Nat : all = done + n
  OBVIOUS
<1>10. PICK middle \in Nat : middle = IF next > size THEN next ELSE size
  OBVIOUS
<1> DEFINE once == Patched(old, at, first)
<1>11. /\ once \in Seq(Nat) /\ Len(once) = middle
       /\ \A k \in 1..middle :
            once[k] = IF k \in at + 1..next THEN first[k - at]
                      ELSE IF k <= size THEN old[k] ELSE 0
  <2>1. next = at + Len(first)
    BY <1>4, <1>8
  <2>2. once \in Seq(Nat) /\ Len(once) = middle
    BY <1>4, <1>7, <1>10, <2>1, PatchedBytes
  <2>3. \A k \in 1..Len(once) :
          once[k] = IF k \in at + 1..at + Len(first) THEN first[k - at]
                    ELSE IF k <= Len(old) THEN old[k] ELSE 0
    BY <1>4, PatchedBytes
  <2> HIDE DEF once
  <2> QED
    BY <1>7, <2>1, <2>2, <2>3
<1> HIDE DEF once
<1>12. PICK end \in Nat : end = next + n
  OBVIOUS
<1>13. PICK longest \in Nat : longest = IF end > size THEN end ELSE size
  OBVIOUS
<1> DEFINE two == Patched(once, next, second)
<1>14. /\ two \in Seq(Nat) /\ Len(two) = longest
       /\ \A k \in 1..longest :
            two[k] = IF k \in next + 1..end THEN second[k - next]
                     ELSE IF k <= middle THEN once[k] ELSE 0
  <2>1. end = next + Len(second) /\ longest = IF end > middle THEN end ELSE middle
    BY <1>5, <1>10, <1>12, <1>13
  <2>2. two \in Seq(Nat) /\ Len(two) = longest
    BY <1>5, <1>11, <2>1, PatchedBytes
  <2>3. second \in Seq(Nat) /\ once \in Seq(Nat)
    BY <1>5, <1>11
  <2>4. \A k \in 1..Len(two) :
          two[k] = IF k \in next + 1..next + Len(second) THEN second[k - next]
                   ELSE IF k <= Len(once) THEN once[k] ELSE 0
    BY <2>3, PatchedBytes, SMTT(30)
  <2> HIDE DEF two
  <2> QED
    BY <1>11, <2>1, <2>2, <2>4
<1> HIDE DEF two
<1> DEFINE one == Patched(old, at, both)
<1>15. /\ one \in Seq(Nat) /\ Len(one) = longest
       /\ \A k \in 1..longest :
            one[k] = IF k \in at + 1..end THEN both[k - at]
                     ELSE IF k <= size THEN old[k] ELSE 0
  <2>1. end = at + Len(both)
    BY <1>6, <1>8, <1>12
  <2>2. one \in Seq(Nat) /\ Len(one) = longest
    BY <1>6, <1>7, <1>13, <2>1, PatchedBytes
  <2>3. both \in Seq(Nat)
    BY <1>6
  <2>4. \A k \in 1..Len(one) :
          one[k] = IF k \in at + 1..at + Len(both) THEN both[k - at]
                   ELSE IF k <= Len(old) THEN old[k] ELSE 0
    BY <2>3, PatchedBytes, SMTT(30)
  <2> HIDE DEF one
  <2> QED
    BY <1>7, <2>1, <2>2, <2>4
<1> HIDE DEF one
<1>16. ASSUME NEW k \in 1..longest PROVE two[k] = one[k]
  <2>0. k \in Nat
    OBVIOUS
  <2>1. CASE k \in next + 1..end
    <3>1. k - next \in 1..n /\ done + (k - next) = k - at /\ k - at \in 1..done + n
      BY <1>8, <1>12, <2>1
    <3>2. both[k - at] = second[k - next]
      BY <1>5, <1>6, <3>1
    <3>3. k \in at + 1..end
      BY <1>8, <2>1
    <3> QED
      BY <1>14, <1>15, <2>1, <3>2, <3>3
  <2>2. CASE k \in at + 1..next
    <3>1. k - at \in 1..done /\ k - at \in 1..done + n /\ k \in 1..middle
      BY <1>8, <1>10, <2>2
    <3>2. both[k - at] = first[k - at]
      BY <1>4, <1>6, <3>1
    <3>3. k \in at + 1..end /\ k \notin next + 1..end /\ k <= middle
      BY <1>8, <1>12, <2>2, <3>1
    <3> QED
      BY <1>11, <1>14, <1>15, <2>2, <3>1, <3>2, <3>3
  <2>3. CASE k <= at \/ k > end
    <3>1. k \notin at + 1..end /\ k \notin next + 1..end /\ k \notin at + 1..next
      BY <1>8, <1>12, <2>3
    <3>2. CASE k <= middle
      <4>1. k \in 1..middle
        BY <3>2
      <4> QED
        BY <1>11, <1>14, <1>15, <3>1, <3>2, <4>1
    <3>3. CASE k > middle
      <4>1. ~(k <= size) /\ ~(k <= middle)
        BY <1>10, <3>3
      <4> QED
        BY <1>14, <1>15, <3>1, <4>1
    <3> QED
      BY <2>0, <3>2, <3>3
  <2>4. k \in next + 1..end \/ k \in at + 1..next \/ k <= at \/ k > end
    BY <1>8, <1>12, <2>0
  <2> QED
    BY <2>1, <2>2, <2>3, <2>4
<1>17. two = one
  BY <1>14, <1>15, <1>16, SameBytes
<1> QED
  BY <1>1, <1>2, <1>3, <1>8, <1>17 DEF once, two, one, OneWrite

\* What a transfer is after a call of the kernel that moved n bytes.
LEMMA TransferMoves ==
  ASSUME transfer \in Transfers, NEW n \in Nat, NEW b \in Seq(Nat)
  PROVE  LET t == Done([Progressed(n) EXCEPT !.buffer = b])
         IN /\ t \in Transfers /\ t.op = transfer.op /\ t.inode = transfer.inode
            /\ t.at = transfer.at /\ t.wanted = transfer.wanted /\ t.before = transfer.before
            /\ t.buffer = b /\ t.done = transfer.done + n /\ t.offset = transfer.offset + n
            /\ t.state = IF t.done = Len(t.wanted) THEN "ok" ELSE transfer.state
            /\ b = transfer.buffer => t = Done(Progressed(n))
<1> DEFINE moved == [Progressed(n) EXCEPT !.buffer = b]
<1>1. /\ moved \in Transfers /\ moved.op = transfer.op /\ moved.inode = transfer.inode
      /\ moved.at = transfer.at /\ moved.wanted = transfer.wanted
      /\ moved.before = transfer.before /\ moved.buffer = b /\ moved.done = transfer.done + n
      /\ moved.offset = transfer.offset + n /\ moved.state = transfer.state
  <2>1. transfer.done + n \in Nat /\ transfer.offset + n \in Nat
    BY DEF Transfers
  <2>2. Progressed(n) = [transfer EXCEPT !.done = transfer.done + n,
                                         !.offset = transfer.offset + n]
    BY DEF Progressed, Advanced, Transfers
  <2> QED
    BY <2>1, <2>2 DEF Transfers
<1>2. b = transfer.buffer => moved = Progressed(n)
  BY DEF Transfers, Progressed, Advanced
<1> HIDE DEF moved
<1> DEFINE t == Done(moved)
<1>3. t = IF moved.done = Len(moved.wanted) THEN [moved EXCEPT !.state = "ok"] ELSE moved
  BY DEF Done
<1>4. /\ t \in Transfers /\ t.op = moved.op /\ t.inode = moved.inode /\ t.at = moved.at
      /\ t.wanted = moved.wanted /\ t.before = moved.before /\ t.buffer = moved.buffer
      /\ t.done = moved.done /\ t.offset = moved.offset
      /\ t.state = IF moved.done = Len(moved.wanted) THEN "ok" ELSE moved.state
  <2> HIDE DEF t
  <2>1. CASE moved.done = Len(moved.wanted)
    BY <1>1, <1>3, <2>1 DEF Transfers
  <2>2. CASE moved.done # Len(moved.wanted)
    BY <1>1, <1>3, <2>2
  <2> QED
    BY <2>1, <2>2
<1>5. b = transfer.buffer => t = Done(Progressed(n))
  BY <1>2
<1> HIDE DEF t
<1>6. /\ t \in Transfers /\ t.op = transfer.op /\ t.inode = transfer.inode
      /\ t.at = transfer.at /\ t.wanted = transfer.wanted /\ t.before = transfer.before
      /\ t.buffer = b /\ t.done = transfer.done + n /\ t.offset = transfer.offset + n
      /\ t.state = IF t.done = Len(t.wanted) THEN "ok" ELSE transfer.state
  BY <1>1, <1>4
<1> QED
  BY <1>5, <1>6 DEF t, moved

\* A transfer that is under way is a transfer.
LEMMA Moving ==
  ASSUME PiecesMoved, Busy
  PROVE  /\ transfer \in Transfers /\ transfer.state = "moving"
         /\ transfer.inode \in 1..MaxInodes /\ transfer.at \in Nat /\ transfer.done \in Nat
         /\ transfer.wanted \in Seq(Nat) /\ transfer.before \in Seq(Nat)
         /\ transfer.buffer \in Seq(Nat) /\ transfer.offset = transfer.at + transfer.done
         /\ transfer.done <= Len(transfer.wanted)
         /\ transfer.op = "read" => ReadSoFar(transfer)
         /\ transfer.op = "write" => WrittenSoFar(transfer)
<1>1. transfer.state = "moving" /\ NoTransfer.state # "moving"
  BY DEF Busy, NoTransfer
<1>2. transfer \in Transfers
  BY <1>1 DEF PiecesMoved
<1> QED
  BY <1>1, <1>2 DEF PiecesMoved, Transfers

\* A transfer begins with nothing moved.
LEMMA StartStep ==
  ASSUME FilesTyped, NEW m \in Members, NEW op \in {"read", "write"}, NEW at \in 0..MaxBytes,
         NEW wanted \in Inputs, StartTransfer(m, op, at, wanted)
  PROVE  PiecesMoved' /\ TransfersAreWhole'
<1>1. wanted \in Seq(Nat)
  <2>1. <<>> \in Seq(Nat) /\ <<1>> \in Seq(Nat)
    OBVIOUS
  <2>2. <<1, 2>> \in Seq(Nat) /\ <<1, 2, 3>> \in Seq(Nat)
    OBVIOUS
  <2> QED
    BY <2>1, <2>2 DEF Inputs
<1>2. opened[m] \in 1..MaxInodes /\ bytes[opened[m]] \in Seq(Nat) /\ bytes' = bytes
  BY CatalogFilesAssumption DEF StartTransfer, FilesTyped
<1>3. at \in Nat /\ <<>> \in Seq(Nat) /\ Len(<<>>) = 0
  BY CatalogFilesAssumption
<1>4. /\ transfer' \in Transfers /\ transfer'.state = "moving" /\ transfer'.op = op
      /\ transfer'.inode = opened[m] /\ transfer'.at = at /\ transfer'.wanted = wanted
      /\ transfer'.done = 0 /\ transfer'.offset = at /\ transfer'.buffer = <<>>
      /\ transfer'.before = bytes[opened[m]]
  BY <1>1, <1>2, <1>3 DEF StartTransfer, Transfers
<1>5. ReadSoFar(transfer)' /\ WrittenSoFar(transfer)'
  BY <1>2, <1>3, <1>4 DEF ReadSoFar, WrittenSoFar
<1>6. 0 <= Len(wanted)
  BY <1>1
<1> QED
  BY <1>3, <1>4, <1>5, <1>6 DEF PiecesMoved, TransfersAreWhole

\* Two sequences joined.
LEMMA JoinedBytes ==
  ASSUME NEW s \in Seq(Nat), NEW t \in Seq(Nat)
  PROVE  /\ s \o t \in Seq(Nat) /\ Len(s \o t) = Len(s) + Len(t)
         /\ \A k \in 1..Len(s) : (s \o t)[k] = s[k]
         /\ \A k \in 1..Len(t) : (s \o t)[Len(s) + k] = t[k]
OBVIOUS

\* Each piece is read behind the one before it.
LEMMA ReadStep ==
  ASSUME FilesTyped, PiecesMoved, NEW n \in Nat, ReadPiece(n)
  PROVE  PiecesMoved' /\ TransfersAreWhole'
<1> DEFINE t == transfer
<1>1. /\ t \in Transfers /\ t.state = "moving" /\ t.op = "read" /\ t.offset = t.at + t.done
      /\ n \in 1..Len(t.wanted) - t.done /\ bytes' = bytes
      /\ bytes[t.inode] = t.before /\ Len(t.buffer) = t.done
      /\ \A k \in 1..t.done : t.buffer[k] = t.before[t.at + k]
  BY Moving DEF ReadPiece, ReadSoFar
<1>2. PICK at \in Nat, done \in Nat, old \in Seq(Nat), got \in Seq(Nat), wanted \in Seq(Nat) :
        /\ at = t.at /\ done = t.done /\ old = t.before /\ got = t.buffer /\ wanted = t.wanted
  BY <1>1 DEF Transfers
<1>3. PICK from \in Nat, to \in Nat : from = at + done /\ to = from + n /\ t.offset = from
  <2>1. t.offset = at + done
    BY <1>1, <1>2
  <2>2. at + done \in Nat /\ (at + done) + n \in Nat
    OBVIOUS
  <2> QED
    BY <2>1, <2>2
<1>4. PICK all : all = got \o SubSeq(old, from + 1, to)
  OBVIOUS
<1>5. transfer' = Done([Progressed(n) EXCEPT !.buffer = all]) /\ to <= Len(old)
  <2>1. Progressed(n).buffer = got
    BY <1>1, <1>2 DEF Progressed, Transfers
  <2> QED
    BY <1>1, <1>2, <1>3, <1>4, <2>1 DEF ReadPiece
<1>6. /\ all \in Seq(Nat) /\ Len(all) = done + n
      /\ \A k \in 1..done + n : all[k] = old[at + k]
  <2>1. PICK piece : piece = SubSeq(old, from + 1, to)
    OBVIOUS
  <2>2. from <= to /\ to - from = n /\ to <= Len(old)
    BY <1>3, <1>5
  <2>3. /\ piece \in Seq(Nat) /\ Len(piece) = n
        /\ \A k \in 1..n : piece[k] = old[from + k]
    BY <2>1, <2>2, PieceBytes
  <2>4. Len(got) = done /\ \A k \in 1..done : got[k] = old[at + k]
    BY <1>1, <1>2
  <2>5. /\ all \in Seq(Nat) /\ Len(all) = done + n
        /\ \A k \in 1..done : all[k] = got[k]
        /\ \A k \in 1..n : all[done + k] = piece[k]
    <3>1. piece \in Seq(Nat) /\ Len(piece) = n /\ Len(got) = done /\ all = got \o piece
      BY <1>4, <2>1, <2>3, <2>4
    <3>2. /\ got \o piece \in Seq(Nat) /\ Len(got \o piece) = Len(got) + Len(piece)
          /\ \A k \in 1..Len(got) : (got \o piece)[k] = got[k]
          /\ \A k \in 1..Len(piece) : (got \o piece)[Len(got) + k] = piece[k]
      BY <3>1, JoinedBytes
    <3> QED
      BY <3>1, <3>2
  <2>6. ASSUME NEW k \in 1..done + n PROVE all[k] = old[at + k]
    <3>1. CASE k <= done
      <4>1. k \in 1..done
        BY <3>1
      <4> QED
        BY <2>4, <2>5, <4>1
    <3>2. CASE k > done
      <4>1. PICK j \in 1..n : k = done + j
        <5>1. k - done \in 1..n /\ k = done + (k - done)
          BY <3>2
        <5> QED
          BY <5>1
      <4>2. from + j = at + k
        BY <1>3, <4>1
      <4> QED
        BY <2>3, <2>5, <4>1, <4>2
    <3> QED
      BY <3>1, <3>2
  <2> QED
    BY <2>5, <2>6
<1>7. /\ transfer' \in Transfers /\ transfer'.op = "read" /\ transfer'.inode = t.inode
      /\ transfer'.at = at /\ transfer'.wanted = wanted /\ transfer'.before = old
      /\ transfer'.buffer = all /\ transfer'.done = done + n /\ transfer'.offset = from + n
      /\ transfer'.state = IF done + n = Len(wanted) THEN "ok" ELSE "moving"
  <2>1. /\ transfer' \in Transfers /\ transfer'.op = t.op /\ transfer'.inode = t.inode
        /\ transfer'.at = t.at /\ transfer'.wanted = t.wanted /\ transfer'.before = t.before
        /\ transfer'.buffer = all /\ transfer'.done = t.done + n
        /\ transfer'.offset = t.offset + n
        /\ transfer'.state = IF transfer'.done = Len(transfer'.wanted) THEN "ok" ELSE t.state
    BY <1>1, <1>5, <1>6, TransferMoves
  <2> QED
    BY <1>1, <1>2, <1>3, <2>1
<1>8. at + (done + n) <= Len(old) /\ done + n <= Len(wanted) /\ from + n = at + (done + n)
  <2>1. n \in 1..Len(wanted) - done
    BY <1>1, <1>2
  <2>2. PICK size \in Nat : size = Len(wanted)
    BY <1>2
  <2>3. n <= size - done
    BY <2>1, <2>2
  <2>4. done + n <= Len(wanted)
    BY <2>2, <2>3
  <2>5. to <= Len(old) /\ to = at + (done + n) /\ from + n = to
    BY <1>3, <1>5
  <2> QED
    BY <2>4, <2>5
<1>9. ReadSoFar(transfer)'
  BY <1>1, <1>2, <1>6, <1>7, <1>8 DEF ReadSoFar
<1>10. PiecesMoved'
  BY <1>7, <1>8, <1>9 DEF PiecesMoved
<1>11. ASSUME done + n = Len(wanted)
       PROVE  all = [k \in 1..Len(wanted) |-> IF at + k <= Len(old) THEN old[at + k] ELSE 0]
  <2>1. \A k \in 1..Len(wanted) : at + k <= Len(old)
    BY <1>8, <1>11
  <2>2. all = [k \in 1..Len(wanted) |-> all[k]]
    BY <1>6, <1>11
  <2> QED
    BY <1>6, <1>11, <2>1, <2>2
<1> QED
  BY <1>7, <1>10, <1>11 DEF TransfersAreWhole

\* A short read is the rest of the file and zeros.
LEMMA ReadEndsStep ==
  ASSUME FilesTyped, PiecesMoved, ReadEnds
  PROVE  PiecesMoved' /\ TransfersAreWhole'
<1> DEFINE t == transfer
<1>1. /\ t \in Transfers /\ t.op = "read" /\ t.offset = t.at + t.done
      /\ t.done <= Len(t.wanted) /\ t.offset >= Len(bytes[t.inode]) /\ bytes' = bytes
      /\ bytes[t.inode] = t.before /\ Len(t.buffer) = t.done
      /\ t.done = 0 \/ t.at + t.done <= Len(t.before)
      /\ \A k \in 1..t.done : t.buffer[k] = t.before[t.at + k]
  BY Moving DEF ReadEnds, ReadSoFar
<1>2. PICK at \in Nat, done \in Nat, old \in Seq(Nat), got \in Seq(Nat), wanted \in Seq(Nat) :
        /\ at = t.at /\ done = t.done /\ old = t.before /\ got = t.buffer /\ wanted = t.wanted
  BY <1>1 DEF Transfers
<1>3. PICK zeros : zeros = Zeros(Len(wanted) - done)
  OBVIOUS
<1>4. Len(wanted) - done \in Nat
  BY <1>1, <1>2
<1>5. /\ zeros \in Seq(Nat) /\ Len(zeros) = Len(wanted) - done
      /\ \A k \in 1..Len(wanted) - done : zeros[k] = 0
  BY <1>3, <1>4 DEF Zeros
<1>6. /\ got \o zeros \in Seq(Nat) /\ Len(got \o zeros) = Len(got) + Len(zeros)
      /\ \A k \in 1..Len(got) : (got \o zeros)[k] = got[k]
      /\ \A k \in 1..Len(zeros) : (got \o zeros)[Len(got) + k] = zeros[k]
  BY <1>5, JoinedBytes
<1>7. PICK all : all = got \o zeros
  OBVIOUS
<1>8. /\ all \in Seq(Nat) /\ Len(all) = Len(wanted)
      /\ \A k \in 1..done : all[k] = got[k]
      /\ \A k \in 1..Len(wanted) - done : all[done + k] = 0
  <2>1. Len(got) = done /\ done + (Len(wanted) - done) = Len(wanted)
    BY <1>1, <1>2
  <2> QED
    BY <1>5, <1>6, <1>7, <2>1
<1>9. ASSUME NEW k \in 1..Len(wanted)
      PROVE  all[k] = IF at + k <= Len(old) THEN old[at + k] ELSE 0
  <2>1. CASE k <= done
    <3>1. k \in 1..done /\ at + k <= Len(old)
      <4>1. done = 0 \/ at + done <= Len(old)
        BY <1>1, <1>2
      <4> QED
        BY <2>1, <4>1
    <3> QED
      BY <1>1, <1>2, <1>8, <3>1
  <2>2. CASE k > done
    <3>1. PICK j \in 1..Len(wanted) - done : k = done + j
      <4>1. k - done \in 1..Len(wanted) - done /\ k = done + (k - done)
        BY <2>2
      <4> QED
        BY <4>1
    <3>2. at + done >= Len(old)
      BY <1>1, <1>2
    <3>3. ~(at + k <= Len(old))
      BY <2>2, <3>2
    <3> QED
      BY <1>8, <3>1, <3>3
  <2> QED
    BY <2>1, <2>2
<1>10. all = [k \in 1..Len(wanted) |-> IF at + k <= Len(old) THEN old[at + k] ELSE 0]
  <2>1. all = [k \in 1..Len(wanted) |-> all[k]]
    BY <1>8
  <2> QED
    BY <1>9, <2>1
<1>11. /\ transfer' \in Transfers /\ transfer'.state = "short" /\ transfer'.op = "read"
       /\ transfer'.at = at /\ transfer'.wanted = wanted /\ transfer'.before = old
       /\ transfer'.buffer = all
  <2>1. transfer' = [t EXCEPT !.state = "short", !.buffer = all]
    BY <1>1, <1>2, <1>3, <1>7 DEF ReadEnds, Transfers
  <2> QED
    BY <1>1, <1>2, <1>8, <2>1 DEF Transfers
<1> QED
  BY <1>10, <1>11 DEF PiecesMoved, TransfersAreWhole

\* Each piece is written behind the one before it.
LEMMA WriteStep ==
  ASSUME FilesTyped, PiecesMoved, NEW n \in Nat, WritePiece(n)
  PROVE  /\ PiecesMoved' /\ TransfersAreWhole'
         /\ DOMAIN bytes' = 1..MaxInodes /\ \A i \in 1..MaxInodes : bytes'[i] \in Seq(Nat)
<1> DEFINE t == transfer
<1>1. /\ t \in Transfers /\ t.state = "moving" /\ t.op = "write" /\ t.offset = t.at + t.done
      /\ n \in 1..Len(t.wanted) - t.done /\ WrittenSoFar(t) /\ t.inode \in 1..MaxInodes
      /\ transfer' = Done(Progressed(n))
  BY Moving DEF WritePiece
<1>2. PICK at \in Nat, done \in Nat, old \in Seq(Nat), wanted \in Seq(Nat), inode \in 1..MaxInodes :
        /\ at = t.at /\ done = t.done /\ old = t.before /\ wanted = t.wanted /\ inode = t.inode
        /\ t.buffer \in Seq(Nat)
  BY <1>1 DEF Transfers
<1>3. n \in 1..Len(wanted) - done /\ done + n <= Len(wanted) /\ t.offset = at + done
  <2>1. n \in 1..Len(wanted) - done
    BY <1>1, <1>2
  <2> QED
    BY <1>1, <1>2, <2>1
<1>4. PICK piece : piece = SubSeq(wanted, done + 1, done + n)
  OBVIOUS
<1>5. /\ DOMAIN bytes = 1..MaxInodes /\ bytes[inode] \in Seq(Nat)
      /\ bytes' = [bytes EXCEPT ![inode] = Patched(bytes[inode], at + done, piece)]
      /\ \A i \in 1..MaxInodes : bytes[i] \in Seq(Nat)
  BY <1>1, <1>2, <1>3, <1>4 DEF WritePiece, FilesTyped
<1>6. Patched(bytes[inode], at + done, piece) = Patched(old, at, SubSeq(wanted, 1, done + n))
  <2>1. CASE done = 0
    BY <1>1, <1>2, <1>4, <2>1 DEF WrittenSoFar
  <2>2. CASE done # 0
    <3>1. bytes[inode] = Patched(old, at, SubSeq(wanted, 1, done))
      BY <1>1, <1>2, <2>2 DEF WrittenSoFar
    <3>2. OneWrite(old, at, wanted, done, n)
      BY <1>3, PatchedTwice
    <3> QED
      BY <1>4, <3>1, <3>2 DEF OneWrite
  <2> QED
    BY <2>1, <2>2
<1>7. Patched(bytes[inode], at + done, piece) \in Seq(Nat)
  <2>1. piece \in Seq(Nat)
    <3>1. PICK to \in Nat : to = done + n /\ done <= to /\ to <= Len(wanted)
      BY <1>3
    <3> QED
      BY <1>4, <3>1, PieceBytes
  <2> QED
    BY <1>5, <2>1, PatchedBytes
<1>8. /\ transfer' \in Transfers /\ transfer'.op = "write" /\ transfer'.inode = inode
      /\ transfer'.at = at /\ transfer'.wanted = wanted /\ transfer'.before = old
      /\ transfer'.done = done + n /\ transfer'.offset = at + done + n
      /\ transfer'.state = IF done + n = Len(wanted) THEN "ok" ELSE "moving"
  <2>1. LET next == Done([Progressed(n) EXCEPT !.buffer = t.buffer])
        IN /\ next \in Transfers /\ next.op = t.op /\ next.inode = t.inode
           /\ next.at = t.at /\ next.wanted = t.wanted /\ next.before = t.before
           /\ next.done = t.done + n /\ next.offset = t.offset + n
           /\ next.state = IF next.done = Len(next.wanted) THEN "ok" ELSE t.state
           /\ next = Done(Progressed(n))
    BY <1>1, <1>2, TransferMoves
  <2> QED
    BY <1>1, <1>2, <1>3, <2>1
<1>9. bytes'[inode] = Patched(old, at, SubSeq(wanted, 1, done + n))
  BY <1>5, <1>6
<1>10. done + n # 0 /\ at + done + n = at + (done + n)
  BY <1>3
<1>11. WrittenSoFar(transfer)'
  BY <1>8, <1>9, <1>10 DEF WrittenSoFar
<1>12. PiecesMoved'
  BY <1>3, <1>8, <1>10, <1>11 DEF PiecesMoved
<1>13. done + n = Len(wanted) => SubSeq(wanted, 1, done + n) = wanted
  OBVIOUS
<1> QED
  BY <1>5, <1>7, <1>8, <1>9, <1>12, <1>13 DEF TransfersAreWhole

\* A transfer that fails has nothing to answer for, and a truncation cuts or adds zeros.
LEMMA NothingMovedStep ==
  ASSUME FilesTyped, PiecesMoved,
         TransferFails \/ \E m \in Members, size \in 0..MaxBytes : Truncate(m, size)
  PROVE  /\ PiecesMoved' /\ TransfersAreWhole'
         /\ DOMAIN bytes' = 1..MaxInodes /\ \A i \in 1..MaxInodes : bytes'[i] \in Seq(Nat)
<1>1. CASE TransferFails
  <2>1. transfer' \in Transfers /\ transfer'.state = "failed" /\ bytes' = bytes
    BY <1>1, Moving DEF TransferFails, Transfers
  <2> QED
    BY <2>1 DEF FilesTyped, PiecesMoved, TransfersAreWhole
<1>2. ASSUME NEW m \in Members, NEW size \in 0..MaxBytes, Truncate(m, size)
      PROVE  /\ PiecesMoved' /\ TransfersAreWhole'
             /\ DOMAIN bytes' = 1..MaxInodes /\ \A i \in 1..MaxInodes : bytes'[i] \in Seq(Nat)
  <2>1. transfer' = NoTransfer /\ NoTransfer.state = "none"
    BY <1>2 DEF Truncate, NoTransfer
  <2>2. PICK i \in 1..MaxInodes, old \in Seq(Nat) : i = opened[m] /\ old = bytes[i]
    BY <1>2, CatalogFilesAssumption DEF Truncate, FilesTyped
  <2> DEFINE cut == [k \in 1..size |-> IF k <= Len(old) THEN old[k] ELSE 0]
  <2>3. cut \in Seq(Nat)
    <3>1. size \in Nat
      BY CatalogFilesAssumption
    <3>2. \A k \in 1..size : (IF k <= Len(old) THEN old[k] ELSE 0) \in Nat
      OBVIOUS
    <3> QED
      BY <3>1, <3>2
  <2>4. bytes' = [bytes EXCEPT ![i] = cut]
    BY <1>2, <2>2 DEF Truncate
  <2> HIDE DEF cut
  <2> QED
    BY <2>1, <2>3, <2>4 DEF FilesTyped, PiecesMoved, TransfersAreWhole
<1> QED
  BY <1>1, <1>2

\* Names and bytes, whatever SQLite, other processes, restarts and power do.
LEMMA FilesStep ==
  ASSUME FilesInvariant, [FilesNext]_fileVars
  PROVE  FilesInvariant'
<1>1. FilesTyped /\ NamesAreDurable /\ PiecesMoved /\ TransfersAreWhole
  BY DEF FilesInvariant
<1>2. ASSUME UNCHANGED <<bytes, transfer>> PROVE PiecesMoved' /\ TransfersAreWhole'
  BY <1>1, <1>2 DEF PiecesMoved, TransfersAreWhole, ReadSoFar, WrittenSoFar
<1>3. ASSUME UNCHANGED <<dir, dirOutcomes, inodes, opened, process, told>>,
             DOMAIN bytes' = 1..MaxInodes /\ \A i \in 1..MaxInodes : bytes'[i] \in Seq(Nat)
      PROVE  FilesTyped' /\ NamesAreDurable'
  BY <1>1, <1>3 DEF FilesTyped, NamesAreDurable
<1>4. ASSUME UNCHANGED <<dir, dirOutcomes, inodes, opened, process, told>>, bytes' = bytes
      PROVE  FilesTyped' /\ NamesAreDurable'
  BY <1>1, <1>4 DEF FilesTyped, NamesAreDurable
<1>5. CASE UNCHANGED fileVars
  BY <1>2, <1>4, <1>5 DEF fileVars, FilesInvariant
<1>6. ASSUME NEW m \in Members, NEW flag \in BOOLEAN,
             OpenMember(m, flag) \/ DeleteMember(m, flag)
      PROVE  FilesInvariant'
  <2>1. UNCHANGED <<bytes, transfer>>
    BY <1>6 DEF OpenMember, DeleteMember
  <2> QED
    BY <1>1, <1>2, <1>6, <2>1, OpenStep, DeleteStep DEF FilesInvariant
<1>7. ASSUME NEW m \in Members,
             \/ OpenFails(m) \/ CloseMember(m) \/ DeleteWithoutEffect(m)
             \/ DeleteSyncFails(m) \/ PutForeign(m)
      PROVE  FilesInvariant'
  <2>1. UNCHANGED <<bytes, transfer>>
    BY <1>7 DEF OpenFails, CloseMember, DeleteWithoutEffect, DeleteSyncFails, PutForeign
  <2> QED
    BY <1>1, <1>2, <1>7, <2>1, UntoldStep, NothingNamedStep, DeleteStep DEF FilesInvariant
<1>8. ASSUME NEW m \in Members, NEW op \in {"read", "write"}, NEW at \in 0..MaxBytes,
             NEW wanted \in Inputs, StartTransfer(m, op, at, wanted)
      PROVE  FilesInvariant'
  BY <1>1, <1>4, <1>8, StartStep DEF StartTransfer, FilesInvariant
<1>9. ASSUME NEW n \in 1..MaxBytes, ReadPiece(n) \/ WritePiece(n) PROVE FilesInvariant'
  <2>1. n \in Nat
    OBVIOUS
  <2>2. CASE ReadPiece(n)
    BY <1>1, <1>4, <2>1, <2>2, ReadStep DEF ReadPiece, KeepNames, FilesInvariant
  <2>3. CASE WritePiece(n)
    BY <1>1, <1>3, <2>1, <2>3, WriteStep DEF WritePiece, KeepNames, FilesInvariant
  <2> QED
    BY <1>9, <2>2, <2>3
<1>10. CASE ReadEnds
  BY <1>1, <1>4, <1>10, ReadEndsStep DEF ReadEnds, KeepNames, FilesInvariant
<1>11. CASE TransferFails \/ \E m \in Members, size \in 0..MaxBytes : Truncate(m, size)
  <2>1. UNCHANGED <<dir, dirOutcomes, inodes, opened, process, told>>
    BY <1>11 DEF TransferFails, Truncate, KeepNames
  <2> QED
    BY <1>1, <1>3, <1>11, <2>1, NothingMovedStep DEF FilesInvariant
<1>12. CASE Restart \/ FilesPowerLoss
  <2>1. FilesTyped' /\ NamesAreDurable' /\ transfer' = NoTransfer /\ NoTransfer.state = "none"
    BY <1>1, <1>12, NewProcessStep DEF NoTransfer
  <2> QED
    BY <2>1 DEF FilesInvariant, PiecesMoved, TransfersAreWhole
<1> QED
  BY <1>5, <1>6, <1>7, <1>8, <1>9, <1>10, <1>11, <1>12 DEF FilesNext

----------------------------------------------------------------------------
\* What create and backup_closed report done is done, and stays so; what SQLite was told of
\* names and transfers is so (VaultCreation, VaultBackup, CatalogFiles).
THEOREM ReportedHolds == PartsSpec => []ReportedIsDone
<1> DEFINE Inv == CreationInvariant /\ BackupInvariant /\ FilesInvariant
<1>1. PartsInit => Inv
  BY CreationBegins, BackupBegins, FilesBegin DEF PartsInit
<1>2. Inv /\ [PartsNext]_partVars => Inv'
  BY StepOfAPart, CreationStep, BackupStep, FilesStep
<1>3. Inv => ReportedIsDone
  BY CreationPromises DEF BackupInvariant, FilesInvariant, ReportedIsDone
<1> QED
  BY <1>1, <1>2, <1>3, PTL DEF PartsSpec
=============================================================================

----------------------------- MODULE GalleryView -----------------------------
(***************************************************************************)
(* The gallery page (crates/osv-app/src/ui.rs): the listing that is polled  *)
(* for, the level that is shown, the tiles that GTK binds to its positions  *)
(* and recycles, and the thumbnails whose answers arrive whenever they      *)
(* like.  Callbacks run one at a time; between any two of them the vault    *)
(* may be locked, unlocked or changed.                                      *)
(*                                                                         *)
(* A tree is what list_gallery answered: the entries of the top level and   *)
(* of every gallery.                                                        *)
(***************************************************************************)
EXTENDS Naturals, Sequences, FiniteSets

CONSTANTS
  Trees,          \* what the catalog holds at revision 1, 2, ...
  Folders,        \* the galleries in them; every other entry is an image
  Tiles,          \* list items of the grid
  ListingMayFail, \* a listing may be answered with an error
  MaxSessions,    \* bound: times the vault is unlocked
  MaxListings,    \* bound: listings under way at once
  MaxThumbnails   \* bound: thumbnails under way at once

NoTree == [root |-> <<>>]
Unbound == 0

ASSUME ViewAssumption ==
  /\ ListingMayFail \in BOOLEAN
  /\ MaxSessions \in Nat /\ MaxListings \in Nat \ {0} /\ MaxThumbnails \in Nat \ {0}
  /\ IsFiniteSet(Folders)
  /\ Len(Trees) \in Nat \ {0} /\ DOMAIN Trees = 1..Len(Trees)
  /\ \A i \in DOMAIN Trees :
       /\ Trees[i].root # <<>> /\ Trees[i] # NoTree /\ Len(Trees[i].root) \in Nat
       /\ \A f \in DOMAIN Trees[i].inside : Len(Trees[i].inside[f]) \in Nat

VARIABLES
  shownSession,  \* generation of the unlocked session, 0 while locked
  sessions,      \* sessions opened so far
  revision,      \* catalog revision of the session
  loaded,        \* the generation and revision that were last listed
  listings,      \* listings under way: what the owner thread will have answered
  unlisted,      \* the listing that was asked for last has failed
  snapshot,      \* the listing that is navigated
  view,          \* entries, path, selected position, the Up button
  tiles,         \* position and picture of each list item
  thumbnails     \* thumbnails under way

viewVars == <<shownSession, sessions, revision, loaded, listings, unlisted, snapshot, view,
              tiles, thumbnails>>

NotLoaded == <<0, 0>>
NoPicture == "none"
EmptyView == [entries |-> <<>>, path |-> <<>>, selected |-> 0, up |-> FALSE]
FreeTile == [position |-> Unbound, picture |-> NoPicture]

ViewInit ==
  /\ shownSession = 0 /\ sessions = 0 /\ revision = 1
  /\ loaded = NotLoaded /\ listings = {} /\ unlisted = FALSE /\ snapshot = NoTree
  /\ view = EmptyView
  /\ tiles = [t \in Tiles |-> FreeTile] /\ thumbnails = {}

----------------------------------------------------------------------------
\* GallerySnapshot::level; the top level is that of the empty path.
Level(tree, path) ==
  IF path = <<>> THEN tree.root
  ELSE LET folder == path[Len(path)] IN
         IF tree # NoTree /\ folder \in DOMAIN tree.inside THEN tree.inside[folder] ELSE <<>>

\* gtk::SingleSelection keeps an item selected: the first of a list that was empty, the
\* proportional one when all items are replaced.
Autoselected(selected, removed, added) ==
  IF added = 0 THEN 0
  ELSE IF selected = 0 THEN 1 ELSE ((selected - 1) * added) \div removed + 1

\* show_gallery_level, and the selection that GTK leaves; GTK tells of it, unless there is
\* none, and it may or may not tell of a selected position that stays the same.
Shown(tree, v) ==
  LET next == Level(tree, v.path) IN
    [entries |-> next, path |-> v.path, up |-> v.up,
     selected |-> Autoselected(v.selected, Len(v.entries), Len(next))]
Quiet(v, selected) == v.selected \in {0, selected}

\* A gallery that becomes selected, by the user or by GTK, is entered.
OnFolder(v) == v.entries[v.selected] \in Folders
Inside(v) == [v EXCEPT !.path = Append(@, v.entries[v.selected]), !.up = TRUE]

\* The views whose selection is told of when that of v is: the galleries that GTK selects
\* are entered one inside the other.
Inner(tree, views) ==
  {w \in {Shown(tree, Inside(u)) : u \in {x \in views : OnFolder(x)}} : w.selected # 0}
Told(tree, v) ==
  LET f[n \in 0..Cardinality(Folders)] ==
        IF n = 0 THEN {v} ELSE f[n - 1] \cup Inner(tree, f[n - 1])
  IN {v} \cup Inner(tree, f[Cardinality(Folders)])

\* The views that selecting an entry may end in, and those that showing a level may.
Ends(tree, v) ==
  LET inner == Shown(tree, Inside(v)) IN
    IF ~OnFolder(v) THEN {v} ELSE IF Quiet(inner, v.selected) THEN {inner} ELSE {}
Selects(tree, v) ==
  IF ~OnFolder(v) THEN {v}
  ELSE IF tree = NoTree THEN {Inside(v)}
  ELSE UNION {Ends(tree, w) : w \in Told(tree, v)}
Shows(tree, v) ==
  LET w == Shown(tree, v) IN
    (IF w.selected = 0 THEN {} ELSE Selects(tree, w)) \cup (IF Quiet(w, v.selected) THEN {w} ELSE {})

\* Replacing the items of the model takes every tile off its position.
Recycled(replaced) ==
  tiles' = [t \in Tiles |-> IF replaced THEN [tiles[t] EXCEPT !.position = Unbound]
                            ELSE tiles[t]]

----------------------------------------------------------------------------
\* What other parts of the program do between two callbacks.

OpenSession ==
  /\ shownSession = 0 /\ sessions < MaxSessions
  /\ sessions' = sessions + 1 /\ shownSession' = sessions'
  /\ UNCHANGED <<revision, loaded, listings, unlisted, snapshot, view, tiles, thumbnails>>

CatalogChanges ==
  /\ shownSession # 0 /\ revision < Len(Trees)
  /\ revision' = revision + 1
  /\ UNCHANGED <<shownSession, sessions, loaded, listings, unlisted, snapshot, view, tiles, thumbnails>>

\* Both lock paths clear the pictures of the tiles and revoke the presentation.
LockGallery ==
  /\ shownSession # 0
  /\ shownSession' = 0
  /\ snapshot' = NoTree
  /\ view' = [EmptyView EXCEPT !.up = view.up]
  /\ tiles' = [t \in Tiles |-> FreeTile]
  /\ UNCHANGED <<sessions, revision, loaded, listings, unlisted, thumbnails>>

----------------------------------------------------------------------------
\* The poll of the page, every 50 ms.

PollLocked ==
  /\ shownSession = 0
  /\ loaded' = NotLoaded /\ snapshot' = NoTree /\ view' = EmptyView
  /\ Recycled(TRUE)
  /\ UNCHANGED <<shownSession, sessions, revision, listings, unlisted, thumbnails>>

Answered == {i \in listings : i.revision # 0}

PollRevision ==
  /\ shownSession # 0 /\ loaded # <<shownSession, revision>>
  /\ loaded' = <<shownSession, revision>> /\ unlisted' = FALSE
  /\ \E number \in 1..MaxListings :
       /\ \A i \in listings : i.number < number
       /\ listings' = listings \cup
            {[number |-> number, generation |-> shownSession, revision |-> 0,
              behind |-> {i.number : i \in Answered}]}
  /\ UNCHANGED <<shownSession, sessions, revision, snapshot, view, tiles, thumbnails>>

\* The owner thread answers in the order of the requests, with what it finds then.
AnswerListing ==
  \E i \in listings :
    /\ i.revision = 0 /\ \A j \in listings : j.revision = 0 => i.number <= j.number
    /\ listings' = (listings \ {i}) \cup {[i EXCEPT !.revision = revision]}
    /\ UNCHANGED <<shownSession, sessions, revision, loaded, unlisted, snapshot, view, tiles, thumbnails>>

\* Each answer has a poller of its own, every 20 ms.  GLib fires it before the first
\* time of a later one if the answer was there when that one was started; otherwise
\* the timers fire in any order.
Due(i) == i.revision # 0 /\ \A j \in listings : j.number \notin i.behind

\* The level is shown before the snapshot is replaced.
ListingArrives ==
  \E i \in listings :
    /\ Due(i)
    /\ listings' = listings \ {i}
    /\ IF i.generation = shownSession
       THEN /\ LET next == Trees[i.revision].root
                   position == Autoselected(view.selected, Len(view.entries), Len(next))
                   top == [entries |-> next, path |-> <<>>, selected |-> position, up |-> FALSE]
               IN view' \in Selects(snapshot, top) \cup
                            (IF Quiet(top, view.selected) THEN {top} ELSE {})
            /\ snapshot' = Trees[i.revision]
            /\ Recycled(TRUE)
       ELSE UNCHANGED <<snapshot, view, tiles>>
    /\ UNCHANGED <<shownSession, sessions, revision, loaded, unlisted, thumbnails>>

\* A listing that fails is not asked for again.
ListingFails ==
  \E i \in listings :
    /\ ListingMayFail /\ Due(i)
    /\ listings' = listings \ {i}
    /\ unlisted' = (unlisted \/ \A j \in listings' : j.number < i.number)
    /\ UNCHANGED <<shownSession, sessions, revision, loaded, snapshot, view, tiles, thumbnails>>

----------------------------------------------------------------------------
\* Clicks.

ClickUp ==
  /\ view.up
  /\ LET path == IF view.path = <<>> THEN <<>> ELSE SubSeq(view.path, 1, Len(view.path) - 1)
         v == [view EXCEPT !.path = path, !.up = path # <<>>]
     IN \E w \in (IF snapshot = NoTree THEN {v} ELSE Shows(snapshot, v)) :
          /\ view' = w
          /\ Recycled(snapshot # NoTree)
          /\ UNCHANGED <<shownSession, sessions, revision, loaded, listings, unlisted, snapshot, thumbnails>>

Select(position) ==
  /\ position \in 1..Len(view.entries) /\ position # view.selected
  /\ view' \in Selects(snapshot, [view EXCEPT !.selected = position])
  /\ Recycled(snapshot # NoTree /\ view.entries[position] \in Folders)
  /\ UNCHANGED <<shownSession, sessions, revision, loaded, listings, unlisted, snapshot, thumbnails>>

ClickPrevious == view.selected > 1 /\ Select(view.selected - 1)
ClickNext == view.selected # 0 /\ Select(view.selected + 1)
ClickTile == \E t \in Tiles : tiles[t].position # Unbound /\ Select(tiles[t].position)

----------------------------------------------------------------------------
\* The factory of the tiles.

\* GTK binds a tile to a position that has none, also one that had another position.
\* It shows nothing until its thumbnail arrives.
BindTile(t, position) ==
  /\ \A u \in Tiles : tiles[u].position # position
  /\ tiles' = [tiles EXCEPT ![t] = [position |-> position, picture |-> NoPicture]]
  /\ LET entry == view.entries[position] IN
       IF entry \in Folders \/ shownSession = 0 THEN UNCHANGED thumbnails
       ELSE \E number \in 1..MaxThumbnails :
              /\ \A i \in thumbnails : i.number # number
              /\ thumbnails' = thumbnails \cup
                   {[number |-> number, generation |-> shownSession, tile |-> t,
                     position |-> position, image |-> entry]}
  /\ UNCHANGED <<shownSession, sessions, revision, loaded, listings, unlisted, snapshot, view>>
Bind == \E t \in Tiles, position \in 1..Len(view.entries) : BindTile(t, position)

\* Mutant: the entry that the position has by now is not looked at.
AtPosition(i) ==
  i.generation = shownSession /\ tiles[i.tile].position = i.position

StillCurrent(i) ==
  /\ i.generation = shownSession /\ tiles[i.tile].position = i.position
  /\ i.position <= Len(view.entries) /\ view.entries[i.position] = i.image

ThumbnailArrives ==
  \E i \in thumbnails, opened \in BOOLEAN :
    /\ thumbnails' = thumbnails \ {i}
    /\ tiles' = IF opened /\ StillCurrent(i) THEN [tiles EXCEPT ![i.tile].picture = i.image]
                ELSE tiles
    /\ UNCHANGED <<shownSession, sessions, revision, loaded, listings, unlisted, snapshot, view>>

ViewNext ==
  \/ OpenSession \/ CatalogChanges \/ LockGallery
  \/ PollLocked \/ PollRevision \/ AnswerListing \/ ListingArrives \/ ListingFails
  \/ ClickUp \/ ClickPrevious \/ ClickNext \/ ClickTile
  \/ Bind \/ ThumbnailArrives

ViewSpec == ViewInit /\ [][ViewNext]_viewVars

----------------------------------------------------------------------------
ViewTypeOK ==
  /\ unlisted \in BOOLEAN
  /\ shownSession \in 0..sessions /\ sessions \in 0..MaxSessions
  /\ revision \in DOMAIN Trees
  /\ snapshot \in {Trees[i] : i \in DOMAIN Trees} \cup {NoTree}
  /\ view.selected \in 0..Len(view.entries)
  /\ \A t \in Tiles : tiles[t].position \in Unbound..Len(view.entries)

\* A tile shows the thumbnail of the entry at its position and of no other, however late
\* the thumbnail arrives: after a new listing, another level, a recycled tile, a lock and
\* a new session (the still_current test of the factory).
TileShowsItsEntry ==
  \A t \in Tiles :
    tiles[t].position # Unbound /\ tiles[t].picture # NoPicture =>
      shownSession # 0 /\ view.entries[tiles[t].position] = tiles[t].picture

\* When every listing that was asked for has arrived, the gallery that is navigated is
\* the one of the catalog, in whatever order they were answered and shown: the revision
\* is noted before it is listed, and it grows before the next listing.  Only a listing
\* that failed may leave it behind.
ListingIsCurrent ==
  shownSession # 0 /\ loaded = <<shownSession, revision>> /\ listings = {} /\ ~unlisted =>
    snapshot = Trees[revision]

----------------------------------------------------------------------------
\* The inductive invariant.

\* A listing that has been answered with what the catalog holds, or will be.
Current(i) == i.generation = shownSession => i.revision \in {0, revision}

\* While what was asked for last is what the catalog holds, every answer to come is
\* current, or the last one is, and waits for those that are not.
ListingsInTime ==
  shownSession # 0 /\ loaded = <<shownSession, revision>> /\ ~unlisted =>
    \/ snapshot = Trees[revision] /\ \A i \in listings : Current(i)
    \/ \E last \in listings :
         /\ last.generation = shownSession /\ Current(last)
         /\ \A i \in listings \ {last} :
              i.number < last.number /\ (Current(i) \/ i.number \in last.behind)

ViewInvariant ==
  /\ TileShowsItsEntry /\ ListingsInTime
  /\ DOMAIN view = {"entries", "path", "selected", "up"} /\ DOMAIN tiles = Tiles
  /\ \A t \in Tiles : DOMAIN tiles[t] = {"position", "picture"}
  /\ \A i \in thumbnails : i.generation # 0 /\ i.position # Unbound
  /\ sessions \in Nat /\ shownSession \in 0..sessions /\ revision \in Nat \ {0}
  /\ loaded \in (0..sessions) \X (0..revision)
  /\ \A i \in listings :
       i.number \in Nat /\ i.generation \in 0..sessions /\ i.revision \in 0..revision
=============================================================================

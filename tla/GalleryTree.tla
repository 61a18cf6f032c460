----------------------------- MODULE GalleryTree -----------------------------
(***************************************************************************)
(* Galleries, tags, favourites and the search index of the catalog         *)
(* (crates/osv-catalog/src/repository.rs, types.rs, schema.rs), changed in  *)
(* transactions, and the listing that the session owner composes of them   *)
(* (crates/osv-app/src/runtime.rs, list_gallery).                          *)
(***************************************************************************)
EXTENDS Naturals, FiniteSets

CONSTANTS
  Galleries, Images,  \* identifiers
  MaxPosition,        \* bound: positions in a gallery
  MaxStatements,      \* bound: statements of a transaction
  ListLimit           \* 10 000 in the program

ASSUME GalleryAssumption ==
  /\ MaxPosition \in Nat /\ MaxStatements \in Nat
  /\ ListLimit \in Nat \ {0}
  /\ Galleries \cap Images = {}

NoDraft == [open |-> FALSE]

VARIABLES
  shelf,   \* the committed rows
  draft    \* the rows as the open transaction sees them

galleryVars == <<shelf, draft>>

Children == Galleries \cup Images
Row == [parent : Galleries, position : 0..MaxPosition, child : Children]
Shelf == [galleries : SUBSET Galleries, media : SUBSET Images, rows : SUBSET Row,
          tagged : SUBSET Images, favorites : SUBSET Images, indexed : SUBSET Images]

GalleryInit ==
  /\ shelf = [galleries |-> {}, media |-> {}, rows |-> {}, tagged |-> {},
              favorites |-> {}, indexed |-> {}]
  /\ draft = NoDraft

----------------------------------------------------------------------------
\* The galleries below root, as WITH RECURSIVE descendants collects them.
Below(rows, found) == {r.child : r \in {x \in rows : x.parent \in found}} \cap Galleries

\* Mutant: only the galleries directly below are looked at.
DirectDescendants(rows, root) == {root} \cup Below(rows, {root})

\* The least set of galleries that has root and what its members hold.
Descendants(rows, root) ==
  {g \in Galleries : \A found \in SUBSET Galleries :
     root \in found /\ Below(rows, found) \subseteq found => g \in found}

\* The check of add_gallery_child, which the trigger of the table repeats.
WouldCycle(rows, parent, child) == parent \in Descendants(rows, child)

\* Primary key, the two UNIQUE constraints and the foreign keys of gallery_children.
RowAllowed(s, parent, position, child) ==
  /\ parent \in s.galleries /\ child \in s.galleries \cup s.media
  /\ \A r \in s.rows : r.parent = parent => r.position # position /\ r.child # child

\* A statement that fails changes nothing and leaves the transaction open.
Statement(rows) ==
  /\ draft.open /\ draft.count < MaxStatements
  /\ draft' = [draft EXCEPT !.count = @ + 1, !.rows = rows]
  /\ UNCHANGED shelf

CreateGallery(g) ==
  /\ draft.open /\ g \notin draft.rows.galleries
  /\ Statement([draft.rows EXCEPT !.galleries = @ \cup {g}])

AddGalleryChild(parent, position, child) ==
  /\ draft.open /\ RowAllowed(draft.rows, parent, position, child)
  /\ (child \in Galleries => ~WouldCycle(draft.rows.rows, parent, child))
  /\ Statement([draft.rows EXCEPT
       !.rows = @ \cup {[parent |-> parent, position |-> position, child |-> child]}])

\* The insert trigger of media adds the medium to the search index.
InsertMedia(m) ==
  /\ draft.open /\ m \notin draft.rows.media
  /\ Statement([draft.rows EXCEPT !.media = @ \cup {m}, !.indexed = @ \cup {m}])

\* Mutant: the rows of the galleries do not follow the medium.
KeepChildren(s, m) == [s EXCEPT !.media = @ \ {m}, !.tagged = @ \ {m},
                         !.favorites = @ \ {m}, !.indexed = @ \ {m}]

\* ON DELETE CASCADE takes its places in galleries and its tags, a trigger its entry
\* in the index.
WithoutMedia(s, m) ==
  [s EXCEPT !.media = @ \ {m}, !.rows = {r \in @ : r.child # m}, !.tagged = @ \ {m},
            !.favorites = @ \ {m}, !.indexed = @ \ {m}]

DeleteMedia(m) ==
  /\ draft.open /\ m \in draft.rows.media
  /\ Statement(WithoutMedia(draft.rows, m))

TagMedia(m) ==
  /\ draft.open /\ m \in draft.rows.media /\ m \notin draft.rows.tagged
  /\ Statement([draft.rows EXCEPT !.tagged = @ \cup {m}])

SetFavorite(m, favorite) ==
  /\ draft.open /\ m \in draft.rows.media
  /\ Statement([draft.rows EXCEPT !.favorites = IF favorite THEN @ \cup {m} ELSE @ \ {m}])

BeginTransaction ==
  /\ ~draft.open
  /\ draft' = [open |-> TRUE, count |-> 0, rows |-> shelf]
  /\ UNCHANGED shelf
Commit == draft.open /\ shelf' = draft.rows /\ draft' = NoDraft
Rollback == draft.open /\ draft' = NoDraft /\ UNCHANGED shelf

GalleryNext ==
  \/ BeginTransaction \/ Commit \/ Rollback
  \/ \E g \in Galleries : CreateGallery(g)
  \/ \E m \in Images : InsertMedia(m) \/ DeleteMedia(m) \/ TagMedia(m)
  \/ \E m \in Images, favorite \in BOOLEAN : SetFavorite(m, favorite)
  \/ \E parent \in Galleries, position \in 0..MaxPosition, child \in Children :
       AddGalleryChild(parent, position, child)

----------------------------------------------------------------------------
\* list_gallery: roots are what no gallery holds; the whole listing is refused when it
\* exceeds the limit.  The query of the images is cut at the limit, too.
Listed(s) == IF Cardinality(s.media) <= ListLimit THEN s.media
             ELSE CHOOSE some \in SUBSET s.media : Cardinality(some) = ListLimit

ListingRefused(s) ==
  \/ Cardinality(Listed(s)) + Cardinality(s.galleries) + Cardinality(s.rows) > ListLimit
  \/ \E r \in s.rows : r.child \in Images \ Listed(s)
Held(s) == {r.child : r \in s.rows}
Roots(s) == (s.galleries \cup Listed(s)) \ Held(s)

----------------------------------------------------------------------------
GalleryTypeOK ==
  /\ shelf \in Shelf
  /\ \/ draft = NoDraft
     \/ draft.rows \in Shelf /\ draft.count \in 0..MaxStatements

\* Every gallery and every image can be reached from the top level of the listing, by
\* way of galleries that the listing has: no sequence of committed insertions hides a
\* gallery below itself.  (More than ListLimit images are cut without a word; the
\* instance stays below that.)
EverythingIsReachable ==
  ListingRefused(shelf) \/
    \A lost \in SUBSET (shelf.galleries \cup shelf.media) :
      lost # {} => \E x \in lost : \/ x \in Roots(shelf)
                                   \/ \E r \in shelf.rows : r.child = x /\ r.parent \notin lost

\* A deleted medium leaves nothing behind in galleries, tags, favourites or the index,
\* and the index has every medium.
NothingDangles ==
  /\ \A r \in shelf.rows : r.child \in shelf.galleries \cup shelf.media
  /\ shelf.tagged \cup shelf.favorites \subseteq shelf.media
  /\ shelf.indexed = shelf.media

----------------------------------------------------------------------------
\* The inductive invariant, of the committed rows and of those of the open transaction:
\* a row is one of things that exist, and no galleries hold each other in a circle.  Among
\* any galleries there is one that none of them holds.
ShelfHolds(s) ==
  /\ s \in Shelf
  /\ \A r \in s.rows : r.parent \in s.galleries /\ r.child \in s.galleries \cup s.media
  /\ s.tagged \cup s.favorites \subseteq s.media /\ s.indexed = s.media
  /\ \A some \in SUBSET s.galleries : some # {} =>
       \E g \in some : \A r \in s.rows : r.child = g => r.parent \notin some

ShelvesHold ==
  /\ ShelfHolds(shelf)
  /\ draft # NoDraft =>
       /\ draft \in [open : BOOLEAN, count : 0..MaxStatements, rows : Shelf]
       /\ ShelfHolds(draft.rows)
=============================================================================

------------------------------ MODULE Catalog -------------------------------
(***************************************************************************)
(* The rows of the encrypted catalog (crates/osv-catalog) that own          *)
(* ciphertext, and the changes its transactions make to them.  A row       *)
(* stands for an objects row (with its wrapped key) and for the media or   *)
(* derived_objects row that refers to it; a medium is in the catalog when  *)
(* its original is.                                                        *)
(*                                                                         *)
(* Object identifiers are 128-bit random numbers in the program, so the    *)
(* role of an object can be taken as a function of its identifier.         *)
(***************************************************************************)
CONSTANTS
  Ids,      \* object identifiers
  Media,    \* media identifiers
  RoleOf,   \* role of the object published under an identifier
  None      \* no row

Original == "Original"
ObjectRole == {Original, "Thumbnail", "Poster"}
ObjectState == {"Ready", "Damaged"}  \* no code writes PendingDeletion

Row == [media : Media, state : ObjectState]
Rows == [Ids -> Row \cup {None}]

ASSUME CatalogAssumption ==
  /\ RoleOf \in [Ids -> ObjectRole]
  /\ None \notin Row

Referenced(r) == {id \in Ids : r[id] # None}
MediaIn(r) == {r[id].media : id \in {i \in Referenced(r) : RoleOf[i] = Original}}
ObjectsOf(r, m) == {id \in Referenced(r) : r[id].media = m}

\* Mutant: the objects of other roles are replaced instead.
ReplacedOthers(r, id, m) ==
  {i \in ObjectsOf(r, m) : RoleOf[i] # RoleOf[id] /\ RoleOf[i] # Original}

\* The objects that a new derived object of the role of id takes the place of.
Replaced(r, id, m) == {i \in ObjectsOf(r, m) : RoleOf[i] = RoleOf[id]}

InsertRow(r, id, m) == [r EXCEPT ![id] = [media |-> m, state |-> "Ready"]]
\* Mutant: only the originals are deleted.
DropOriginals(r, objects) ==
  [id \in Ids |-> IF id \in objects /\ RoleOf[id] = Original THEN None ELSE r[id]]

DropRows(r, objects) == [id \in Ids |-> IF id \in objects THEN None ELSE r[id]]
ReplaceDerived(r, id, m) == InsertRow(DropRows(r, Replaced(r, id, m)), id, m)
MarkDamaged(r, id) == [r EXCEPT ![id].state = "Damaged"]

\* Every object belongs to a medium that has its original, and no medium has two
\* objects of one role.
WellFormed(r) ==
  /\ \A id \in Referenced(r) : r[id].media \in MediaIn(r)
  /\ \A i, j \in Referenced(r) :
       r[i].media = r[j].media /\ RoleOf[i] = RoleOf[j] => i = j
=============================================================================

--------------------------- MODULE AbstractVault ----------------------------
(***************************************************************************)
(* What the vault service promises about the library: it changes by whole  *)
(* operations, asked for while the vault is open, and nothing else changes *)
(* it but the mark that an object is damaged.  Crashes, recovery, cleanup  *)
(* and reopening are invisible, with one exception: an operation that      *)
(* returned a catalog error is in doubt until the vault is next opened, or *)
(* until a later commit or a clean close overwrites it.                    *)
(* (A power loss while the outcome is open may bring the operation back    *)
(* once more; that is not promised here.)                                  *)
(***************************************************************************)
EXTENDS Catalog

VARIABLES
  library,  \* the rows of the catalog
  doubt     \* libraries that the next open may find instead

vars == <<library, doubt>>

\* An operation takes effect, or its outcome is in doubt.
Change(new) ==
  \/ library' = new /\ doubt' = {}
  \/ doubt' = {new} \ {library} /\ UNCHANGED library

Import ==
  \E id \in Ids \ Referenced(library), m \in Media \ MediaIn(library) :
    RoleOf[id] = Original /\ Change(InsertRow(library, id, m))

Delete ==
  \E m \in MediaIn(library) : Change(DropRows(library, ObjectsOf(library, m)))

Replace ==
  \E id \in Ids \ Referenced(library), m \in MediaIn(library) :
    RoleOf[id] # Original /\ Change(ReplaceDerived(library, id, m))

Damage == \E id \in Referenced(library) : Change(MarkDamaged(library, id))

Settle == library' \in {library} \cup doubt /\ doubt' = {}

Init == library = [id \in Ids |-> None] /\ doubt = {}

Next == Import \/ Delete \/ Replace \/ Damage \/ Settle

Spec == Init /\ [][Next]_vars
=============================================================================

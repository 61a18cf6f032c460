--------------------------- MODULE MCVaultService ---------------------------
(***************************************************************************)
(* Small instances of VaultService for TLC: originals o1, o2 and           *)
(* thumbnails t1, t2, one shard directory for each role.                   *)
(***************************************************************************)
EXTENDS VaultService, TLC

CONSTANTS o1, o2, t1, t2

MCRoleOf == [id \in Ids |-> IF id \in {o1, o2} THEN Original ELSE "Thumbnail"]
MCShardOf == MCRoleOf

\* Processes are interchangeable, and so are the identifiers of one role.
MCSymmetry ==
  Permutations(Procs) \cup Permutations(Ids \cap {o1, o2})
    \cup Permutations(Ids \cap {t1, t2}) \cup Permutations(Media)
=============================================================================

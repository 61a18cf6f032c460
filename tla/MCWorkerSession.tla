--------------------------- MODULE MCWorkerSession ---------------------------
(***************************************************************************)
(* Small instances of WorkerSession for TLC: every constant is a number or *)
(* a set of fault kinds, given in the configurations.                      *)
(***************************************************************************)
EXTENDS WorkerInvariants
=============================================================================

---------------------------- MODULE MCWorkerTurns ----------------------------
(***************************************************************************)
(* WorkerTurns with the symmetry of its callers.                           *)
(***************************************************************************)
EXTENDS WorkerTurns, TLC

Alike == Permutations(Callers)
=============================================================================

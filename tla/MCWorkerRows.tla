----------------------------- MODULE MCWorkerRows -----------------------------
(***************************************************************************)
(* WorkerRows with the symmetry of its clients, runs, keys and panes.      *)
(***************************************************************************)
EXTENDS WorkerRows, TLC

Alike == Permutations(Clients) \cup Permutations(Runs) \cup Permutations(Keys)
           \cup Permutations(Panes)
=============================================================================

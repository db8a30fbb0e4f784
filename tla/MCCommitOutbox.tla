--------------------------- MODULE MCCommitOutbox ---------------------------
(* Small instances of CommitOutbox for TLC. *)
EXTENDS CommitOutbox, TLC

Alike == Permutations(Procs)

=============================================================================

---------------------------- MODULE MCWriterLease ----------------------------
(* Small instances of WriterLease for TLC. *)
EXTENDS WriterLease, TLC

Alike == Permutations(Procs)

=============================================================================

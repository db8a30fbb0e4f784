--------------------------- MODULE MCWriterServer ---------------------------
(* Small instances of WriterServer for TLC. *)
EXTENDS WriterServer, TLC

Alike == Permutations(Procs) \cup Permutations(Launchers)

=============================================================================

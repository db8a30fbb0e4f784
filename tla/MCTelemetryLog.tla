--------------------------- MODULE MCTelemetryLog ---------------------------
(***************************************************************************)
(* TelemetryLog with the symmetry of its processes.                        *)
(***************************************************************************)
EXTENDS TelemetryLog, TLC

Alike == Permutations(Finalizers) \cup Permutations(Sweepers)
=============================================================================

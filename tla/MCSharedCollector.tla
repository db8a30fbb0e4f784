-------------------------- MODULE MCSharedCollector --------------------------
(***************************************************************************)
(* SharedCollector with small sets: the processes are given out in order,  *)
(* so four of them are as many as two faults and two launchers can use.    *)
(***************************************************************************)
EXTENDS SharedCollector

Pids == 1 .. 4
=============================================================================

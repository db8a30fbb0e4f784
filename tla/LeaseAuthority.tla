--------------------------- MODULE LeaseAuthority ---------------------------
(***************************************************************************)
(* What the daemon's lease promises, without its lock file: one record     *)
(* names the owner; a process takes it when it is absent or stale, keeps   *)
(* it fresh, and drops it when it leaves.  WriterLease is shown to         *)
(* implement this module; WriterServer is built on it.                     *)
(***************************************************************************)
EXTENDS Naturals, FiniteSets

CONSTANTS
  Procs,   \* daemon processes
  Past,    \* the owner of what an earlier daemon left behind
  Timely,  \* the lease of a process that holds it does not go stale
  NoProc

ASSUME AuthorityConstants ==
  /\ Timely \in BOOLEAN
  /\ Past \notin Procs /\ NoProc \notin Procs /\ Past # NoProc

VARIABLES
  lease,    \* the owner the lease file names
  aged,     \* its heartbeat is older than the stale window
  standing  \* per process: "none", "held" or "lost"

lvars == <<lease, aged, standing>>

LeaseTypeOK ==
  /\ lease \in Procs \cup {Past, NoProc} /\ aged \in BOOLEAN
  /\ standing \in [Procs -> {"none", "held", "lost"}]

LeaseInit ==
  /\ lease \in {NoProc, Past} /\ aged = FALSE
  /\ standing = [p \in Procs |-> "none"]

Free == lease = NoProc \/ aged

\* Mutant: the lease is taken from whoever holds it.
AcquireAnyway(p) ==
  /\ standing[p] = "none"
  /\ lease' = p /\ aged' = FALSE
  /\ standing' = [standing EXCEPT ![p] = "held"]

Acquire(p) ==
  /\ standing[p] = "none" /\ Free
  /\ lease' = p /\ aged' = FALSE
  /\ standing' = [standing EXCEPT ![p] = "held"]

Beat(p) ==
  /\ standing[p] = "held" /\ lease = p
  /\ aged' = FALSE
  /\ UNCHANGED <<lease, standing>>

\* A process gives up, finds its lease lost, stops, or dies.
Leave(p) ==
  /\ standing[p] # "lost"
  /\ standing' = [standing EXCEPT ![p] = "lost"]
  /\ UNCHANGED <<lease, aged>>

Drop(p) ==
  /\ standing[p] = "lost" /\ lease = p
  /\ lease' = NoProc /\ aged' = FALSE
  /\ UNCHANGED standing

Age ==
  /\ lease # NoProc /\ ~aged
  /\ Timely => ~ (lease \in Procs /\ standing[lease] = "held")
  /\ aged' = TRUE
  /\ UNCHANGED <<lease, standing>>

LeaseNext ==
  \/ \E p \in Procs : Acquire(p) \/ Beat(p) \/ Leave(p) \/ Drop(p)
  \/ Age

LeaseSpec == LeaseInit /\ [][LeaseNext]_lvars

\* As long as the lease of a holder does not go stale, at most one process
\* believes that it holds the lease, and the file names that process.
SingleHolder ==
  Timely => \A p \in Procs : standing[p] = "held" => lease = p /\ ~aged

=============================================================================

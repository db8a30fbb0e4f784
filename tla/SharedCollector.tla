--------------------------- MODULE SharedCollector ---------------------------
(***************************************************************************)
(* The telemetry collector that the launchers of one project share         *)
(* (observe/otel/collector/shared.go and shared_launcher.go, and           *)
(* cmd/wipnote/otel_collect_shared.go): the lease file that names it, the  *)
(* flock around "read, probe, spawn, write", the launchers that attach to  *)
(* it, watch it and detach, and the collectors that leave when nobody is   *)
(* attached or when the lease names another.                               *)
(*                                                                         *)
(* A launcher's session exports to the port of its first attachment for    *)
(* as long as it lives; the watch may move the launcher, never the         *)
(* session.  Process ids are given out in order, each of them once.        *)
(***************************************************************************)
EXTENDS Integers, FiniteSets, Functions

CONSTANTS
  Launchers,   \* `wipnote claude` processes, one session each
  Collectors,  \* the process ids collectors may get
  Ports,
  Faults,      \* what may go wrong in a run, a subset of AllFaults
  MaxFaults,   \* bound: how often
  None

AllFaults == {"crash", "die", "slow", "late", "busy", "spawn", "write", "lost"}

ASSUME CollectorConstants ==
  /\ Faults \subseteq AllFaults /\ MaxFaults \in Nat
  /\ None \notin Launchers \cup Collectors \cup Ports
  /\ Collectors \subseteq Nat

VARIABLES
  lease,   \* otel-collector.lease.pid: a pid and its port, or NoLease
  lock,    \* the launcher that holds otel-collector.lock, or None
  col,     \* per process id: what the collector is doing
  lau,     \* per launcher: its step, its collector, its session's port
  cut,     \* history: collectors judged dead alive, or started and not leased
  overlooked, \* history: launchers whose collector had decided to leave when
              \* it answered their attachment
  faults

vars == <<lease, lock, col, lau, cut, overlooked, faults>>

NoLease == [pid |-> None, port |-> None]
Live == {"lock", "read", "probe", "spawn", "again", "write", "attach", "up"}
LauSteps == {"idle", "alone", "gone"} \cup Live
Alive(l) == lau[l].at \in Live \cup {"alone"}
\* A collector that has decided to leave serves until its listener is closed.
Serving == {c \in Collectors : col[c].at \in {"up", "closing"}}
PIDAlive(c) == c # None /\ col[c].at \in {"up", "closing", "leaving"}
OnPort(p) == {c \in Serving : col[c].port = p}
Fault(kind) ==
  /\ kind \in Faults /\ SumFunction(faults) < MaxFaults
  /\ faults' = [faults EXCEPT ![kind] = @ + 1]

Leases == [pid : Collectors, port : Ports] \cup {NoLease}

TypeOK ==
  /\ lease \in Leases
  /\ lock \in Launchers \cup {None}
  /\ col \in [Collectors -> [at : {"unborn", "up", "closing", "leaving", "dead"},
                             port : Ports \cup {None},
                             attached : SUBSET Launchers, empty : BOOLEAN]]
  /\ lau \in [Launchers -> [at : LauSteps, rec : Leases, cand : Leases,
                            port : Ports \cup {None}]]
  /\ \A l \in Launchers :
       lock = l <=> lau[l].at \in {"read", "probe", "spawn", "again", "write"}
  /\ cut \subseteq Collectors /\ overlooked \subseteq Launchers
  /\ faults \in [AllFaults -> Nat]

Init ==
  /\ lease = NoLease /\ lock = None
  /\ col = [c \in Collectors |-> [at |-> "unborn", port |-> None,
                                  attached |-> {}, empty |-> FALSE]]
  /\ lau = [l \in Launchers |-> [at |-> "idle", rec |-> NoLease,
                                 cand |-> NoLease, port |-> None]]
  /\ cut = {} /\ overlooked = {} /\ faults = [k \in AllFaults |-> 0]

(***************************************************************************)
(* Launchers.                                                              *)
(***************************************************************************)
Start(l) ==
  /\ lau[l].at = "idle"
  /\ lau' = [lau EXCEPT ![l].at = "lock"]
  /\ UNCHANGED <<lease, lock, col, cut, overlooked, faults>>

(* EnsureShared failed: a first launch starts a collector of its own, the  *)
(* watch tries again on its next tick.                                     *)
GivesUp(l) ==
  lau' = [lau EXCEPT ![l].at = IF lau[l].port = None THEN "alone" ELSE "up",
                     ![l].cand = NoLease]

\* Mutant: the lock file is opened but not locked.
LockUnheld(l) ==
  /\ lau[l].at = "lock"
  /\ lau' = [lau EXCEPT ![l].at = "read"] /\ lock' = l
  /\ UNCHANGED <<lease, col, cut, overlooked, faults>>

Lock(l) ==
  /\ lau[l].at = "lock" /\ lock = None
  /\ lau' = [lau EXCEPT ![l].at = "read"] /\ lock' = l
  /\ UNCHANGED <<lease, col, cut, overlooked, faults>>

(* The lock is polled for five seconds.                                    *)
LockBusy(l) ==
  /\ lau[l].at = "lock" /\ lock # None /\ Fault("busy")
  /\ GivesUp(l)
  /\ UNCHANGED <<lease, lock, col, cut, overlooked>>

ReadLease(l) ==
  /\ lau[l].at = "read"
  /\ lau' = [lau EXCEPT ![l].at = IF lease = NoLease THEN "spawn" ELSE "probe",
                        ![l].cand = lease]
  /\ UNCHANGED <<lease, lock, col, cut, overlooked, faults>>

(* /healthz answers with the pid of whoever serves the port; a collector   *)
(* that takes over a second to answer is taken for dead.                   *)
Healthy(r) == r.pid \in OnPort(r.port)

Probe(l) ==
  /\ lau[l].at = "probe"
  /\ \/ /\ Healthy(lau[l].cand)
        /\ lau' = [lau EXCEPT ![l].at = "attach"] /\ lock' = None
        /\ UNCHANGED <<cut, faults>>
     \/ /\ ~Healthy(lau[l].cand)
        /\ lau' = [lau EXCEPT ![l].at = "spawn"]
        /\ UNCHANGED <<lock, cut, faults>>
     \/ /\ Healthy(lau[l].cand) /\ Fault("slow")
        /\ lau' = [lau EXCEPT ![l].at = "spawn"]
        /\ cut' = cut \cup {lau[l].cand.pid}
        /\ UNCHANGED lock
  /\ UNCHANGED <<lease, col, overlooked>>

Free == {p \in Ports : OnPort(p) = {}}
Again(l) == lau' = [lau EXCEPT ![l].at = "again"]

\* Mutant: a respawn takes any port.
PortsToTryAny(l) == Free

(* The previous port first; the second try takes any that is free.         *)
PortsToTry(l) ==
  LET prev == lau[l].cand.port IN
  IF lau[l].at = "spawn" /\ prev # None THEN {prev} \cap Free ELSE Free

(* The collector listens and hands its port back.                          *)
Spawn(l) ==
  /\ lau[l].at \in {"spawn", "again"}
  /\ \E c \in Collectors, p \in PortsToTry(l) :
       /\ col[c].at = "unborn" /\ \A d \in Collectors : d < c => col[d].at # "unborn"
       /\ col' = [col EXCEPT ![c].at = "up", ![c].port = p]
       /\ lau' = [lau EXCEPT ![l].at = "write", ![l].cand = [pid |-> c, port |-> p]]
  /\ UNCHANGED <<lease, lock, cut, overlooked, faults>>

(* Somebody serves the previous port.                                      *)
PortTaken(l) ==
  /\ lau[l].at = "spawn" /\ PortsToTry(l) = {}
  /\ Again(l)
  /\ UNCHANGED <<lease, lock, col, cut, overlooked, faults>>

(* No handshake: the child is killed and the lease left as it was.  What   *)
(* failed on the previous port is tried once more on another.              *)
SpawnFails(l) ==
  /\ lau[l].at \in {"spawn", "again"} /\ Fault("spawn")
  /\ IF lau[l].at = "spawn" /\ lau[l].cand.port # None
     THEN Again(l) /\ UNCHANGED lock
     ELSE GivesUp(l) /\ lock' = None
  /\ UNCHANGED <<lease, col, cut, overlooked>>

WriteLease(l) ==
  /\ lau[l].at = "write"
  /\ lease' = lau[l].cand /\ lock' = None
  /\ lau' = [lau EXCEPT ![l].at = "attach"]
  /\ UNCHANGED <<col, cut, overlooked, faults>>

(* The lease cannot be written: the launcher fails, its collector serves.  *)
LeaseFails(l) ==
  /\ lau[l].at = "write" /\ Fault("write")
  /\ GivesUp(l) /\ lock' = None
  /\ cut' = cut \cup {lau[l].cand.pid}
  /\ UNCHANGED <<lease, col, overlooked>>

Knows(l, cs) ==
  col' = [c \in Collectors |->
            IF c \in cs THEN [col[c] EXCEPT !.attached = @ \cup {l}] ELSE col[c]]
Overlooked(l) ==
  overlooked' = IF lau[l].cand.pid \in Serving /\ col[lau[l].cand.pid].at = "closing"
                THEN overlooked \cup {l} ELSE overlooked \ {l}
Attaches(l) ==
  /\ lau' = [lau EXCEPT ![l].at = "up", ![l].rec = lau[l].cand, ![l].cand = NoLease,
                        ![l].port = IF lau[l].port = None THEN lau[l].cand.port
                                    ELSE lau[l].port]
  /\ Overlooked(l)

\* Mutant: the watch moves on without telling the collector.
AttachSilently(l) ==
  /\ lau[l].at = "attach"
  /\ LET at == OnPort(lau[l].cand.port) IN
     /\ IF at = {} THEN GivesUp(l) /\ UNCHANGED overlooked ELSE Attaches(l)
     /\ Knows(l, IF lau[l].port = None THEN at ELSE {})
  /\ UNCHANGED <<lease, lock, cut, faults>>

(* The pid is posted to whoever serves the port.  The watch keeps its old  *)
(* collector when that fails.                                              *)
Attach(l) ==
  /\ lau[l].at = "attach"
  /\ LET at == OnPort(lau[l].cand.port) IN
     /\ IF at = {} THEN GivesUp(l) /\ UNCHANGED overlooked ELSE Attaches(l)
     /\ Knows(l, at)
  /\ UNCHANGED <<lease, lock, cut, faults>>

(* The post times out, before or after its handler ran.                    *)
AttachLost(l) ==
  /\ lau[l].at = "attach" /\ Fault("lost")
  /\ GivesUp(l)
  /\ Knows(l, OnPort(lau[l].cand.port)) \/ UNCHANGED col
  /\ UNCHANGED <<lease, lock, cut, overlooked>>

\* Mutant: the watch looks at the lease only.
CheckLeaseOnly(l) ==
  /\ lau[l].at = "up" /\ lease.pid # lau[l].rec.pid
  /\ lau' = [lau EXCEPT ![l].at = "lock"]
  /\ UNCHANGED <<lease, lock, col, cut, overlooked, faults>>

(* A watch tick: the lease no longer names our collector, or it died.      *)
Check(l) ==
  /\ lau[l].at = "up"
  /\ lease.pid # lau[l].rec.pid \/ ~PIDAlive(lau[l].rec.pid)
  /\ lau' = [lau EXCEPT ![l].at = "lock"]
  /\ UNCHANGED <<lease, lock, col, cut, overlooked, faults>>

(* The session ends: the watch is stopped and the launcher detaches.       *)
Quit(l) ==
  /\ lau[l].at \in {"up", "alone"}
  /\ lau' = [lau EXCEPT ![l].at = "gone"]
  /\ col' = [c \in Collectors |->
               IF c \in OnPort(lau[l].rec.port) /\ lau[l].at = "up"
               THEN [col[c] EXCEPT !.attached = @ \ {l},
                                   !.empty = @ /\ col[c].attached \ {l} # {}]
               ELSE col[c]]
  /\ UNCHANGED <<lease, lock, cut, overlooked, faults>>

(* The launcher is killed: the kernel drops its lock; a collector it had   *)
(* not put into the lease stays.                                           *)
Die(l) ==
  /\ lau[l].at \in Live /\ Fault("die")
  /\ lock' = IF lock = l THEN None ELSE lock
  /\ cut' = IF lau[l].at = "write" THEN cut \cup {lau[l].cand.pid} ELSE cut
  /\ lau' = [lau EXCEPT ![l].at = "gone"]
  /\ UNCHANGED <<lease, col, overlooked>>

(***************************************************************************)
(* Collectors.                                                             *)
(***************************************************************************)

(* A tick drops the launchers that are dead; the grace starts again when   *)
(* that leaves nobody.                                                     *)
Prune(c) ==
  /\ col[c].at = "up"
  /\ \E l \in col[c].attached : ~Alive(l)
  /\ LET left == {l \in col[c].attached : Alive(l)} IN
     col' = [col EXCEPT ![c].attached = left, ![c].empty = @ /\ left # {}]
  /\ UNCHANGED <<lease, lock, lau, cut, overlooked, faults>>

Expected(c) == \E l \in Launchers : lau[l].at \in {"write", "attach"} /\ lau[l].cand.pid = c

(* Nobody was attached for thirty seconds.  That a launcher takes so long  *)
(* between the handshake and its attachment counts as a fault.             *)
GraceOver(c) ==
  /\ col[c].at = "up" /\ col[c].attached = {} /\ ~col[c].empty
  /\ IF Expected(c) THEN Fault("late") ELSE UNCHANGED faults
  /\ col' = [col EXCEPT ![c].empty = TRUE]
  /\ UNCHANGED <<lease, lock, lau, cut, overlooked>>

\* Mutant: a superseded collector waits for its launchers to leave.
SupersededWaits(c) ==
  lease.pid \notin {c, None} /\ PIDAlive(lease.pid) /\ col[c].attached = {}

Superseded(c) == lease.pid \notin {c, None} /\ PIDAlive(lease.pid)

Decides(c) ==
  /\ IF Expected(c) THEN Fault("late") ELSE UNCHANGED faults
  /\ col' = [col EXCEPT ![c].at = "closing"]
  /\ UNCHANGED <<lease, lock, lau, cut, overlooked>>

\* Mutant: the grace counts from the handshake, whoever is attached by then.
LeaveEarly(c) ==
  /\ col[c].at = "up"
  /\ col[c].empty \/ Superseded(c)
  /\ Decides(c)

\* Mutant: nobody attached does not end a collector.
LeaveSuperseded(c) == col[c].at = "up" /\ Superseded(c) /\ Decides(c)

(* A tick decides, with the mutex of the attached launchers let go: what   *)
(* is attached from here on is not looked at again.  The first tick comes  *)
(* two seconds after the handshake: one that finds the old lease still     *)
(* there counts as a fault too.                                            *)
Leave(c) ==
  /\ col[c].at = "up"
  /\ (col[c].attached = {} /\ col[c].empty) \/ Superseded(c)
  /\ Decides(c)

(* The listener is closed; the process lives on for up to three seconds.   *)
Shutdown(c) ==
  /\ col[c].at = "closing"
  /\ col' = [col EXCEPT ![c].at = "leaving"]
  /\ UNCHANGED <<lease, lock, lau, cut, overlooked, faults>>

Exit(c) ==
  /\ col[c].at = "leaving"
  /\ col' = [col EXCEPT ![c].at = "dead", ![c].attached = {}]
  /\ UNCHANGED <<lease, lock, lau, cut, overlooked, faults>>

Crash(c) ==
  /\ col[c].at \in {"up", "closing"} /\ Fault("crash")
  /\ col' = [col EXCEPT ![c].at = "dead", ![c].attached = {}]
  /\ UNCHANGED <<lease, lock, lau, cut, overlooked>>

Ensures(l) == \/ Lock(l) \/ ReadLease(l) \/ Probe(l) \/ Spawn(l) \/ PortTaken(l)
              \/ WriteLease(l) \/ Attach(l) \/ Check(l)
Ticks(c) == Prune(c) \/ GraceOver(c) \/ Leave(c) \/ Shutdown(c) \/ Exit(c)

Next ==
  \/ \E l \in Launchers : \/ Start(l) \/ Ensures(l) \/ LockBusy(l) \/ SpawnFails(l)
                          \/ LeaseFails(l) \/ AttachLost(l) \/ Quit(l) \/ Die(l)
  \/ \E c \in Collectors : Ticks(c) \/ Crash(c)

Spec == Init /\ [][Next]_vars

(* Launchers poll the lock and the watch ticks; a collector ticks every    *)
(* two seconds.  Nothing obliges a session to start or to end.             *)
FairSpec ==
  /\ Spec
  /\ \A l \in Launchers :
       SF_vars(Lock(l)) /\ WF_vars(Ensures(l))
  /\ \A c \in Collectors :
       /\ WF_vars(Prune(c)) /\ WF_vars(Shutdown(c)) /\ WF_vars(Exit(c))
       /\ WF_vars((GraceOver(c) \/ Leave(c)) /\ ~Expected(c))

(***************************************************************************)
(* Properties                                                              *)
(***************************************************************************)

(* Concurrent launches start one collector (shared.go: "concurrent         *)
(* launches spawn at most one collector"): any other that serves was       *)
(* judged dead while it lived, or lost its launcher before its lease.      *)
OneCollector ==
  Cardinality(Serving \ cut) <= 1

(* The collector of a launcher that is up knows of it; it would otherwise  *)
(* leave under a session that is running.                                  *)
Registered ==
  \A l \in Launchers : lau[l].at = "up" /\ lau[l].rec.pid \in Serving =>
    l \in col[lau[l].rec.pid].attached

(* A collector decides to leave a launcher that watches it only when the   *)
(* lease names another one that is alive.  Its listener closes under a     *)
(* launcher that watches it only if it had been cut, or if the launcher    *)
(* was attached after the decision.                                        *)
NotAbandoned ==
  [][\A c \in Collectors, l \in Launchers : lau[l].at = "up" /\ lau[l].rec.pid = c =>
       /\ col[c].at = "up" /\ col'[c].at = "closing" => lease.pid # c /\ PIDAlive(lease.pid)
       /\ col[c].at = "closing" /\ col'[c].at = "leaving" => c \in cut \/ l \in overlooked]_vars

Attached(l) ==
  lease.pid \in Serving /\ lau[l].rec = lease /\ l \in col[lease.pid].attached

(* A launcher whose collector crashed, left or was replaced comes to be    *)
(* attached to the one the lease names.                                    *)
Healed == \A l \in Launchers : lau[l].at = "up" ~> (Attached(l) \/ lau[l].at \in {"gone", "alone"})

(* After the last fault at most one collector remains, and none once every *)
(* launcher is gone; a launcher that runs on alone may be known to one     *)
(* whose answer it did not get.                                            *)
SettlesOnOne == <>[](Cardinality(Serving) <= 1)
Done(l) == lau[l].at = "gone" \/ (lau[l].at = "alone" /\ \A c \in Serving : l \notin col[c].attached)
AllDone == \A l \in Launchers : Done(l)
Emptied == AllDone ~> (Serving = {} \/ ~AllDone)

(* The port a session exports to is served again (EnsureShared: "sessions  *)
(* already exporting there keep a live endpoint"), unless a live collector *)
(* was taken for dead or left without a lease, and holds the port from its *)
(* replacement, or a spawn failed, and was tried once more elsewhere.      *)
EndpointKept ==
  \A l \in Launchers :
    lau[l].at = "up" ~>
      (OnPort(lau[l].port) # {} \/ lau[l].at = "gone" \/ cut # {} \/ faults["spawn"] > 0)

(* What holds in every state: one collector, and it knows its launchers.   *)
CollectorSound == TypeOK /\ OneCollector /\ Registered

(* Every launcher that is up ends attached, to a collector on its port.    *)
LaunchersServed == Healed /\ EndpointKept

(* The collectors too many leave, and the last one with its launchers.     *)
CollectorsLeave == SettlesOnOne /\ Emptied
=============================================================================

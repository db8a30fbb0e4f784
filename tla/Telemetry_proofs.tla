-------------------------- MODULE Telemetry_proofs --------------------------
(***************************************************************************)
(* Proofs about the telemetry of sessions.  SharedCollector, for any       *)
(* number of launchers, collectors, ports and faults: one collector is     *)
(* started, it knows its launchers, and it decides to leave none that      *)
(* watches it, but for a successor (ColInv is the inductive invariant).    *)
(* TelemetryLog, for any number of finalizers, sweepers, records and       *)
(* mishaps: no line of a log is lost, and its readers may rely on its      *)
(* marker and its positions (LogInv, KeptSomewhere and Settled).           *)
(***************************************************************************)
EXTENDS SharedCollector, TelemetryLog, FiniteSetTheorems, TLAPS

LauType == [at : LauSteps, rec : Leases, cand : Leases, port : Ports \cup {None}]
ColType == [at : {"unborn", "up", "closing", "leaving", "dead"}, port : Ports \cup {None},
            attached : SUBSET Launchers, empty : BOOLEAN]
Locked == {"read", "probe", "spawn", "again", "write"}

\* The types alone, before the lock's holder is known.
Typed ==
  /\ \A l \in Launchers : lau[l].at = "write" => lau[l].cand.pid \in Collectors
  /\ lease \in Leases /\ lock \in Launchers \cup {None}
  /\ col \in [Collectors -> ColType] /\ lau \in [Launchers -> LauType]
  /\ cut \subseteq Collectors /\ overlooked \subseteq Launchers
  /\ faults \in [AllFaults -> Nat]

\* A pid that a lease or a launcher names was spawned, on the port it says.
Named(r) == r.pid # None => col[r.pid].at # "unborn" /\ col[r.pid].port = r.port
NamesTrue == Named(lease) /\ \A l \in Launchers : Named(lau[l].rec) /\ Named(lau[l].cand)

\* The collectors that serve and were not cut are the lease's, or the one that
\* the lock's holder is about to put there; who is to spawn one has found none.
Counted == Serving \ cut
OfTheLease == \A c \in Counted : lease.pid = c \/ \E l \in Launchers : lau[l].at = "write"
HolderKnows ==
  \A l \in Launchers :
    /\ lau[l].at = "probe" => lau[l].cand = lease
    /\ lau[l].at \in {"spawn", "again"} => Counted = {}
    /\ lau[l].at = "write" => Counted \subseteq {lau[l].cand.pid}

\* Every launcher that has a session is known to its collector, the ones that
\* are about to move included: those fall back on it.
StillKnown ==
  /\ \A c \in Serving : col[c].port \in Ports
  /\ \A l \in Launchers :
       /\ lau[l].at = "idle" => lau[l].port = None
       /\ lau[l].at = "up" => lau[l].port # None
       /\ lau[l].at \in Live /\ lau[l].port # None /\ lau[l].rec.pid \in Serving =>
            l \in col[lau[l].rec.pid].attached

\* A collector that is about to be put into the lease is nobody else's yet.
Fresh ==
  \A m \in Launchers : lau[m].at = "write" =>
    /\ lease.pid # lau[m].cand.pid
    /\ \A l \in Launchers : /\ lau[l].rec.pid # lau[m].cand.pid
                            /\ l # m => lau[l].cand.pid # lau[m].cand.pid

\* Who has a session with a collector that has decided to leave was attached
\* after the decision, or the collector had been cut.
Watching(l, c) == lau[l].at \in Live /\ lau[l].port # None /\ lau[l].rec.pid = c
LeftKnowing ==
  \A c \in Collectors, l \in Launchers :
    col[c].at = "closing" /\ Watching(l, c) => c \in cut \/ l \in overlooked

ColInv == /\ TypeOK /\ Typed /\ NamesTrue /\ OfTheLease /\ HolderKnows /\ StillKnown
          /\ Fresh /\ LeftKnowing

-----------------------------------------------------------------------------
\* What a step does to one launcher and to no other.
Moved(l, at, rec, cand, port) ==
  /\ lau' \in [Launchers -> LauType]
  /\ lau'[l].at = at /\ lau'[l].rec = rec /\ lau'[l].cand = cand /\ lau'[l].port = port
  /\ \A m \in Launchers \ {l} : lau'[m] = lau[m]

LEMMA Moving ==
  ASSUME lau \in [Launchers -> LauType], NEW l \in Launchers,
         NEW at \in LauSteps, NEW rec \in Leases, NEW cand \in Leases,
         NEW port \in Ports \cup {None},
         lau' = [lau EXCEPT ![l] = [at |-> at, rec |-> rec, cand |-> cand, port |-> port]]
  PROVE  Moved(l, at, rec, cand, port)
BY DEF Moved, LauType

LEMMA StartMoves ==
  ASSUME Typed, NEW l \in Launchers, Start(l)
  PROVE  Moved(l, "lock", lau[l].rec, lau[l].cand, lau[l].port)
BY DEF Typed, Start, Moved, LauType, LauSteps, Live

LEMMA LockMoves ==
  ASSUME Typed, NEW l \in Launchers, Lock(l)
  PROVE  Moved(l, "read", lau[l].rec, lau[l].cand, lau[l].port)
BY DEF Typed, Lock, Moved, LauType, LauSteps, Live

LEMMA GivesUpMoves ==
  ASSUME Typed, NEW l \in Launchers, GivesUp(l)
  PROVE  Moved(l, IF lau[l].port = None THEN "alone" ELSE "up", lau[l].rec, NoLease, lau[l].port)
BY DEF Typed, GivesUp, Moved, LauType, LauSteps, Live, Leases

LEMMA ReadMoves ==
  ASSUME Typed, NEW l \in Launchers, ReadLease(l)
  PROVE  Moved(l, IF lease = NoLease THEN "spawn" ELSE "probe", lau[l].rec, lease, lau[l].port)
BY DEF Typed, ReadLease, Moved, LauType, LauSteps, Live, Leases

LEMMA AgainMoves ==
  ASSUME Typed, NEW l \in Launchers, Again(l)
  PROVE  Moved(l, "again", lau[l].rec, lau[l].cand, lau[l].port)
BY DEF Typed, Again, Moved, LauType, LauSteps, Live

\* A first try that fails is made again, any other failure is the launcher's.
LEMMA FailMoves ==
  ASSUME Typed, NEW l \in Launchers, SpawnFails(l)
  PROVE  \/ /\ lau[l].at = "spawn" /\ lock' = lock
            /\ Moved(l, "again", lau[l].rec, lau[l].cand, lau[l].port)
         \/ /\ lock' = None
            /\ Moved(l, IF lau[l].port = None THEN "alone" ELSE "up", lau[l].rec, NoLease, lau[l].port)
BY AgainMoves, GivesUpMoves DEF SpawnFails

LEMMA LeasePids == \A r \in Leases : r.pid \in Collectors \cup {None}
BY DEF Leases, NoLease

LEMMA CandPort ==
  ASSUME Typed, NEW l \in Launchers PROVE lau[l].cand.port \in Ports \cup {None}
BY DEF Typed, LauType, Leases, NoLease

LEMMA SpawnMoves ==
  ASSUME Typed, NEW l \in Launchers, Spawn(l)
  PROVE  \E c \in Collectors, p \in Ports :
           /\ col[c].at = "unborn" /\ col'[c].at = "up" /\ col'[c].port = p
           /\ col' \in [Collectors -> ColType]
           /\ \A d \in Collectors \ {c} : col'[d] = col[d]
           /\ Moved(l, "write", lau[l].rec, [pid |-> c, port |-> p], lau[l].port)
<1>1. PICK c \in Collectors, p \in PortsToTry(l) :
        /\ col[c].at = "unborn"
        /\ col' = [col EXCEPT ![c].at = "up", ![c].port = p]
        /\ lau' = [lau EXCEPT ![l].at = "write", ![l].cand = [pid |-> c, port |-> p]]
  BY DEF Spawn
<1>2. p \in Ports
  BY DEF PortsToTry, Free
<1>3. /\ col'[c].at = "up" /\ col'[c].port = p /\ col' \in [Collectors -> ColType]
      /\ \A d \in Collectors \ {c} : col'[d] = col[d]
  BY <1>1, <1>2 DEF Typed, ColType
<1>4. [pid |-> c, port |-> p] \in Leases
  BY <1>2 DEF Leases
<1>5. Moved(l, "write", lau[l].rec, [pid |-> c, port |-> p], lau[l].port)
  BY <1>1, <1>4 DEF Typed, Moved, LauType, LauSteps, Live
<1> QED BY <1>1, <1>2, <1>3, <1>5

LEMMA AttachMoves ==
  ASSUME Typed, NEW l \in Launchers, Attach(l), OnPort(lau[l].cand.port) # {}
  PROVE  /\ Moved(l, "up", lau[l].cand, NoLease,
                  IF lau[l].port = None THEN lau[l].cand.port ELSE lau[l].port)
<1> DEFINE port == IF lau[l].port = None THEN lau[l].cand.port ELSE lau[l].port
<1>1. lau' = [lau EXCEPT ![l].at = "up", ![l].rec = lau[l].cand, ![l].cand = NoLease,
                         ![l].port = port]
  BY DEF Attach, Attaches
<1>2. port \in Ports \cup {None}
  BY CandPort DEF Typed, LauType
<1>3. NoLease \in Leases /\ "up" \in LauSteps
  BY DEF Leases, LauSteps, Live
<1> HIDE DEF port
<1>4. Moved(l, "up", lau[l].cand, NoLease, port)
  BY <1>1, <1>2, <1>3 DEF Typed, Moved, LauType
<1> QED BY <1>4 DEF port

LEMMA AttachKnows ==
  ASSUME Typed, NEW l \in Launchers, Attach(l)
  PROVE  /\ col' \in [Collectors -> ColType]
         /\ \A c \in Collectors :
              /\ col'[c].at = col[c].at /\ col'[c].port = col[c].port
              /\ col'[c].attached = IF c \in OnPort(lau[l].cand.port)
                                    THEN col[c].attached \cup {l} ELSE col[c].attached
BY DEF Typed, Attach, Knows, ColType

LEMMA LostKnows ==
  ASSUME Typed, NEW l \in Launchers, AttachLost(l)
  PROVE  /\ col' \in [Collectors -> ColType]
         /\ \A c \in Collectors : /\ col'[c].at = col[c].at /\ col'[c].port = col[c].port
                                 /\ col[c].attached \subseteq col'[c].attached
BY DEF Typed, AttachLost, Knows, ColType

LEMMA QuitKnows ==
  ASSUME Typed, NEW l \in Launchers, Quit(l)
  PROVE  /\ Moved(l, "gone", lau[l].rec, lau[l].cand, lau[l].port)
         /\ col' \in [Collectors -> ColType]
         /\ \A c \in Collectors :
              /\ col'[c].at = col[c].at /\ col'[c].port = col[c].port
              /\ col[c].attached \ {l} \subseteq col'[c].attached
<1>1. Moved(l, "gone", lau[l].rec, lau[l].cand, lau[l].port)
  BY DEF Typed, Quit, Moved, LauType, LauSteps, Live
<1>2. ASSUME NEW c \in Collectors
      PROVE  /\ col'[c] \in ColType
             /\ col'[c].at = col[c].at /\ col'[c].port = col[c].port
             /\ col[c].attached \ {l} \subseteq col'[c].attached
  <2>1. col[c] \in ColType
    BY DEF Typed
  <2> DEFINE left == [col[c] EXCEPT !.attached = @ \ {l},
                                    !.empty = @ /\ col[c].attached \ {l} # {}]
  <2>2. col'[c] = left \/ col'[c] = col[c]
    BY DEF Quit
  <2>3. /\ left \in ColType /\ left.at = col[c].at /\ left.port = col[c].port
        /\ left.attached = col[c].attached \ {l}
    BY <2>1 DEF ColType
  <2> QED BY <2>1, <2>2, <2>3
<1>3. col' \in [Collectors -> ColType]
  BY <1>2 DEF Quit
<1> QED BY <1>1, <1>2, <1>3

\* What a collector's own step leaves as it was.
LEMMA TickKeeps ==
  ASSUME Typed, NEW c \in Collectors, Ticks(c) \/ Crash(c)
  PROVE  /\ UNCHANGED <<lease, lock, lau, cut, overlooked>>
         /\ col' \in [Collectors -> ColType]
         /\ \A d \in Collectors :
              /\ col'[d].at # "unborn" <=> col[d].at # "unborn"
              /\ col'[d].port = col[d].port
              /\ d \in Serving' =>
                   /\ d \in Serving
                   /\ \A l \in col[d].attached : Alive(l) => l \in col'[d].attached
\* One collector changes: while it serves, it stays on its port and keeps who is alive,
\* or it is up no longer.
<1> DEFINE Changed(r) ==
      /\ col' = [col EXCEPT ![c] = r] /\ r \in ColType /\ UNCHANGED <<lease, lock, lau, cut, overlooked>>
      /\ col[c].at # "unborn" /\ r.at # "unborn" /\ r.port = col[c].port
      /\ r.at \in {"up", "closing"} =>
                        /\ col[c].at \in {"up", "closing"}
                        /\ \A l \in col[c].attached : Alive(l) => l \in r.attached
<1>c. col[c] \in ColType
  BY DEF Typed
<1>t. \A r \in ColType : r.attached \subseteq Launchers
  BY DEF ColType
<1>f. col \in [Collectors -> ColType]
  BY DEF Typed
<1>q. ASSUME NEW r, Changed(r)
      PROVE  /\ col' \in [Collectors -> ColType]
             /\ \A d \in Collectors :
                  /\ col'[d].at # "unborn" <=> col[d].at # "unborn"
                  /\ col'[d].port = col[d].port
                  /\ d \in Serving' =>
                       /\ d \in Serving
                       /\ \A l \in col[d].attached : Alive(l) => l \in col'[d].attached
  <2>1. col'[c] = r /\ \A d \in Collectors \ {c} : col'[d] = col[d]
    BY <1>f, <1>q
  <2> QED BY <1>f, <1>q, <2>1 DEF Serving
<1>1. CASE Prune(c)
  <2> DEFINE left == {l \in col[c].attached : Alive(l)}
             r == [col[c] EXCEPT !.attached = left, !.empty = @ /\ left # {}]
  <2>1. col' = [col EXCEPT ![c] = r]
    BY <1>1 DEF Prune
  <2>2. r \in ColType /\ r.at = col[c].at /\ r.port = col[c].port /\ r.attached = left
    BY <1>c DEF ColType
  <2> HIDE DEF r
  <2>3. Changed(r)
    BY <1>1, <2>1, <2>2 DEF Prune
  <2> QED BY <1>q, <2>3
<1>2. CASE GraceOver(c)
  <2> DEFINE r == [col[c] EXCEPT !.empty = TRUE]
  <2>1. Changed(r)
    BY <1>2, <1>c DEF GraceOver, ColType
  <2> QED BY <1>q, <2>1
<1>3. CASE Leave(c)
  <2> DEFINE r == [col[c] EXCEPT !.at = "closing"]
  <2>1. Changed(r)
    BY <1>3, <1>c DEF Leave, Decides, ColType
  <2> QED BY <1>q, <2>1
<1>4. CASE Exit(c)
  <2> DEFINE r == [col[c] EXCEPT !.at = "dead", !.attached = {}]
  <2>1. Changed(r)
    BY <1>4, <1>c DEF Exit, ColType
  <2> QED BY <1>q, <2>1
<1>5. CASE Crash(c)
  <2> DEFINE r == [col[c] EXCEPT !.at = "dead", !.attached = {}]
  <2>1. Changed(r)
    BY <1>5, <1>c DEF Crash, ColType
  <2> QED BY <1>q, <2>1
<1>6. CASE Shutdown(c)
  <2> DEFINE r == [col[c] EXCEPT !.at = "leaving"]
  <2>1. Changed(r)
    BY <1>6, <1>c DEF Shutdown, ColType
  <2> QED BY <1>q, <2>1
<1> QED BY <1>1, <1>2, <1>3, <1>4, <1>5, <1>6 DEF Ticks

-----------------------------------------------------------------------------
LEMMA FaultsCounted ==
  ASSUME Typed, NEW k \in AllFaults, Fault(k) PROVE faults' \in [AllFaults -> Nat]
BY DEF Typed, Fault

LEMMA InitHolds == Init => ColInv
<1> SUFFICES ASSUME Init PROVE ColInv
  OBVIOUS
<1>1. Typed
  BY DEF Init, Typed, Leases, NoLease, ColType, LauType, LauSteps
<1>2. \A l \in Launchers : lock = l <=> lau[l].at \in Locked
  BY CollectorConstants DEF Init, Locked
<1>3. TypeOK
  BY <1>1, <1>2 DEF TypeOK, Typed, ColType, LauType, Locked
<1>4. NamesTrue
  BY DEF Init, NamesTrue, Named, NoLease
<1>5. OfTheLease /\ HolderKnows /\ StillKnown /\ Fresh /\ LeftKnowing
  BY DEF Init, OfTheLease, HolderKnows, StillKnown, Counted, Serving, Live, Fresh, LeftKnowing
<1> QED BY <1>1, <1>3, <1>4, <1>5 DEF ColInv

LauStep(l) == \/ Start(l) \/ Ensures(l) \/ LockBusy(l) \/ SpawnFails(l) \/ LeaseFails(l)
              \/ AttachLost(l) \/ Quit(l) \/ Die(l)

LEMMA TypedKept ==
  ASSUME Typed, Next PROVE Typed'
<1>k. AllFaults = {"crash", "die", "slow", "late", "busy", "spawn", "write", "lost"}
  BY DEF AllFaults
<1>1. ASSUME NEW l \in Launchers, Start(l) PROVE Typed'
  BY <1>1, StartMoves DEF Typed, Moved, Start
<1>2. ASSUME NEW l \in Launchers, Lock(l) PROVE Typed'
  BY <1>2, LockMoves DEF Typed, Moved, Lock
<1>3. ASSUME NEW l \in Launchers, LockBusy(l) PROVE Typed'
  BY <1>3, <1>k, GivesUpMoves, FaultsCounted DEF Typed, Moved, LockBusy
<1>4. ASSUME NEW l \in Launchers, ReadLease(l) PROVE Typed'
  <2>1. lau'[l].at \in {"spawn", "probe"}
    BY <1>4, ReadMoves DEF Moved
  <2>2. \A m \in Launchers : lau'[m].at = "write" => lau'[m].cand.pid \in Collectors
    BY <1>4, <2>1, ReadMoves DEF Typed, Moved
  <2> QED BY <1>4, <2>2, ReadMoves DEF Typed, Moved, ReadLease
<1>5. ASSUME NEW l \in Launchers, Probe(l) PROVE Typed'
  <2>1. lau' \in [Launchers -> LauType]
    BY <1>5 DEF Typed, Probe, LauType, LauSteps, Live
  <2>6. \A m \in Launchers : lau'[m].at = "write" => lau'[m].cand.pid \in Collectors
    BY <1>5 DEF Typed, Probe, LauType
  <2>2. lock' \in Launchers \cup {None} /\ UNCHANGED <<lease, col>>
    BY <1>5 DEF Typed, Probe
  <2>3. faults' \in [AllFaults -> Nat]
    BY <1>5, <1>k, FaultsCounted DEF Typed, Probe
  <2>4. Healthy(lau[l].cand) => lau[l].cand.pid \in Collectors
    BY DEF Healthy, OnPort, Serving
  <2>7. cut' = cut \/ (Healthy(lau[l].cand) /\ cut' = cut \cup {lau[l].cand.pid})
    BY <1>5 DEF Probe
  <2>5. cut' \subseteq Collectors
    BY <2>4, <2>7 DEF Typed
  <2>8. overlooked' \subseteq Launchers
    BY <1>5 DEF Typed, Probe
  <2> QED BY <2>1, <2>2, <2>3, <2>5, <2>6, <2>8 DEF Typed
<1>6. ASSUME NEW l \in Launchers, Spawn(l) PROVE Typed'
  <2>1. PICK c \in Collectors, p \in Ports :
          /\ col[c].at = "unborn" /\ col'[c].at = "up" /\ col'[c].port = p
          /\ col' \in [Collectors -> ColType]
          /\ \A d \in Collectors \ {c} : col'[d] = col[d]
          /\ Moved(l, "write", lau[l].rec, [pid |-> c, port |-> p], lau[l].port)
    BY <1>6, SpawnMoves
  <2>2. \A m \in Launchers : lau'[m].at = "write" => lau'[m].cand.pid \in Collectors
    BY <2>1 DEF Typed, Moved
  <2> QED BY <1>6, <2>1, <2>2 DEF Typed, Moved, Spawn
<1>7. ASSUME NEW l \in Launchers, SpawnFails(l) PROVE Typed'
  BY <1>7, <1>k, FailMoves, FaultsCounted DEF Typed, Moved, SpawnFails
<1>8. ASSUME NEW l \in Launchers, WriteLease(l) PROVE Typed'
  BY <1>8 DEF Typed, WriteLease, LauType, LauSteps, Live
<1>9. ASSUME NEW l \in Launchers, Attach(l) PROVE Typed'
  <2>1. lau' \in [Launchers -> LauType]
    BY <1>9, AttachMoves, GivesUpMoves DEF Attach, Moved
  <2>2. \A m \in Launchers : lau'[m].at = "write" => lau'[m].cand.pid \in Collectors
    BY <1>9, AttachMoves, GivesUpMoves DEF Attach, Moved, Typed
  <2>3. overlooked' \subseteq Launchers
    BY <1>9 DEF Typed, Attach, Attaches, Overlooked
  <2> QED BY <1>9, <2>1, <2>2, <2>3, AttachKnows DEF Typed, Attach
<1>10. ASSUME NEW l \in Launchers, Check(l) PROVE Typed'
  BY <1>10 DEF Typed, Check, LauType, LauSteps, Live
<1>11. ASSUME NEW l \in Launchers, Quit(l) PROVE Typed'
  BY <1>11, QuitKnows DEF Typed, Quit, Moved
<1>12. ASSUME NEW l \in Launchers, Die(l) PROVE Typed'
  <2>1. lau' \in [Launchers -> LauType]
    BY <1>12 DEF Typed, Die, LauType, LauSteps, Live
  <2>2. faults' \in [AllFaults -> Nat]
    BY <1>12, <1>k, FaultsCounted DEF Typed, Die
  <2>3. cut' \subseteq Collectors
    BY <1>12 DEF Typed, Die
  <2>4. \A m \in Launchers : lau'[m].at = "write" => lau'[m].cand.pid \in Collectors
    BY <1>12 DEF Typed, Die, LauType
  <2> QED BY <1>12, <2>1, <2>2, <2>3, <2>4 DEF Typed, Die
<1>13. ASSUME NEW c \in Collectors, Ticks(c) \/ Crash(c) PROVE Typed'
  <2>1. faults' \in [AllFaults -> Nat]
    BY <1>13, <1>k, FaultsCounted
       DEF Typed, Ticks, Prune, GraceOver, Leave, Decides, Shutdown, Exit, Crash
  <2> QED BY <1>13, <2>1, TickKeeps DEF Typed
<1>14. ASSUME NEW l \in Launchers, PortTaken(l) PROVE Typed'
  <2>1. Again(l)
    BY <1>14 DEF PortTaken
  <2> QED BY <1>14, <2>1, AgainMoves DEF Typed, Moved, PortTaken
<1>15. ASSUME NEW l \in Launchers, LeaseFails(l) PROVE Typed'
  <2>1. GivesUp(l) /\ lau[l].cand.pid \in Collectors
    BY <1>15 DEF LeaseFails, Typed
  <2> QED BY <1>15, <1>k, <2>1, GivesUpMoves, FaultsCounted DEF Typed, Moved, LeaseFails
<1>16. ASSUME NEW l \in Launchers, AttachLost(l) PROVE Typed'
  <2>1. GivesUp(l)
    BY <1>16 DEF AttachLost
  <2> QED BY <1>16, <1>k, <2>1, GivesUpMoves, LostKnows, FaultsCounted DEF Typed, Moved, AttachLost
<1> QED
  BY <1>1, <1>2, <1>3, <1>4, <1>5, <1>6, <1>7, <1>8, <1>9, <1>10, <1>11, <1>12, <1>13,
     <1>14, <1>15, <1>16 DEF Next, Ensures

-----------------------------------------------------------------------------
LEMMA LockKept ==
  ASSUME TypeOK, Typed, Next PROVE (\A l \in Launchers : lock = l <=> lau[l].at \in Locked)'
<1>0. \A l \in Launchers : lock = l <=> lau[l].at \in Locked
  BY DEF TypeOK, Locked
<1> DEFINE Kept == \A m \in Launchers : lock' = m <=> lau'[m].at \in Locked
<1> USE CollectorConstants DEF Locked
<1>1. ASSUME NEW l \in Launchers, Start(l) PROVE Kept
  BY <1>0, <1>1, StartMoves DEF Moved, Start
<1>2. ASSUME NEW l \in Launchers, Lock(l) PROVE Kept
  BY <1>0, <1>2, LockMoves DEF Moved, Lock
<1>3. ASSUME NEW l \in Launchers, LockBusy(l) PROVE Kept
  BY <1>0, <1>3, GivesUpMoves DEF Moved, LockBusy
<1>4. ASSUME NEW l \in Launchers, ReadLease(l) PROVE Kept
  BY <1>0, <1>4, ReadMoves DEF Moved, ReadLease
<1>5. ASSUME NEW l \in Launchers, Probe(l) PROVE Kept
  BY <1>0, <1>5 DEF Probe, Typed, LauType
<1>6. ASSUME NEW l \in Launchers, Spawn(l) PROVE Kept
  <2>1. lau'[l].at = "write" /\ \A m \in Launchers \ {l} : lau'[m] = lau[m]
    BY <1>6, SpawnMoves DEF Moved
  <2> QED BY <1>0, <1>6, <2>1 DEF Spawn
<1>7. ASSUME NEW l \in Launchers, SpawnFails(l) PROVE Kept
  BY <1>0, <1>7, FailMoves DEF Moved, SpawnFails
<1>8. ASSUME NEW l \in Launchers, WriteLease(l) PROVE Kept
  BY <1>0, <1>8 DEF WriteLease, Typed, LauType
<1>9. ASSUME NEW l \in Launchers, Attach(l) PROVE Kept
  <2>1. /\ lock' = lock /\ lau[l].at = "attach" /\ lau'[l].at \in {"alone", "up"}
        /\ \A m \in Launchers \ {l} : lau'[m] = lau[m]
    BY <1>9, AttachMoves, GivesUpMoves DEF Attach, Moved
  <2> QED BY <1>0, <2>1
<1>10. ASSUME NEW l \in Launchers, Check(l) PROVE Kept
  BY <1>0, <1>10 DEF Check, Typed, LauType
<1>11. ASSUME NEW l \in Launchers, Quit(l) PROVE Kept
  <2>1. lock' = lock /\ lau[l].at \in {"up", "alone"}
    BY <1>11 DEF Quit
  <2>2. lau'[l].at = "gone" /\ \A m \in Launchers \ {l} : lau'[m] = lau[m]
    BY <1>11, QuitKnows DEF Moved
  <2> QED BY <1>0, <2>1, <2>2
<1>12. ASSUME NEW l \in Launchers, Die(l) PROVE Kept
  BY <1>0, <1>12 DEF Die, Typed, LauType
<1>13. ASSUME NEW c \in Collectors, Ticks(c) \/ Crash(c) PROVE Kept
  BY <1>0, <1>13, TickKeeps
<1>14. ASSUME NEW l \in Launchers, PortTaken(l) PROVE Kept
  BY <1>0, <1>14, AgainMoves DEF Moved, PortTaken
<1>15. ASSUME NEW l \in Launchers, LeaseFails(l) PROVE Kept
  BY <1>0, <1>15, GivesUpMoves DEF Moved, LeaseFails
<1>16. ASSUME NEW l \in Launchers, AttachLost(l) PROVE Kept
  BY <1>0, <1>16, GivesUpMoves DEF Moved, AttachLost
<1> QED
  BY <1>1, <1>2, <1>3, <1>4, <1>5, <1>6, <1>7, <1>8, <1>9, <1>10, <1>11, <1>12, <1>13,
     <1>14, <1>15, <1>16 DEF Next, Ensures

\* A name stays true: a pid is spawned once and keeps its port.
NamedNext(r) == r.pid # None => col'[r.pid].at # "unborn" /\ col'[r.pid].port = r.port

LEMMA NamesKept ==
  ASSUME Typed, NamesTrue, Next PROVE NamesTrue'
<1> DEFINE Kept == /\ NamedNext(lease')
                   /\ \A m \in Launchers : NamedNext(lau'[m].rec) /\ NamedNext(lau'[m].cand)
<1>0. Named(lease) /\ \A m \in Launchers : Named(lau[m].rec) /\ Named(lau[m].cand)
  BY DEF NamesTrue
<1>s. Kept => NamesTrue'
  BY DEF NamesTrue, Named, NamedNext
<1>r. lease \in Leases /\ \A m \in Launchers : lau[m].rec \in Leases /\ lau[m].cand \in Leases
  BY DEF Typed, LauType
<1>n. NoLease.pid = None
  BY DEF NoLease
\* Whatever was named stays named, as long as the pids keep state and port.
<1>c. ASSUME \A c \in Collectors : /\ col[c].at # "unborn" => col'[c].at # "unborn"
                                   /\ col[c].at # "unborn" => col'[c].port = col[c].port
      PROVE  \A r \in Leases : Named(r) => NamedNext(r)
  BY <1>c, LeasePids DEF Named, NamedNext
<1>m. ASSUME \A r \in Leases : Named(r) => NamedNext(r),
             NamedNext(lease'),
             \A m \in Launchers : /\ lau'[m].rec \in {lau[m].rec, lau[m].cand}
                                  /\ lau'[m].cand \in {NoLease, lau[m].cand, lease}
      PROVE  Kept
  BY <1>m, <1>0, <1>r, <1>n DEF NamedNext
<1>1. ASSUME NEW l \in Launchers, Start(l) PROVE Kept
  BY <1>1, <1>0, <1>r, <1>c, <1>m, StartMoves DEF Moved, Start
<1>2. ASSUME NEW l \in Launchers, Lock(l) PROVE Kept
  BY <1>2, <1>0, <1>r, <1>c, <1>m, LockMoves DEF Moved, Lock
<1>3. ASSUME NEW l \in Launchers, LockBusy(l) PROVE Kept
  BY <1>3, <1>0, <1>r, <1>c, <1>m, GivesUpMoves DEF Moved, LockBusy
<1>4. ASSUME NEW l \in Launchers, ReadLease(l) PROVE Kept
  BY <1>4, <1>0, <1>r, <1>c, <1>m, ReadMoves DEF Moved, ReadLease
<1>5. ASSUME NEW l \in Launchers, Probe(l) PROVE Kept
  <2>1. \A m \in Launchers : lau'[m].rec = lau[m].rec /\ lau'[m].cand = lau[m].cand
    BY <1>5 DEF Probe, Typed, LauType
  <2> QED BY <1>5, <1>0, <1>r, <1>c, <1>m, <2>1 DEF Probe
<1>6. ASSUME NEW l \in Launchers, Spawn(l) PROVE Kept
  <2>1. PICK c \in Collectors, p \in Ports :
          /\ col[c].at = "unborn" /\ col'[c].at = "up" /\ col'[c].port = p
          /\ col' \in [Collectors -> ColType]
          /\ \A d \in Collectors \ {c} : col'[d] = col[d]
          /\ Moved(l, "write", lau[l].rec, [pid |-> c, port |-> p], lau[l].port)
    BY <1>6, SpawnMoves
  <2>2. \A r \in Leases : Named(r) => NamedNext(r)
    BY <2>1, <1>c
  <2>3. NamedNext(lau'[l].cand) /\ NamedNext(lease') /\ NamedNext(lau'[l].rec)
    <3>1. lau'[l].cand = [pid |-> c, port |-> p] /\ lau'[l].rec = lau[l].rec /\ lease' = lease
      BY <1>6, <2>1 DEF Moved, Spawn
    <3>2. NamedNext([pid |-> c, port |-> p])
      BY <2>1 DEF NamedNext
    <3> QED BY <1>0, <1>r, <2>2, <3>1, <3>2
  <2>4. \A m \in Launchers \ {l} : lau'[m] = lau[m]
    BY <2>1 DEF Moved
  <2> QED BY <1>0, <1>r, <2>2, <2>3, <2>4
<1>7. ASSUME NEW l \in Launchers, SpawnFails(l) PROVE Kept
  <2>1. UNCHANGED <<lease, col>>
    BY <1>7 DEF SpawnFails
  <2>2. \A m \in Launchers : /\ lau'[m].rec = lau[m].rec
                             /\ lau'[m].cand \in {NoLease, lau[m].cand}
    BY <1>7, FailMoves DEF Moved
  <2> QED BY <1>0, <1>r, <1>c, <1>m, <2>1, <2>2
<1>8. ASSUME NEW l \in Launchers, WriteLease(l) PROVE Kept
  <2>1. /\ \A m \in Launchers : lau'[m].rec = lau[m].rec /\ lau'[m].cand = lau[m].cand
        /\ lease' = lau[l].cand /\ col' = col
    BY <1>8 DEF WriteLease, Typed, LauType
  <2>2. \A r \in Leases : Named(r) => NamedNext(r)
    BY <2>1, <1>c
  <2> QED BY <1>0, <1>r, <1>m, <2>1, <2>2
<1>9. ASSUME NEW l \in Launchers, Attach(l) PROVE Kept
  <2>1. \A c \in Collectors : col'[c].at = col[c].at /\ col'[c].port = col[c].port
    BY <1>9, AttachKnows
  <2>2. \A m \in Launchers : /\ lau'[m].rec \in {lau[m].rec, lau[m].cand}
                             /\ lau'[m].cand \in {NoLease, lau[m].cand}
    BY <1>9, AttachMoves, GivesUpMoves DEF Attach, Moved
  <2>3. lease' = lease
    BY <1>9 DEF Attach
  <2>4. \A r \in Leases : Named(r) => NamedNext(r)
    BY <2>1, <1>c
  <2> QED BY <1>0, <1>r, <1>m, <2>2, <2>3, <2>4
<1>10. ASSUME NEW l \in Launchers, Check(l) PROVE Kept
  <2>1. \A m \in Launchers : lau'[m].rec = lau[m].rec /\ lau'[m].cand = lau[m].cand
    BY <1>10 DEF Check, Typed, LauType
  <2> QED BY <1>10, <1>0, <1>r, <1>c, <1>m, <2>1 DEF Check
<1>11. ASSUME NEW l \in Launchers, Quit(l) PROVE Kept
  <2>1. \A c \in Collectors : col'[c].at = col[c].at /\ col'[c].port = col[c].port
    BY <1>11, QuitKnows
  <2>2. \A m \in Launchers : lau'[m].rec = lau[m].rec /\ lau'[m].cand = lau[m].cand
    BY <1>11, QuitKnows DEF Moved
  <2>3. lease' = lease
    BY <1>11 DEF Quit
  <2>4. \A r \in Leases : Named(r) => NamedNext(r)
    BY <2>1, <1>c
  <2> QED BY <1>0, <1>r, <1>m, <2>2, <2>3, <2>4
<1>12. ASSUME NEW l \in Launchers, Die(l) PROVE Kept
  <2>1. \A m \in Launchers : lau'[m].rec = lau[m].rec /\ lau'[m].cand = lau[m].cand
    BY <1>12 DEF Die, Typed, LauType
  <2> QED BY <1>12, <1>0, <1>r, <1>c, <1>m, <2>1 DEF Die
<1>13. ASSUME NEW c \in Collectors, Ticks(c) \/ Crash(c) PROVE Kept
  <2>1. \A r \in Leases : Named(r) => NamedNext(r)
    BY <1>13, <1>c, TickKeeps
  <2> QED BY <1>13, <1>0, <1>r, <2>1, TickKeeps
<1>14. ASSUME NEW l \in Launchers, PortTaken(l) PROVE Kept
  BY <1>14, <1>0, <1>r, <1>c, <1>m, AgainMoves DEF Moved, PortTaken
<1>15. ASSUME NEW l \in Launchers, LeaseFails(l) PROVE Kept
  BY <1>15, <1>0, <1>r, <1>c, <1>m, GivesUpMoves DEF Moved, LeaseFails
<1>16. ASSUME NEW l \in Launchers, AttachLost(l) PROVE Kept
  <2>1. lease' = lease /\ GivesUp(l)
    BY <1>16 DEF AttachLost
  <2>2. \A m \in Launchers : /\ lau'[m].rec = lau[m].rec
                             /\ lau'[m].cand \in {NoLease, lau[m].cand}
    BY <2>1, GivesUpMoves DEF Moved
  <2>3. \A r \in Leases : Named(r) => NamedNext(r)
    BY <1>16, <1>c, LostKnows
  <2> QED BY <1>0, <1>r, <1>m, <2>1, <2>2, <2>3
<1> QED
  BY <1>s, <1>1, <1>2, <1>3, <1>4, <1>5, <1>6, <1>7, <1>8, <1>9, <1>10, <1>11, <1>12, <1>13,
     <1>14, <1>15, <1>16 DEF Next, Ensures

-----------------------------------------------------------------------------
\* The lease is the same, no collector was added, and a launcher that stands
\* where a holder knows something stood there before.
LEMMA QuietCount ==
  ASSUME Typed, OfTheLease, HolderKnows, lease' = lease,
         Counted' \subseteq Counted,
         \A m \in Launchers :
           /\ lau'[m].at \in {"probe", "spawn", "write"} =>
                lau'[m].at = lau[m].at /\ lau'[m].cand = lau[m].cand
           /\ lau'[m].at = "again" => lau[m].at \in {"spawn", "again"}
           /\ lau[m].at = "write" => lau'[m].at = "write" \/ Counted' = {}
  PROVE  (OfTheLease /\ HolderKnows)'
<1>1. OfTheLease'
  BY DEF OfTheLease
<1>2. HolderKnows'
  BY DEF HolderKnows
<1> QED BY <1>1, <1>2

\* Nobody but the lock's holder reads, probes, spawns or writes.
LEMMA HolderAlone ==
  ASSUME TypeOK, NEW l \in Launchers, lau[l].at \in Locked
  PROVE  \A m \in Launchers : lau[m].at \in Locked => m = l
BY CollectorConstants DEF TypeOK, Locked

LEMMA CountKept ==
  ASSUME TypeOK, Typed, NamesTrue, OfTheLease, HolderKnows, Next
  PROVE  (OfTheLease /\ HolderKnows)'
<1> DEFINE Kept == (OfTheLease /\ HolderKnows)'
<1>u. ASSUME UNCHANGED <<col, cut>> PROVE Counted' = Counted
  BY <1>u DEF Counted, Serving
<1>1. ASSUME NEW l \in Launchers, Start(l) PROVE Kept
  <2>1. lau[l].at = "idle" /\ UNCHANGED <<col, cut, lease>>
    BY <1>1 DEF Start
  <2> QED BY <1>u, <2>1, <1>1, StartMoves, QuietCount DEF Moved
<1>2. ASSUME NEW l \in Launchers, Lock(l) PROVE Kept
  <2>1. lau[l].at = "lock" /\ UNCHANGED <<col, cut, lease>>
    BY <1>2 DEF Lock
  <2> QED BY <1>u, <2>1, <1>2, LockMoves, QuietCount DEF Moved
<1>3. ASSUME NEW l \in Launchers, LockBusy(l) PROVE Kept
  <2>1. lau[l].at = "lock" /\ UNCHANGED <<col, cut, lease>> /\ GivesUp(l)
    BY <1>3 DEF LockBusy
  <2>2. lau'[l].at \in {"alone", "up"} /\ \A m \in Launchers \ {l} : lau'[m] = lau[m]
    BY <2>1, GivesUpMoves DEF Moved
  <2> QED BY <1>u, <2>1, <2>2, QuietCount
<1>4. ASSUME NEW l \in Launchers, ReadLease(l) PROVE Kept
  <2>1. lau[l].at = "read" /\ UNCHANGED <<col, cut, lease>>
    BY <1>4 DEF ReadLease
  <2>2. \A m \in Launchers : lau[m].at # "write"
    BY <2>1, HolderAlone DEF Locked
  <2>5. ASSUME lease = NoLease, NEW c \in Counted PROVE FALSE
    <3>1. c \in Collectors /\ c # None
      BY CollectorConstants DEF Counted, Serving
    <3>2. lease.pid = c
      BY <2>2 DEF OfTheLease
    <3> QED BY <2>5, <3>1, <3>2 DEF NoLease
  <2>3. lease = NoLease => Counted = {}
    BY <2>5
  <2>4. /\ lau'[l].at = IF lease = NoLease THEN "spawn" ELSE "probe"
        /\ lau'[l].cand = lease /\ \A m \in Launchers \ {l} : lau'[m] = lau[m]
    BY <1>4, ReadMoves DEF Moved
  <2> QED BY <1>u, <2>1, <2>2, <2>3, <2>4 DEF OfTheLease, HolderKnows
<1>5. ASSUME NEW l \in Launchers, Probe(l) PROVE Kept
  <2>1. lau[l].at = "probe" /\ UNCHANGED <<col, lease>> /\ cut \subseteq cut'
    BY <1>5 DEF Probe
  <2>2. \A m \in Launchers : lau[m].at # "write"
    BY <2>1, HolderAlone DEF Locked
  <2>3. \A c \in Counted : c = lease.pid /\ c # None
    BY <2>2, CollectorConstants DEF OfTheLease, Counted, Serving
  <2>4. lau[l].cand = lease
    BY <2>1 DEF HolderKnows
  <2>5. \A c \in Counted : Healthy(lease)
    BY <2>3 DEF NamesTrue, Named, Healthy, OnPort, Counted
  <2>6. Counted' \subseteq Counted
    BY <2>1 DEF Counted, Serving
  <2>7. /\ lau'[l].at \in {"attach", "spawn"} /\ \A m \in Launchers \ {l} : lau'[m] = lau[m]
        /\ lau'[l].at = "spawn" => ~Healthy(lau[l].cand) \/ lau[l].cand.pid \in cut'
    BY <1>5 DEF Probe, Typed, LauType
  <2>8. lau'[l].at = "spawn" => Counted' = {}
    BY <2>3, <2>4, <2>5, <2>6, <2>7 DEF Counted
  <2> QED BY <2>1, <2>2, <2>6, <2>7, <2>8 DEF OfTheLease, HolderKnows
<1>6. ASSUME NEW l \in Launchers, Spawn(l) PROVE Kept
  <2>1. PICK c \in Collectors, p \in Ports :
          /\ col[c].at = "unborn" /\ col'[c].at = "up" /\ col'[c].port = p
          /\ col' \in [Collectors -> ColType]
          /\ \A d \in Collectors \ {c} : col'[d] = col[d]
          /\ Moved(l, "write", lau[l].rec, [pid |-> c, port |-> p], lau[l].port)
    BY <1>6, SpawnMoves
  <2>2. lau[l].at \in {"spawn", "again"} /\ UNCHANGED <<cut, lease>>
    BY <1>6 DEF Spawn
  <2>3. Counted = {}
    BY <2>2 DEF HolderKnows
  <2>4. Counted' \subseteq {c}
    BY <2>1, <2>2, <2>3 DEF Counted, Serving
  <2>5. /\ lau'[l].at = "write" /\ lau'[l].cand.pid = c
        /\ \A m \in Launchers \ {l} : lau'[m] = lau[m] /\ lau[m].at \notin Locked
    BY <2>1, <2>2, HolderAlone DEF Moved, Locked
  <2> QED BY <2>4, <2>5 DEF OfTheLease, HolderKnows, Locked
<1>7. ASSUME NEW l \in Launchers, SpawnFails(l) PROVE Kept
  <2>1. lau[l].at \in {"spawn", "again"} /\ UNCHANGED <<col, cut, lease>>
    BY <1>7 DEF SpawnFails
  <2>2. /\ lau'[l].at \in {"again", "alone", "up"}
        /\ \A m \in Launchers \ {l} : lau'[m] = lau[m]
    BY <1>7, FailMoves DEF Moved
  <2> QED BY <1>u, <2>1, <2>2, QuietCount
<1>8. ASSUME NEW l \in Launchers, WriteLease(l) PROVE Kept
  <2>1. lau[l].at = "write" /\ UNCHANGED <<col, cut>> /\ lease' = lau[l].cand
    BY <1>8 DEF WriteLease
  <2>2. Counted \subseteq {lau[l].cand.pid}
    BY <2>1 DEF HolderKnows
  <2>3. /\ lau'[l].at = "attach"
        /\ \A m \in Launchers \ {l} : lau'[m] = lau[m] /\ lau[m].at \notin Locked
    BY <1>8, <2>1, HolderAlone DEF WriteLease, Typed, LauType, Locked
  <2> QED BY <1>u, <2>1, <2>2, <2>3 DEF OfTheLease, HolderKnows, Locked
<1>9. ASSUME NEW l \in Launchers, Attach(l) PROVE Kept
  <2>1. lau[l].at = "attach" /\ UNCHANGED <<cut, lease>>
    BY <1>9 DEF Attach
  <2>2. lau'[l].at \in {"alone", "up"} /\ \A m \in Launchers \ {l} : lau'[m] = lau[m]
    BY <1>9, AttachMoves, GivesUpMoves DEF Attach, Moved
  <2>3. Counted' = Counted
    BY <1>9, <2>1, AttachKnows DEF Counted, Serving
  <2> QED BY <2>1, <2>2, <2>3, QuietCount
<1>10. ASSUME NEW l \in Launchers, Check(l) PROVE Kept
  <2>1. lau[l].at = "up" /\ UNCHANGED <<col, cut, lease>>
    BY <1>10 DEF Check
  <2>2. lau'[l].at = "lock" /\ \A m \in Launchers \ {l} : lau'[m] = lau[m]
    BY <1>10 DEF Check, Typed, LauType
  <2> QED BY <1>u, <2>1, <2>2, QuietCount
<1>11. ASSUME NEW l \in Launchers, Quit(l) PROVE Kept
  <2>1. lau[l].at \in {"up", "alone"} /\ UNCHANGED <<cut, lease>>
    BY <1>11 DEF Quit
  <2>2. lau'[l].at = "gone" /\ \A m \in Launchers \ {l} : lau'[m] = lau[m]
    BY <1>11, QuitKnows DEF Moved
  <2>3. Counted' = Counted
    BY <1>11, <2>1, QuitKnows DEF Counted, Serving
  <2> QED BY <2>1, <2>2, <2>3, QuietCount
<1>12. ASSUME NEW l \in Launchers, Die(l) PROVE Kept
  <2>1. UNCHANGED <<col, lease>> /\ cut \subseteq cut'
    BY <1>12 DEF Die
  <2>2. lau'[l].at = "gone" /\ \A m \in Launchers \ {l} : lau'[m] = lau[m]
    BY <1>12 DEF Die, Typed, LauType
  <2>3. lau[l].at = "write" => lau[l].cand.pid \in cut'
    BY <1>12 DEF Die
  <2>4. Counted' \subseteq Counted
    BY <2>1 DEF Counted, Serving
  <2>5. lau[l].at = "write" => Counted' = {}
    BY <2>3, <2>4 DEF HolderKnows, Counted
  <2> QED BY <2>1, <2>2, <2>4, <2>5, QuietCount
<1>13. ASSUME NEW c \in Collectors, Ticks(c) \/ Crash(c) PROVE Kept
  <2>1. UNCHANGED <<lau, lease, cut>> /\ \A d \in Collectors : d \in Serving' => d \in Serving
    BY <1>13, TickKeeps
  <2>2. Counted' \subseteq Counted
    BY <2>1 DEF Counted, Serving
  <2> QED BY <2>1, <2>2, QuietCount
<1>14. ASSUME NEW l \in Launchers, PortTaken(l) PROVE Kept
  <2>1. lau[l].at = "spawn" /\ UNCHANGED <<col, cut, lease>> /\ Again(l)
    BY <1>14 DEF PortTaken
  <2>2. lau'[l].at = "again" /\ \A m \in Launchers \ {l} : lau'[m] = lau[m]
    BY <2>1, AgainMoves DEF Moved
  <2> QED BY <1>u, <2>1, <2>2, QuietCount
<1>15. ASSUME NEW l \in Launchers, LeaseFails(l) PROVE Kept
  <2>1. /\ lau[l].at = "write" /\ UNCHANGED <<col, lease>> /\ GivesUp(l)
        /\ cut' = cut \cup {lau[l].cand.pid}
    BY <1>15 DEF LeaseFails
  <2>2. lau'[l].at \in {"alone", "up"} /\ \A m \in Launchers \ {l} : lau'[m] = lau[m]
    BY <2>1, GivesUpMoves DEF Moved
  <2>3. Counted' \subseteq Counted
    BY <2>1 DEF Counted, Serving
  <2>4. Counted' = {}
    BY <2>1, <2>3 DEF HolderKnows, Counted
  <2> QED BY <2>1, <2>2, <2>3, <2>4, QuietCount
<1>16. ASSUME NEW l \in Launchers, AttachLost(l) PROVE Kept
  <2>1. lau[l].at = "attach" /\ UNCHANGED <<cut, lease>> /\ GivesUp(l)
    BY <1>16 DEF AttachLost
  <2>2. lau'[l].at \in {"alone", "up"} /\ \A m \in Launchers \ {l} : lau'[m] = lau[m]
    BY <2>1, GivesUpMoves DEF Moved
  <2>3. Counted' = Counted
    BY <1>16, <2>1, LostKnows DEF Counted, Serving
  <2> QED BY <2>1, <2>2, <2>3, QuietCount
<1> QED
  BY <1>1, <1>2, <1>3, <1>4, <1>5, <1>6, <1>7, <1>8, <1>9, <1>10, <1>11, <1>12, <1>13,
     <1>14, <1>15, <1>16 DEF Next, Ensures

-----------------------------------------------------------------------------
\* No launcher takes another collector and no collector that serves forgets one
\* that is alive.
LEMMA QuietKnown ==
  ASSUME Typed, NamesTrue, StillKnown,
         \A c \in Collectors :
           \/ /\ c \in Serving' => c \in Serving /\ col'[c].port = col[c].port
              /\ \A m \in Launchers :
                   m \in col[c].attached /\ lau'[m].at \in Live /\ c \in Serving' =>
                     m \in col'[c].attached
           \/ col[c].at = "unborn" /\ col'[c].port \in Ports,
         \A m \in Launchers :
           /\ lau'[m].at = "idle" => lau'[m].port = None
           /\ lau'[m].at = "up" => lau'[m].port # None
           /\ lau'[m].at \in Live /\ lau'[m].port # None =>
                lau[m].at \in Live /\ lau[m].port # None /\ lau'[m].rec = lau[m].rec
  PROVE  StillKnown'
<1>1. \A c \in Serving' : col'[c].port \in Ports
  BY DEF StillKnown, Serving
<1>2. ASSUME NEW m \in Launchers, lau'[m].at \in Live, lau'[m].port # None,
             lau'[m].rec.pid \in Serving'
      PROVE  m \in col'[lau'[m].rec.pid].attached
  <2>1. lau[m].at \in Live /\ lau[m].port # None /\ lau'[m].rec = lau[m].rec
    BY <1>2
  <2> DEFINE c == lau[m].rec.pid
  <2>2. c \in Collectors /\ c \in Serving' /\ c # None
    BY <1>2, <2>1, CollectorConstants DEF Serving
  <2>3. col[c].at # "unborn"
    BY <2>2 DEF NamesTrue, Named
  <2>4. c \in Serving
    BY <2>2, <2>3
  <2>5. m \in col[c].attached
    BY <2>1, <2>4 DEF StillKnown
  <2> QED BY <1>2, <2>1, <2>2, <2>3, <2>5
<1> QED BY <1>1, <1>2 DEF StillKnown

LEMMA KnownKept ==
  ASSUME Typed, NamesTrue, StillKnown, Next PROVE StillKnown'
<1>u. \A m \in Launchers : /\ lau[m].at = "up" => lau[m].port # None
                           /\ lau[m].at = "idle" => lau[m].port = None
  BY DEF StillKnown
<1>l. {"lock", "read", "probe", "spawn", "again", "write", "attach", "up"} = Live
  BY DEF Live
<1>s. \A c \in Collectors : UNCHANGED col => (c \in Serving' <=> c \in Serving)
  BY DEF Serving
<1>1. ASSUME NEW l \in Launchers, Start(l) PROVE StillKnown'
  <2>1. lau[l].at = "idle" /\ col' = col
    BY <1>1 DEF Start
  <2>2. /\ lau'[l].at = "lock" /\ lau'[l].port = None
        /\ \A m \in Launchers \ {l} : lau'[m] = lau[m]
    BY <1>1, <1>u, <2>1, StartMoves DEF Moved
  <2> QED BY <1>u, <1>l, <1>s, <2>1, <2>2, QuietKnown
<1>2. ASSUME NEW l \in Launchers, Lock(l) PROVE StillKnown'
  <2>1. lau[l].at = "lock" /\ col' = col
    BY <1>2 DEF Lock
  <2>2. /\ lau'[l].at = "read" /\ lau'[l].port = lau[l].port /\ lau'[l].rec = lau[l].rec
        /\ \A m \in Launchers \ {l} : lau'[m] = lau[m]
    BY <1>2, LockMoves DEF Moved
  <2> QED BY <1>u, <1>l, <1>s, <2>1, <2>2, QuietKnown
<1>3. ASSUME NEW l \in Launchers, LockBusy(l) \/ LeaseFails(l) PROVE StillKnown'
  <2>1. lau[l].at \in {"lock", "write"} /\ col' = col /\ GivesUp(l)
    BY <1>3 DEF LockBusy, LeaseFails
  <2>2. /\ lau'[l].at \in {"alone", "up"} /\ lau'[l].port = lau[l].port /\ lau'[l].rec = lau[l].rec
        /\ lau'[l].at = "up" => lau[l].port # None
        /\ \A m \in Launchers \ {l} : lau'[m] = lau[m]
    BY <2>1, GivesUpMoves DEF Moved
  <2> QED BY <1>u, <1>l, <1>s, <2>1, <2>2, QuietKnown
<1>14. ASSUME NEW l \in Launchers, SpawnFails(l) \/ PortTaken(l) PROVE StillKnown'
  <2>1. lau[l].at \in {"spawn", "again"} /\ col' = col
    BY <1>14 DEF SpawnFails, PortTaken
  <2>2. /\ lau'[l].at \in {"again", "alone", "up"}
        /\ lau'[l].port = lau[l].port /\ lau'[l].rec = lau[l].rec
        /\ lau'[l].at = "up" => lau[l].port # None
        /\ \A m \in Launchers \ {l} : lau'[m] = lau[m]
    BY <1>14, FailMoves, AgainMoves DEF PortTaken, Moved
  <2> QED BY <1>u, <1>l, <1>s, <2>1, <2>2, QuietKnown
<1>16. ASSUME NEW l \in Launchers, AttachLost(l) PROVE StillKnown'
  <2>1. lau[l].at = "attach" /\ GivesUp(l)
    BY <1>16 DEF AttachLost
  <2>2. /\ lau'[l].at \in {"alone", "up"} /\ lau'[l].port = lau[l].port /\ lau'[l].rec = lau[l].rec
        /\ lau'[l].at = "up" => lau[l].port # None
        /\ \A m \in Launchers \ {l} : lau'[m] = lau[m]
    BY <2>1, GivesUpMoves DEF Moved
  <2>3. \A c \in Collectors : /\ c \in Serving' <=> c \in Serving
                              /\ col'[c].port = col[c].port
                              /\ col[c].attached \subseteq col'[c].attached
    BY <1>16, LostKnows DEF Serving
  <2> QED BY <1>u, <1>l, <2>1, <2>2, <2>3, QuietKnown
<1>4. ASSUME NEW l \in Launchers, ReadLease(l) PROVE StillKnown'
  <2>1. lau[l].at = "read" /\ col' = col
    BY <1>4 DEF ReadLease
  <2>2. /\ lau'[l].at \notin {"idle", "up"} /\ lau'[l].port = lau[l].port /\ lau'[l].rec = lau[l].rec
        /\ \A m \in Launchers \ {l} : lau'[m] = lau[m]
    BY <1>4, ReadMoves DEF Moved
  <2> QED BY <1>u, <1>l, <1>s, <2>1, <2>2, QuietKnown
<1>5. ASSUME NEW l \in Launchers, Probe(l) PROVE StillKnown'
  <2>1. lau[l].at = "probe" /\ col' = col
    BY <1>5 DEF Probe
  <2>2. /\ lau'[l].at \notin {"idle", "up"} /\ lau'[l].port = lau[l].port /\ lau'[l].rec = lau[l].rec
        /\ \A m \in Launchers \ {l} : lau'[m] = lau[m]
    BY <1>5 DEF Probe, Typed, LauType
  <2> QED BY <1>u, <1>l, <1>s, <2>1, <2>2, QuietKnown
<1>6. ASSUME NEW l \in Launchers, Spawn(l) PROVE StillKnown'
  <2>1. PICK c \in Collectors, p \in Ports :
          /\ col[c].at = "unborn" /\ col'[c].at = "up" /\ col'[c].port = p
          /\ col' \in [Collectors -> ColType]
          /\ \A d \in Collectors \ {c} : col'[d] = col[d]
          /\ Moved(l, "write", lau[l].rec, [pid |-> c, port |-> p], lau[l].port)
    BY <1>6, SpawnMoves
  <2>2. lau[l].at \in {"spawn", "again"}
    BY <1>6 DEF Spawn
  <2>3. /\ lau'[l].at = "write" /\ lau'[l].port = lau[l].port /\ lau'[l].rec = lau[l].rec
        /\ \A m \in Launchers \ {l} : lau'[m] = lau[m]
    BY <2>1 DEF Moved
  <2>4. \A d \in Collectors \ {c} : (d \in Serving' <=> d \in Serving) /\ col'[d] = col[d]
    BY <2>1 DEF Serving
  <2>5. \A d \in Collectors :
          \/ d # c /\ (d \in Serving' => d \in Serving) /\ col'[d] = col[d]
          \/ col[d].at = "unborn" /\ col'[d].port \in Ports
    BY <2>1, <2>4
  <2> QED BY <1>u, <1>l, <2>2, <2>3, <2>5, QuietKnown
<1>8. ASSUME NEW l \in Launchers, WriteLease(l) \/ Check(l) PROVE StillKnown'
  <2>1. lau[l].at \in {"write", "up"} /\ col' = col
    BY <1>8 DEF WriteLease, Check
  <2>2. /\ lau'[l].at \in {"attach", "lock"} /\ lau'[l].port = lau[l].port /\ lau'[l].rec = lau[l].rec
        /\ \A m \in Launchers \ {l} : lau'[m] = lau[m]
    BY <1>8 DEF WriteLease, Check, Typed, LauType
  <2> QED BY <1>u, <1>l, <1>s, <2>1, <2>2, QuietKnown
<1>9. ASSUME NEW l \in Launchers, Attach(l) PROVE StillKnown'
  <2>1. lau[l].at = "attach"
    BY <1>9 DEF Attach
  <2>2. \A c \in Collectors :
          /\ col'[c].at = col[c].at /\ col'[c].port = col[c].port
          /\ col[c].attached \subseteq col'[c].attached
          /\ c \in OnPort(lau[l].cand.port) => l \in col'[c].attached
    BY <1>9, AttachKnows
  <2>3. CASE OnPort(lau[l].cand.port) = {}
    <3>1. GivesUp(l)
      BY <1>9, <2>3 DEF Attach
    <3>2. /\ lau'[l].at \in {"alone", "up"} /\ lau'[l].port = lau[l].port /\ lau'[l].rec = lau[l].rec
          /\ lau'[l].at = "up" => lau[l].port # None
          /\ \A m \in Launchers \ {l} : lau'[m] = lau[m]
      BY <3>1, GivesUpMoves DEF Moved
    <3>3. \A c \in Collectors : c \in Serving' <=> c \in Serving
      BY <2>2 DEF Serving
    <3> QED BY <1>u, <1>l, <2>1, <2>2, <3>2, <3>3, QuietKnown
  <2>4. CASE OnPort(lau[l].cand.port) # {}
    <3>1. /\ lau'[l].at = "up" /\ lau'[l].rec = lau[l].cand
          /\ lau'[l].port = IF lau[l].port = None THEN lau[l].cand.port ELSE lau[l].port
          /\ \A m \in Launchers \ {l} : lau'[m] = lau[m]
      BY <1>9, <2>4, AttachMoves DEF Moved
    <3>2. lau[l].cand.port \in Ports
      BY <2>4 DEF StillKnown, OnPort
    <3>3. lau'[l].port # None
      BY <3>1, <3>2, CollectorConstants
    <3>4. Serving' = Serving
      BY <2>2 DEF Serving
    <3>5. lau[l].cand.pid \in Serving => lau[l].cand.pid \in OnPort(lau[l].cand.port)
      BY CollectorConstants DEF NamesTrue, Named, OnPort, Serving
    <3>6. lau[l].cand.pid \in Serving => l \in col'[lau[l].cand.pid].attached
      BY <2>2, <3>5 DEF Serving
    <3>7. \A c \in Serving' : col'[c].port \in Ports
      BY <2>2, <3>4 DEF StillKnown, Serving
    <3>8. ASSUME NEW m \in Launchers \ {l}, lau'[m].at \in Live, lau'[m].port # None,
                 lau'[m].rec.pid \in Serving'
          PROVE  m \in col'[lau'[m].rec.pid].attached
      BY <2>2, <3>1, <3>4, <3>8 DEF StillKnown, Serving
    <3> QED BY <1>u, <3>1, <3>3, <3>4, <3>6, <3>7, <3>8 DEF StillKnown
  <2> QED BY <2>3, <2>4
<1>11. ASSUME NEW l \in Launchers, Quit(l) PROVE StillKnown'
  <2>1. /\ lau'[l].at = "gone" /\ \A m \in Launchers \ {l} : lau'[m] = lau[m]
        /\ \A c \in Collectors :
             /\ col'[c].at = col[c].at /\ col'[c].port = col[c].port
             /\ col[c].attached \ {l} \subseteq col'[c].attached
    BY <1>11, QuitKnows DEF Moved
  <2>2. \A c \in Collectors : c \in Serving' <=> c \in Serving
    BY <2>1 DEF Serving
  <2> QED BY <1>u, <1>l, <2>1, <2>2, QuietKnown
<1>12. ASSUME NEW l \in Launchers, Die(l) PROVE StillKnown'
  <2>1. /\ lau'[l].at = "gone" /\ \A m \in Launchers \ {l} : lau'[m] = lau[m]
        /\ col' = col
    BY <1>12 DEF Die, Typed, LauType
  <2> QED BY <1>u, <1>l, <1>s, <2>1, QuietKnown
<1>13. ASSUME NEW c \in Collectors, Ticks(c) \/ Crash(c) PROVE StillKnown'
  <2>1. lau' = lau /\ \A d \in Collectors :
          /\ col'[d].port = col[d].port
          /\ d \in Serving' =>
               /\ d \in Serving
               /\ \A l \in col[d].attached : Alive(l) => l \in col'[d].attached
    BY <1>13, TickKeeps
  <2> QED BY <1>u, <2>1, QuietKnown DEF Alive
<1> QED
  BY <1>1, <1>2, <1>3, <1>4, <1>5, <1>6, <1>8, <1>9, <1>11, <1>12, <1>13, <1>14, <1>16
     DEF Next, Ensures

-----------------------------------------------------------------------------
\* Nobody starts to write, and no launcher takes what a writer is about to put
\* into the lease.
LEMMA QuietFresh ==
  ASSUME Typed, Fresh, lease' = lease,
         \A m \in Launchers :
           /\ lau'[m].at = "write" => lau[m].at = "write" /\ lau'[m].cand = lau[m].cand
           /\ lau'[m].rec = lau[m].rec \/ (lau[m].at # "write" /\ lau'[m].rec = lau[m].cand)
           /\ lau'[m].cand \in {lau[m].cand, lease, NoLease}
  PROVE  Fresh'
<1>1. NoLease.pid = None
  BY DEF NoLease
<1> SUFFICES ASSUME NEW m \in Launchers, lau'[m].at = "write"
             PROVE  /\ lease'.pid # lau'[m].cand.pid
                    /\ \A l \in Launchers :
                         /\ lau'[l].rec.pid # lau'[m].cand.pid
                         /\ l # m => lau'[l].cand.pid # lau'[m].cand.pid
  BY DEF Fresh
<1>2. lau[m].at = "write" /\ lau'[m].cand = lau[m].cand /\ lau[m].cand.pid # None
  BY CollectorConstants DEF Typed
<1>3. /\ lease.pid # lau[m].cand.pid
      /\ \A l \in Launchers : /\ lau[l].rec.pid # lau[m].cand.pid
                              /\ l # m => lau[l].cand.pid # lau[m].cand.pid
  BY <1>2 DEF Fresh
<1>4. ASSUME NEW l \in Launchers
      PROVE  /\ lau'[l].rec.pid # lau[m].cand.pid
             /\ l # m => lau'[l].cand.pid # lau[m].cand.pid
  BY <1>1, <1>2, <1>3
<1> QED BY <1>2, <1>3, <1>4

LEMMA FreshKept ==
  ASSUME TypeOK, Typed, NamesTrue, Fresh, Next PROVE Fresh'
<1>1. ASSUME NEW l \in Launchers, Start(l) PROVE Fresh'
  BY <1>1, StartMoves, QuietFresh DEF Moved, Start
<1>2. ASSUME NEW l \in Launchers, Lock(l) PROVE Fresh'
  BY <1>2, LockMoves, QuietFresh DEF Moved, Lock
<1>3. ASSUME NEW l \in Launchers, LockBusy(l) \/ LeaseFails(l) \/ AttachLost(l) PROVE Fresh'
  <2>1. lease' = lease /\ GivesUp(l)
    BY <1>3 DEF LockBusy, LeaseFails, AttachLost
  <2>2. lau'[l].at \in {"alone", "up"}
    BY <2>1, GivesUpMoves DEF Moved
  <2> QED BY <2>1, <2>2, GivesUpMoves, QuietFresh DEF Moved
<1>4. ASSUME NEW l \in Launchers, ReadLease(l) PROVE Fresh'
  <2>1. lau'[l].at \in {"spawn", "probe"} /\ lease' = lease
    BY <1>4, ReadMoves DEF Moved, ReadLease
  <2> QED BY <1>4, <2>1, ReadMoves, QuietFresh DEF Moved
<1>5. ASSUME NEW l \in Launchers, Probe(l) \/ Check(l) PROVE Fresh'
  <2>1. lease' = lease /\ \A m \in Launchers :
          /\ lau'[m].at = "write" => lau[m].at = "write"
          /\ lau'[m].rec = lau[m].rec /\ lau'[m].cand = lau[m].cand
    BY <1>5 DEF Probe, Check, Typed, LauType
  <2> QED BY <2>1, QuietFresh
<1>6. ASSUME NEW l \in Launchers, Spawn(l) PROVE Fresh'
  <2>1. PICK c \in Collectors, p \in Ports :
          /\ col[c].at = "unborn" /\ col'[c].at = "up" /\ col'[c].port = p
          /\ col' \in [Collectors -> ColType]
          /\ \A d \in Collectors \ {c} : col'[d] = col[d]
          /\ Moved(l, "write", lau[l].rec, [pid |-> c, port |-> p], lau[l].port)
    BY <1>6, SpawnMoves
  <2>2. lau[l].at \in {"spawn", "again"} /\ lease' = lease /\ c # None
    BY <1>6, CollectorConstants DEF Spawn
  <2>3. \A m \in Launchers \ {l} : lau'[m] = lau[m] /\ lau[m].at # "write"
    BY <2>1, <2>2, HolderAlone DEF Moved, Locked
  <2>4. lau'[l].cand.pid = c /\ lau'[l].rec = lau[l].rec
    BY <2>1 DEF Moved
  <2>5. lease.pid # c /\ \A m \in Launchers : lau[m].rec.pid # c /\ lau[m].cand.pid # c
    BY <2>1, <2>2 DEF NamesTrue, Named
  <2> QED BY <2>2, <2>3, <2>4, <2>5 DEF Fresh
<1>7. ASSUME NEW l \in Launchers, SpawnFails(l) \/ PortTaken(l) PROVE Fresh'
  <2>1. lease' = lease
    BY <1>7 DEF SpawnFails, PortTaken
  <2>2. /\ lau'[l].at \in {"again", "alone", "up"} /\ lau'[l].rec = lau[l].rec
        /\ lau'[l].cand \in {lau[l].cand, NoLease}
        /\ \A m \in Launchers \ {l} : lau'[m] = lau[m]
    BY <1>7, FailMoves, AgainMoves DEF PortTaken, Moved
  <2> QED BY <2>1, <2>2, QuietFresh
<1>8. ASSUME NEW l \in Launchers, WriteLease(l) PROVE Fresh'
  <2>1. \A m \in Launchers : lau'[m].at # "write"
    BY <1>8, HolderAlone DEF WriteLease, Typed, LauType, Locked
  <2> QED BY <2>1 DEF Fresh
<1>9. ASSUME NEW l \in Launchers, Attach(l) PROVE Fresh'
  <2>1. /\ lease' = lease /\ lau[l].at = "attach" /\ lau'[l].at \in {"alone", "up"}
        /\ lau'[l].rec \in {lau[l].rec, lau[l].cand} /\ lau'[l].cand = NoLease
        /\ \A m \in Launchers \ {l} : lau'[m] = lau[m]
    BY <1>9, AttachMoves, GivesUpMoves DEF Attach, Moved
  <2> QED BY <2>1, QuietFresh
<1>11. ASSUME NEW l \in Launchers, Quit(l) PROVE Fresh'
  BY <1>11, QuitKnows, QuietFresh DEF Moved, Quit
<1>12. ASSUME NEW l \in Launchers, Die(l) PROVE Fresh'
  <2>1. lease' = lease /\ \A m \in Launchers :
          /\ lau'[m].at = "write" => lau[m].at = "write"
          /\ lau'[m].rec = lau[m].rec /\ lau'[m].cand = lau[m].cand
    BY <1>12 DEF Die, Typed, LauType
  <2> QED BY <2>1, QuietFresh
<1>13. ASSUME NEW c \in Collectors, Ticks(c) \/ Crash(c) PROVE Fresh'
  BY <1>13, TickKeeps, QuietFresh
<1> QED
  BY <1>1, <1>2, <1>3, <1>4, <1>5, <1>6, <1>7, <1>8, <1>9, <1>11, <1>12, <1>13
     DEF Next, Ensures

\* A collector that decides while a launcher watches it, and was not cut, would
\* be the lease's own, or one that nobody knows yet.
LEMMA CutIfSuperseded ==
  ASSUME Typed, OfTheLease, HolderKnows, Fresh, NEW c \in Collectors, NEW l \in Launchers,
         col[c].at = "up", Superseded(c), lau[l].rec.pid = c
  PROVE  c \in cut
<1> SUFFICES ASSUME c \notin cut PROVE FALSE
  OBVIOUS
<1>1. c \in Counted /\ lease.pid # c
  BY DEF Counted, Serving, Superseded
<1>2. PICK m \in Launchers : lau[m].at = "write"
  BY <1>1 DEF OfTheLease
<1>3. lau[m].cand.pid = c
  BY <1>1, <1>2 DEF HolderKnows
<1> QED BY <1>2, <1>3 DEF Fresh

\* Nothing closes, and who watches watched before.
LEMMA QuietLeft ==
  ASSUME LeftKnowing, cut \subseteq cut', overlooked' = overlooked,
         \A c \in Collectors : col'[c].at = "closing" => col[c].at = "closing",
         \A m \in Launchers :
           lau'[m].at \in Live /\ lau'[m].port # None =>
             lau[m].at \in Live /\ lau[m].port # None /\ lau'[m].rec = lau[m].rec
  PROVE  LeftKnowing'
<1>1. ASSUME NEW c \in Collectors, NEW m \in Launchers, col'[c].at = "closing",
             lau'[m].at \in Live, lau'[m].port # None, lau'[m].rec.pid = c
      PROVE  c \in cut' \/ m \in overlooked'
  <2>1. col[c].at = "closing" /\ Watching(m, c)
    BY <1>1 DEF Watching
  <2> QED BY <2>1 DEF LeftKnowing
<1> QED BY <1>1 DEF LeftKnowing, Watching

LEMMA LeftKept ==
  ASSUME Typed, NamesTrue, OfTheLease, HolderKnows, StillKnown, Fresh, LeftKnowing, Next
  PROVE  LeftKnowing'
<1>l. {"lock", "read", "probe", "spawn", "again", "write", "attach", "up"} = Live
  BY DEF Live
<1>i. \A m \in Launchers : /\ lau[m].at = "idle" => lau[m].port = None
                           /\ lau[m].at = "up" => lau[m].port # None
  BY DEF StillKnown
<1>1. ASSUME NEW l \in Launchers, Start(l) PROVE LeftKnowing'
  BY <1>1, <1>i, <1>l, StartMoves, QuietLeft DEF Moved, Start
<1>2. ASSUME NEW l \in Launchers, Lock(l) PROVE LeftKnowing'
  BY <1>2, <1>l, LockMoves, QuietLeft DEF Moved, Lock
<1>3. ASSUME NEW l \in Launchers, LockBusy(l) \/ LeaseFails(l) \/ AttachLost(l) PROVE LeftKnowing'
  <2>1. /\ GivesUp(l) /\ overlooked' = overlooked /\ cut \subseteq cut'
        /\ lau[l].at \in {"lock", "write", "attach"}
    BY <1>3 DEF LockBusy, LeaseFails, AttachLost
  <2>2. \A c \in Collectors : col'[c].at = col[c].at
    BY <1>3, LostKnows DEF LockBusy, LeaseFails
  <2>3. /\ lau'[l].port = lau[l].port /\ lau'[l].rec = lau[l].rec
        /\ \A m \in Launchers \ {l} : lau'[m] = lau[m]
    BY <2>1, GivesUpMoves DEF Moved
  <2> QED BY <1>l, <2>1, <2>2, <2>3, QuietLeft
<1>4. ASSUME NEW l \in Launchers, ReadLease(l) PROVE LeftKnowing'
  BY <1>4, <1>l, ReadMoves, QuietLeft DEF Moved, ReadLease
<1>5. ASSUME NEW l \in Launchers, Probe(l) \/ Check(l) \/ WriteLease(l) PROVE LeftKnowing'
  <2>1. /\ overlooked' = overlooked /\ cut \subseteq cut' /\ col' = col
        /\ lau[l].at \in {"probe", "up", "write"}
        /\ \A m \in Launchers \ {l} : lau'[m] = lau[m]
        /\ lau'[l].port = lau[l].port /\ lau'[l].rec = lau[l].rec
    BY <1>5 DEF Probe, Check, WriteLease, Typed, LauType
  <2> QED BY <1>l, <2>1, QuietLeft
<1>6. ASSUME NEW l \in Launchers, Spawn(l) PROVE LeftKnowing'
  <2>1. PICK c \in Collectors, p \in Ports :
          /\ col[c].at = "unborn" /\ col'[c].at = "up" /\ col'[c].port = p
          /\ col' \in [Collectors -> ColType]
          /\ \A d \in Collectors \ {c} : col'[d] = col[d]
          /\ Moved(l, "write", lau[l].rec, [pid |-> c, port |-> p], lau[l].port)
    BY <1>6, SpawnMoves
  <2>2. lau[l].at \in {"spawn", "again"} /\ UNCHANGED <<cut, overlooked>>
    BY <1>6 DEF Spawn
  <2>3. /\ lau'[l].port = lau[l].port /\ lau'[l].rec = lau[l].rec
        /\ \A m \in Launchers \ {l} : lau'[m] = lau[m]
    BY <2>1 DEF Moved
  <2> QED BY <1>l, <2>1, <2>2, <2>3, QuietLeft
<1>7. ASSUME NEW l \in Launchers, SpawnFails(l) \/ PortTaken(l) PROVE LeftKnowing'
  <2>1. UNCHANGED <<col, cut, overlooked>> /\ lau[l].at \in {"spawn", "again"}
    BY <1>7 DEF SpawnFails, PortTaken
  <2>2. /\ lau'[l].rec = lau[l].rec /\ lau'[l].port = lau[l].port
        /\ \A m \in Launchers \ {l} : lau'[m] = lau[m]
    BY <1>7, FailMoves, AgainMoves DEF PortTaken, Moved
  <2> QED BY <1>l, <2>1, <2>2, QuietLeft
<1>9. ASSUME NEW l \in Launchers, Attach(l) PROVE LeftKnowing'
  <2>1. lau[l].at = "attach" /\ cut' = cut
    BY <1>9 DEF Attach
  <2>2. \A c \in Collectors : col'[c].at = col[c].at
    BY <1>9, AttachKnows
  <2>3. CASE OnPort(lau[l].cand.port) = {}
    <3>1. GivesUp(l) /\ overlooked' = overlooked
      BY <1>9, <2>3 DEF Attach
    <3>2. /\ lau'[l].port = lau[l].port /\ lau'[l].rec = lau[l].rec
          /\ \A m \in Launchers \ {l} : lau'[m] = lau[m]
      BY <3>1, GivesUpMoves DEF Moved
    <3> QED BY <1>l, <2>1, <2>2, <3>1, <3>2, QuietLeft
  <2>4. CASE OnPort(lau[l].cand.port) # {}
    <3>1. Overlooked(l)
      BY <1>9, <2>4 DEF Attach, Attaches
    <3>2. lau'[l].rec = lau[l].cand /\ \A m \in Launchers \ {l} : lau'[m] = lau[m]
      BY <1>9, <2>4, AttachMoves DEF Moved
    <3>3. ASSUME NEW c \in Collectors, NEW m \in Launchers, col'[c].at = "closing",
                 lau'[m].at \in Live, lau'[m].port # None, lau'[m].rec.pid = c
          PROVE  c \in cut' \/ m \in overlooked'
      <4>1. CASE m = l
        <5>1. c = lau[l].cand.pid /\ col[c].at = "closing"
          BY <2>2, <3>2, <3>3, <4>1
        <5>2. c \in Serving
          BY <5>1 DEF Serving
        <5> QED BY <3>1, <4>1, <5>1, <5>2 DEF Overlooked
      <4>2. CASE m # l
        <5>1. col[c].at = "closing" /\ Watching(m, c)
          BY <2>2, <3>2, <3>3, <4>2 DEF Watching
        <5>2. c \in cut \/ m \in overlooked
          BY <5>1 DEF LeftKnowing
        <5> QED BY <2>1, <3>1, <4>2, <5>2 DEF Overlooked
      <4> QED BY <4>1, <4>2
    <3> QED BY <3>3 DEF LeftKnowing, Watching
  <2> QED BY <2>3, <2>4
<1>11. ASSUME NEW l \in Launchers, Quit(l) PROVE LeftKnowing'
  <2>1. UNCHANGED <<cut, overlooked>>
    BY <1>11 DEF Quit
  <2>2. /\ lau'[l].at = "gone" /\ \A m \in Launchers \ {l} : lau'[m] = lau[m]
        /\ \A c \in Collectors : col'[c].at = col[c].at
    BY <1>11, QuitKnows DEF Moved
  <2> QED BY <1>l, <2>1, <2>2, QuietLeft
<1>12. ASSUME NEW l \in Launchers, Die(l) PROVE LeftKnowing'
  <2>1. /\ lau'[l].at = "gone" /\ \A m \in Launchers \ {l} : lau'[m] = lau[m]
        /\ col' = col /\ cut \subseteq cut' /\ overlooked' = overlooked
    BY <1>12 DEF Die, Typed, LauType
  <2> QED BY <1>l, <2>1, QuietLeft
<1>13. ASSUME NEW d \in Collectors, Leave(d) PROVE LeftKnowing'
  <2>1. UNCHANGED <<lau, cut, overlooked>> /\ \A c \in Collectors \ {d} : col'[c] = col[c]
    BY <1>13 DEF Leave, Decides, Typed
  <2>2. ASSUME NEW m \in Launchers, Watching(m, d) PROVE d \in cut
    <3>1. d \in Serving /\ col[d].at = "up"
      BY <1>13 DEF Leave, Serving
    <3>2. m \in col[d].attached
      BY <2>2, <3>1 DEF StillKnown, Watching
    <3>3. Superseded(d)
      BY <1>13, <3>2 DEF Leave
    <3> QED BY <2>2, <3>1, <3>3, CutIfSuperseded DEF Watching
  <2>3. ASSUME NEW c \in Collectors, NEW m \in Launchers, col'[c].at = "closing",
               lau'[m].at \in Live, lau'[m].port # None, lau'[m].rec.pid = c
        PROVE  c \in cut' \/ m \in overlooked'
    <3>1. Watching(m, c)
      BY <2>1, <2>3 DEF Watching
    <3>2. CASE c = d
      BY <2>1, <2>2, <3>1, <3>2
    <3>3. CASE c # d
      BY <2>1, <2>3, <3>1, <3>3 DEF LeftKnowing
    <3> QED BY <3>2, <3>3
  <2> QED BY <2>3 DEF LeftKnowing, Watching
<1>14. ASSUME NEW d \in Collectors, Prune(d) \/ GraceOver(d) \/ Shutdown(d) \/ Exit(d) \/ Crash(d)
       PROVE  LeftKnowing'
  <2>1. UNCHANGED <<lau, cut, overlooked>>
    BY <1>14 DEF Prune, GraceOver, Shutdown, Exit, Crash
  <2>2. \A c \in Collectors : col'[c].at = "closing" => col[c].at = "closing"
    BY <1>14 DEF Prune, GraceOver, Shutdown, Exit, Crash, Typed, ColType
  <2> QED BY <2>1, <2>2, QuietLeft
<1> QED
  BY <1>1, <1>2, <1>3, <1>4, <1>5, <1>6, <1>7, <1>9, <1>11, <1>12, <1>13, <1>14
     DEF Next, Ensures, Ticks

-----------------------------------------------------------------------------
LEMMA ColInvariant == Spec => []ColInv
<1>1. ColInv /\ Next => ColInv'
  <2> SUFFICES ASSUME ColInv, Next PROVE ColInv'
    OBVIOUS
  <2>1. Typed'
    BY TypedKept DEF ColInv
  <2>2. (\A l \in Launchers : lock = l <=> lau[l].at \in Locked)'
    BY LockKept DEF ColInv
  <2>3. TypeOK'
    BY <2>1, <2>2 DEF TypeOK, Typed, ColType, LauType, Locked
  <2>4. NamesTrue' /\ StillKnown'
    BY NamesKept, KnownKept DEF ColInv
  <2>5. (OfTheLease /\ HolderKnows)'
    BY CountKept DEF ColInv
  <2>6. Fresh' /\ LeftKnowing'
    BY FreshKept, LeftKept DEF ColInv
  <2> QED BY <2>1, <2>3, <2>4, <2>5, <2>6 DEF ColInv
<1>2. ColInv /\ UNCHANGED vars => ColInv'
  BY DEF ColInv, TypeOK, Typed, NamesTrue, Named, OfTheLease, HolderKnows, StillKnown, Counted,
         Serving, Fresh, LeftKnowing, Watching, vars
<1> QED BY <1>1, <1>2, InitHolds, PTL DEF Spec

\* Concurrent launches start one collector, whose launchers it knows, for any
\* number of launchers, collectors, ports and faults of the five kinds.
THEOREM CollectorStaysSound == Spec => []CollectorSound
<1>1. ColInv => CollectorSound
  <2> SUFFICES ASSUME ColInv PROVE Cardinality(Counted) <= 1 /\ Registered
    BY DEF ColInv, CollectorSound, OneCollector, Counted
  <2>1. \A c, d \in Counted : c = d
    <3>1. CASE \E l \in Launchers : lau[l].at = "write"
      BY <3>1 DEF ColInv, HolderKnows
    <3>2. CASE \A l \in Launchers : lau[l].at # "write"
      BY <3>2 DEF ColInv, OfTheLease
    <3> QED BY <3>1, <3>2
  <2>2. Registered
    BY DEF Registered, ColInv, StillKnown, Live
  <2>3. CASE Counted = {}
    <3>1. Cardinality({}) = 0
      BY FS_EmptySet
    <3> QED BY <2>3, <3>1, <2>2
  <2>4. CASE Counted # {}
    <3>1. PICK c : Counted = {c}
      BY <2>1, <2>4
    <3>2. Cardinality({c}) = 1
      BY FS_Singleton
    <3> QED BY <3>1, <3>2, <2>2
  <2> QED BY <2>3, <2>4
<1> QED BY <1>1, ColInvariant, PTL

\* A collector decides to leave a launcher that watches it only when the lease
\* names another one that is alive, and closes its listener under one only when
\* it had been cut or the launcher came after the decision, whatever crashes, is
\* lost, fails or comes late.
THEOREM WatchedAreNotLeft == Spec => NotAbandoned
<1> DEFINE Stays ==
      \A c \in Collectors, l \in Launchers : lau[l].at = "up" /\ lau[l].rec.pid = c =>
        /\ col[c].at = "up" /\ col'[c].at = "closing" => lease.pid # c /\ PIDAlive(lease.pid)
        /\ col[c].at = "closing" /\ col'[c].at = "leaving" => c \in cut \/ l \in overlooked
<1>1. ColInv /\ Next => Stays
  <2> SUFFICES ASSUME ColInv, Next, NEW c \in Collectors, NEW l \in Launchers,
                      lau[l].at = "up", lau[l].rec.pid = c
               PROVE  /\ col[c].at = "up" /\ col'[c].at = "closing" =>
                           lease.pid # c /\ PIDAlive(lease.pid)
                      /\ col[c].at = "closing" /\ col'[c].at = "leaving" =>
                           c \in cut \/ l \in overlooked
    OBVIOUS
  <2>1. Watching(l, c)
    BY DEF Watching, ColInv, StillKnown, Live
  <2>2. ASSUME col[c].at = "up", col'[c].at = "closing"
        PROVE  lease.pid # c /\ PIDAlive(lease.pid)
    <3>1. Typed
      BY DEF ColInv
    <3>2. ASSUME NEW m \in Launchers, LauStep(m) PROVE FALSE
      <4>1. col' # col
        BY <2>2
      <4>2. Spawn(m) \/ Attach(m) \/ AttachLost(m) \/ Quit(m)
        BY <3>2, <4>1
           DEF LauStep, Ensures, Start, Lock, LockBusy, ReadLease, Probe, PortTaken, SpawnFails,
               WriteLease, LeaseFails, Check, Die
      <4> QED BY <2>2, <3>1, <4>2, SpawnMoves, AttachKnows, LostKnows, QuitKnows
    <3>3. PICK d \in Collectors : Ticks(d) \/ Crash(d)
      BY <3>2 DEF Next, LauStep
    <3>4. Leave(c)
      BY <2>2, <3>1, <3>3
         DEF Ticks, Prune, GraceOver, Leave, Decides, Shutdown, Exit, Crash, Typed, ColType
    <3>5. l \in col[c].attached
      BY <2>1, <2>2 DEF ColInv, StillKnown, Serving, Watching
    <3> QED BY <3>4, <3>5 DEF Leave, Superseded
  <2>3. ASSUME col[c].at = "closing" PROVE c \in cut \/ l \in overlooked
    BY <2>1, <2>3 DEF ColInv, LeftKnowing
  <2> QED BY <2>2, <2>3
<1> QED BY <1>1, ColInvariant, PTL DEF Spec, NotAbandoned

-----------------------------------------------------------------------------
(***************************************************************************)
(* The raw log.                                                            *)
(***************************************************************************)

Lines == 0 .. MaxRecords
Tars == [at : {"none", "partial", "whole"}, lines : Seq(Lines)]
FinType == [at : FinSteps, size : 0 .. Line * MaxRecords + 1, seen : SUBSET Records]

\* Every line of the log and of the archive is of a record that was emitted and
\* is staged no more.
TextsFit ==
  /\ live \in Seq(Lines) /\ staged \in Seq(Records) /\ emitted \in 0 .. MaxRecords
  /\ archive \in Tars
  /\ Len(live) + Len(staged) <= emitted
  /\ Len(archive.lines) + Len(staged) <= emitted
FlagsFit ==
  /\ exists \in BOOLEAN /\ torn \in BOOLEAN /\ ended \in BOOLEAN /\ quiet \in BOOLEAN
  /\ rolled \subseteq Records /\ kept \subseteq Records
  /\ sink \in {"closed", "open", "unlinked"}
  /\ failed \in BOOLEAN /\ used \subseteq Ops /\ mishaps \in 0 .. MaxMishaps
  /\ ~exists => live = <<>> /\ ~torn /\ marker = Missing
  /\ sink = "open" => exists
  /\ torn => "torn" \in used
LogFits == TextsFit /\ FlagsFit
ReadersFit ==
  /\ fin \in [Finalizers -> FinType] /\ swp \in [Sweepers -> SwpSteps]
  /\ marker \in Missing .. Line * MaxRecords + 2
  /\ idx.at \in 0 .. Line * MaxRecords + 2 /\ idx.seen \subseteq Records

\* A session that neither resumes nor pauses for the whole window writes no more
\* once anyone finalizes, archives or finds its log gone.
Steady == used \cap {"idle", "resume"} = {}
AtEnd ==
  Steady =>
    /\ ended => sink = "closed"
    /\ quiet \/ archive.at # "none" => ended
    /\ \A s \in Sweepers : swp[s] # "idle" => ended
    /\ \A f \in Finalizers : fin[f].at # "idle" => ended
    /\ ~exists /\ ~ended => kept = {} /\ idx.at = 0
    /\ ~ended /\ "reindex" \notin used => marker = Missing

LogInv == LogFits /\ ReadersFit /\ AtEnd

\* With one sweep at a time, the tarball is complete before the log goes.
Plain == used \cap {"overlap", "idle", "resume"} = {}
KeptSomewhere ==
  Plain =>
    /\ kept \subseteq IF exists THEN Good(live) ELSE Archived
    /\ archive.at = "whole" => kept \subseteq Archived
    /\ \A s \in Sweepers : swp[s] # "idle" =>
         /\ exists /\ \A t \in Sweepers : swp[t] # "idle" => t = s
         /\ swp[s] = "remove" => archive.at = "whole"

-----------------------------------------------------------------------------
\* What a longer sequence of lines keeps of a shorter one.
LEMMA Longer ==
  ASSUME NEW S, NEW s \in Seq(S), NEW t \in Seq(S)
  PROVE  /\ s \o t \in Seq(S) /\ Len(s \o t) = Len(s) + Len(t)
         /\ \A i \in 1 .. Len(s) : (s \o t)[i] = s[i]
         /\ Range(s) \subseteq Range(s \o t) /\ Range(t) \subseteq Range(s \o t)
<1>1. /\ s \o t \in Seq(S) /\ Len(s \o t) = Len(s) + Len(t)
      /\ \A i \in 1 .. Len(s) : (s \o t)[i] = s[i]
      /\ \A i \in 1 .. Len(t) : (s \o t)[Len(s) + i] = t[i]
  OBVIOUS
<1>2. /\ DOMAIN s = 1 .. Len(s) /\ DOMAIN t = 1 .. Len(t)
      /\ DOMAIN (s \o t) = 1 .. Len(s) + Len(t) /\ Len(s) \in Nat /\ Len(t) \in Nat
  BY <1>1
<1>3. Range(s) \subseteq Range(s \o t)
  BY <1>1, <1>2 DEF Range
<1>4. Range(t) \subseteq Range(s \o t)
  <2> SUFFICES ASSUME NEW i \in 1 .. Len(t) PROVE t[i] \in Range(s \o t)
    BY <1>2 DEF Range
  <2>1. Len(s) + i \in DOMAIN (s \o t) /\ (s \o t)[Len(s) + i] = t[i]
    BY <1>1, <1>2
  <2> QED BY <2>1 DEF Range
<1> QED BY <1>1, <1>3, <1>4

\* The records of a log are records.
LEMMA GoodRecords ==
  ASSUME NEW s \in Seq(Lines) PROVE Good(s) \subseteq Records
BY TelemetryConstants DEF Good, Range, Lines, Records

\* What a flush of the buffer, after a torn tail or not, makes of the log.
Grown(lines) ==
  /\ lines \in Seq(Lines) /\ Len(lines) = Len(live) + Len(staged)
  /\ \A i \in 1 .. Len(live) : lines[i] = live[i]
  /\ Good(live) \subseteq Good(lines)

LEMMA FlushGrows ==
  ASSUME LogFits, staged # <<>>
  PROVE  /\ Grown(Appended(staged)) /\ Grown(live \o staged)
         /\ Range(staged) \subseteq Good(live \o staged)
<1>1. live \in Seq(Lines) /\ staged \in Seq(Lines) /\ staged \in Seq(Records)
  BY TelemetryConstants DEF LogFits, TextsFit, FlagsFit, Lines, Records
<1>2. Grown(live \o staged)
  BY <1>1, Longer DEF Grown, Good
<1>3. Range(staged) \subseteq Good(live \o staged)
  <2>1. 0 \notin Range(staged)
    <3>1. \A i \in DOMAIN staged : staged[i] \in Records
      BY <1>1
    <3> QED BY <3>1 DEF Range, Records
  <2> QED BY <1>1, <2>1, Longer DEF Good
<1>4. Grown(live \o <<0>> \o Tail(staged))
  <2>1. <<0>> \in Seq(Lines) /\ Tail(staged) \in Seq(Lines) /\ Len(Tail(staged)) = Len(staged) - 1
    BY <1>1, TelemetryConstants DEF Lines
  <2>2. live \o <<0>> \in Seq(Lines) /\ Len(live \o <<0>>) = Len(live) + 1
    BY <1>1, <2>1, Longer
  <2>3. Range(live) \subseteq Range(live \o <<0>> \o Tail(staged))
    BY <1>1, <2>1, <2>2, Longer
  <2>4. \A i \in 1 .. Len(live) : (live \o <<0>> \o Tail(staged))[i] = live[i]
    BY <1>1, <2>1, <2>2, Longer
  <2>5. /\ live \o <<0>> \o Tail(staged) \in Seq(Lines)
        /\ Len(live \o <<0>> \o Tail(staged)) = Len(live) + Len(staged)
    BY <1>1, <2>1, <2>2, Longer
  <2> QED BY <2>3, <2>4, <2>5 DEF Grown, Good
<1> QED BY <1>2, <1>3, <1>4 DEF Appended

LEMMA LogInitHolds == LogInit => LogInv /\ KeptSomewhere
<1> SUFFICES ASSUME LogInit PROVE LogInv /\ KeptSomewhere
  OBVIOUS
<1>1. LogFits
  <2>1. <<>> \in Seq(Lines) /\ <<>> \in Seq(Records) /\ Len(<<>>) = 0
    OBVIOUS
  <2>2. archive \in Tars /\ Len(archive.lines) = 0
    BY <2>1 DEF LogInit, NoTar, Tars
  <2>3. TextsFit
    BY <2>1, <2>2, TelemetryConstants DEF LogInit, TextsFit
  <2>4. FlagsFit
    <3>1. mishaps \in 0 .. MaxMishaps
      BY TelemetryConstants DEF LogInit
    <3>2. /\ exists \in BOOLEAN /\ torn \in BOOLEAN /\ ended \in BOOLEAN
          /\ quiet \in BOOLEAN /\ failed \in BOOLEAN
      BY DEF LogInit
    <3>3. ~exists /\ ~torn /\ live = <<>> /\ marker = Missing /\ sink = "closed"
      BY DEF LogInit
    <3> QED BY <3>1, <3>2, <3>3 DEF LogInit, FlagsFit
  <2> QED BY <2>3, <2>4 DEF LogFits
<1>2. ReadersFit
  BY TelemetryConstants DEF LogInit, ReadersFit, FinType, FinSteps, SwpSteps, NoRead, Missing,
     Line, Records
<1>3. AtEnd /\ KeptSomewhere
  BY DEF LogInit, AtEnd, KeptSomewhere, NoTar, NoRead, Archived, Good, Range
<1> QED BY <1>1, <1>2, <1>3 DEF LogInv

\* The size of a log is within bounds, torn or not.
LEMMA SizeBound ==
  ASSUME LogFits
  PROVE  Size \in 0 .. Line * MaxRecords + 1 /\ Size \in Nat
         /\ Size >= Line * Len(live) /\ Size <= Line * Len(live) + 1
<1>1. Len(live) \in Nat /\ Len(staged) \in Nat /\ Len(live) <= MaxRecords /\ MaxRecords \in Nat
  BY TelemetryConstants DEF LogFits, TextsFit, FlagsFit
<1> QED BY <1>1 DEF Size, Line

SinkStep == OpenSink \/ Emit \/ Flush \/ FlushPart \/ FlushRest
            \/ (\E end \in BOOLEAN : CloseSink(end)) \/ KillCollector \/ GoQuiet
FinStep(f) == FinStart(f) \/ FinRead(f) \/ FinRollup(f) \/ FinPublish(f) \/ FinAbort(f)
SweepStep(s) == SweepJudges(s) \/ SweepCreates(s) \/ SweepCopies(s) \/ SweepRemoves(s)
                \/ SweepDies(s)

-----------------------------------------------------------------------------
\* Types.
LEMMA SinkKeepsFits ==
  ASSUME LogFits, ReadersFit, SinkStep PROVE LogFits' /\ ReadersFit'
<1> USE TelemetryConstants
<1>0. Len(live) \in Nat /\ Len(staged) \in Nat /\ Len(archive.lines) \in Nat
  BY DEF LogFits, TextsFit, FlagsFit, Tars
<1>1. CASE OpenSink
  BY <1>0, <1>1 DEF OpenSink, LogFits, TextsFit, FlagsFit, ReadersFit, Missing, Line
<1>2. CASE Emit
  <2>1. staged' \in Seq(Records) /\ Len(staged') = Len(staged) + 1 /\ emitted' \in 0 .. MaxRecords
    BY <1>2 DEF Emit, LogFits, TextsFit, Records
  <2>2. TextsFit'
    <3>1. UNCHANGED <<live, archive>> /\ emitted' = emitted + 1 /\ emitted \in Nat
      BY <1>2 DEF Emit, logVars, LogFits, TextsFit
    <3>2. /\ Len(live) + Len(staged) <= emitted
          /\ Len(archive.lines) + Len(staged) <= emitted
      BY DEF LogFits, TextsFit
    <3>3. Len(live') + Len(staged') <= emitted'
      BY <1>0, <2>1, <3>1, <3>2
    <3>4. Len(archive'.lines) + Len(staged') <= emitted'
      <4> DEFINE n == Len(archive.lines)  m == Len(staged)
      <4>1. Len(archive'.lines) = n /\ n \in Nat /\ m \in Nat /\ n + m <= emitted
        BY <1>0, <3>1, <3>2
      <4>2. Len(staged') = m + 1
        BY <2>1
      <4> HIDE DEF n, m
      <4> QED BY <3>1, <4>1, <4>2
    <3> QED BY <2>1, <3>1, <3>3, <3>4 DEF LogFits, TextsFit
  <2> QED BY <1>2, <2>2 DEF Emit, LogFits, FlagsFit, ReadersFit, logVars
<1>3. CASE Flush
  <2>1. staged' = <<>> /\ staged' \in Seq(Records) /\ Len(staged') = 0
    BY <1>3 DEF Flush
  <2>2. CASE sink = "open"
    <3>1. live' \in Seq(Lines) /\ Len(live') = Len(live) + Len(staged)
      BY <1>3, <2>2, FlushGrows DEF Flush, Grown
    <3>2. kept' \subseteq Records
      BY <1>3, <2>2, <3>1, GoodRecords DEF Flush, LogFits, TextsFit, FlagsFit
    <3>3. TextsFit'
      BY <1>0, <1>3, <2>1, <2>2, <3>1 DEF Flush, LogFits, TextsFit
    <3>4. FlagsFit'
      BY <1>3, <2>2, <3>2 DEF Flush, LogFits, FlagsFit
    <3> QED BY <1>3, <3>3, <3>4 DEF Flush, ReadersFit, LogFits
  <2>3. CASE sink # "open"
    BY <1>0, <1>3, <2>1, <2>3 DEF Flush, LogFits, TextsFit, FlagsFit, ReadersFit
  <2> QED BY <2>2, <2>3
<1>4. CASE FlushPart
  BY <1>4 DEF FlushPart, LogFits, TextsFit, FlagsFit, ReadersFit
<1>5. CASE FlushRest
  <2>1. staged' = <<>> /\ staged' \in Seq(Records) /\ Len(staged') = 0
    BY <1>5 DEF FlushRest
  <2>2. live' \in Seq(Lines) /\ Len(live') = Len(live) + Len(staged)
    BY <1>5, FlushGrows DEF FlushRest, Grown
  <2>3. kept' \subseteq Records
    <3>1. Range(staged) \subseteq Good(live')
      BY <1>5, FlushGrows DEF FlushRest
    <3> QED BY <1>5, <2>2, <3>1, GoodRecords DEF FlushRest, LogFits, TextsFit, FlagsFit
  <2>4. TextsFit'
    BY <1>0, <1>5, <2>1, <2>2 DEF FlushRest, LogFits, TextsFit
  <2>5. FlagsFit'
    BY <1>5, <2>3 DEF FlushRest, LogFits, FlagsFit
  <2> QED BY <1>5, <2>4, <2>5 DEF FlushRest, ReadersFit, LogFits
<1>6. ASSUME NEW end \in BOOLEAN, CloseSink(end) PROVE LogFits' /\ ReadersFit'
  BY <1>6 DEF CloseSink, LogFits, TextsFit, FlagsFit, ReadersFit, logVars
<1>7. CASE KillCollector
  <2>1. staged' \in Seq(Records) /\ Len(staged') = 0
    BY <1>7 DEF KillCollector
  <2> QED BY <1>0, <1>7, <2>1 DEF KillCollector, LogFits, TextsFit, FlagsFit, ReadersFit, logVars
<1>8. CASE GoQuiet
  BY <1>8 DEF GoQuiet, LogFits, TextsFit, FlagsFit, ReadersFit, logVars
<1> QED BY <1>1, <1>2, <1>3, <1>4, <1>5, <1>6, <1>7, <1>8 DEF SinkStep

LEMMA FinKeepsFits ==
  ASSUME LogFits, ReadersFit, NEW f \in Finalizers, FinStep(f) PROVE LogFits' /\ ReadersFit'
<1> USE TelemetryConstants
<1>1. fin[f] \in FinType
  BY DEF ReadersFit
<1>2. LogFits'
  <2>1. rolled' \subseteq Records
    BY <1>1 DEF FinStep, FinStart, FinRead, FinRollup, FinPublish, FinAbort, logVars, LogFits, TextsFit, FlagsFit,
       FinType
  <2>2. ~exists => marker' = Missing
    BY DEF FinStep, FinStart, FinRead, FinRollup, FinPublish, FinAbort, logVars, LogFits, TextsFit, FlagsFit
  <2>3. mishaps' \in 0 .. MaxMishaps
    BY DEF FinStep, FinStart, FinRead, FinRollup, FinPublish, FinAbort, LogFits, TextsFit, FlagsFit
  <2>5. failed' \in BOOLEAN
    BY DEF FinStep, FinStart, FinRead, FinRollup, FinPublish, FinAbort, LogFits, TextsFit, FlagsFit
  <2>4. UNCHANGED <<live, exists, torn, archive, sinkVars, used>>
    BY DEF FinStep, FinStart, FinRead, FinRollup, FinPublish, FinAbort, logVars
  <2> QED BY <2>1, <2>2, <2>3, <2>4, <2>5 DEF LogFits, TextsFit, FlagsFit, sinkVars
<1>3. \E j \in FinType : fin' = [fin EXCEPT ![f] = j]
  <2>0. NoRead \in FinType
    BY DEF NoRead, FinType, FinSteps, Line
  <2>1. CASE FinStart(f)
    BY <2>1, SizeBound DEF FinStart, FinType, FinSteps
  <2>2. CASE FinRead(f)
    <3>1. CASE exists
      <4>1. Prefix(live, fin[f].size) \in Seq(Lines)
        <5>1. live \in Seq(Lines) /\ fin[f].size \in Nat
          BY <1>1 DEF LogFits, TextsFit, FlagsFit, FinType, Line
        <5>2. CASE fin[f].size > Line * Len(live)
          BY <5>1, <5>2 DEF Prefix
        <5>3. CASE ~(fin[f].size > Line * Len(live))
          <6>1. (fin[f].size + Line - 1) \div Line \in 0 .. Len(live)
            BY <5>1, <5>3 DEF Line
          <6> QED BY <5>1, <5>3, <6>1 DEF Prefix
        <5> QED BY <5>2, <5>3
      <4>2. Good(Prefix(live, fin[f].size)) \in SUBSET Records
        BY <4>1, GoodRecords
      <4> DEFINE j == [fin[f] EXCEPT !.at = "rollup", !.seen = Good(Prefix(live, fin[f].size))]
      <4>3. j \in FinType
        BY <1>1, <4>2 DEF FinType, FinSteps
      <4> QED BY <2>2, <3>1, <4>3 DEF FinRead
    <3>2. CASE ~exists
      BY <2>0, <2>2, <3>2 DEF FinRead
    <3> QED BY <3>1, <3>2
  <2>3. CASE FinRollup(f)
    <3> DEFINE j == [fin[f] EXCEPT !.at = "publish"]
    <3>1. j \in FinType
      BY <1>1 DEF FinType, FinSteps
    <3> QED BY <2>3, <3>1 DEF FinRollup
  <2>4. CASE FinPublish(f) \/ FinAbort(f)
    BY <2>0, <2>4 DEF FinPublish, FinAbort
  <2> QED BY <2>1, <2>2, <2>3, <2>4 DEF FinStep
<1>4. fin' \in [Finalizers -> FinType]
  BY <1>3 DEF ReadersFit
<1>5. marker' \in Missing .. Line * MaxRecords + 2
  <2>1. fin[f].size \in 0 .. Line * MaxRecords + 1
    BY <1>1 DEF FinType
  <2> QED BY <2>1 DEF FinStep, FinStart, FinRead, FinRollup, FinPublish, FinAbort, logVars,
         ReadersFit, Missing, Line
<1>6. UNCHANGED <<swp, idx>>
  BY DEF FinStep, FinStart, FinRead, FinRollup, FinPublish, FinAbort
<1> QED BY <1>2, <1>4, <1>5, <1>6 DEF ReadersFit

\* What a sweep leaves of the tarball.
LEMMA TarsFit ==
  ASSUME LogFits, NEW a \in {archive, NoTar, Partial, Whole(live)}
  PROVE  a \in Tars /\ Len(a.lines) + Len(staged) <= emitted
<1>1. <<>> \in Seq(Lines) /\ Len(<<>>) = 0
  OBVIOUS
<1>2. Len(live) \in Nat /\ Len(staged) \in Nat /\ emitted \in Nat
  BY DEF LogFits, TextsFit, FlagsFit
<1>3. CASE a = archive
  BY <1>3 DEF LogFits, TextsFit, FlagsFit
<1>4. CASE a \in {NoTar, Partial}
  <2>1. a.lines = <<>>
    BY <1>4 DEF NoTar, Partial
  <2>3. NoTar \in Tars /\ Partial \in Tars
    BY <1>1 DEF NoTar, Partial, Tars
  <2>2. Len(staged) <= emitted
    BY <1>2 DEF LogFits, TextsFit, FlagsFit
  <2> QED BY <1>1, <1>2, <1>4, <2>1, <2>2, <2>3
<1>5. CASE a = Whole(live)
  <2>1. a.lines = live /\ a \in Tars
    BY <1>5 DEF Whole, Tars, LogFits, TextsFit, FlagsFit
  <2> QED BY <2>1 DEF LogFits, TextsFit, FlagsFit
<1> QED BY <1>3, <1>4, <1>5

LEMMA SweepKeepsFits ==
  ASSUME LogFits, ReadersFit, NEW s \in Sweepers, SweepStep(s) PROVE LogFits' /\ ReadersFit'
<1> USE TelemetryConstants
<1>1. swp' \in [Sweepers -> SwpSteps]
  BY DEF SweepStep, SweepJudges, SweepCreates, SweepCopies, SweepRemoves, SweepDies, SwpSteps,
     ReadersFit
<1>2. mishaps' \in 0 .. MaxMishaps
  BY DEF SweepStep, SweepJudges, SweepCreates, SweepCopies, SweepRemoves, SweepDies, LogFits, TextsFit, FlagsFit
<1>3. CASE SweepJudges(s)
  BY <1>1, <1>2, <1>3 DEF SweepJudges, LogFits, TextsFit, FlagsFit, ReadersFit, logVars, sinkVars
<1>4. CASE SweepCreates(s)
  <2>1. archive' \in {archive, NoTar, Partial, Whole(live)}
    BY <1>4 DEF SweepCreates
  <2>2. LogFits'
    BY <1>2, <1>4, <2>1, TarsFit DEF SweepCreates, LogFits, TextsFit, FlagsFit, sinkVars
  <2> QED BY <1>1, <1>4, <2>2 DEF SweepCreates, ReadersFit, sinkVars
<1>5. CASE SweepCopies(s)
  <2>1. archive' \in {archive, NoTar, Partial, Whole(live)}
    BY <1>5 DEF SweepCopies
  <2>2. LogFits'
    BY <1>2, <1>5, <2>1, TarsFit DEF SweepCopies, LogFits, TextsFit, FlagsFit, sinkVars
  <2> QED BY <1>1, <1>5, <2>2 DEF SweepCopies, ReadersFit, sinkVars
<1>6. CASE SweepRemoves(s)
  <2>1. live' \in Seq(Lines) /\ Len(live') = 0 /\ Len(live) \in Nat /\ Len(staged) \in Nat
    BY <1>6 DEF SweepRemoves, LogFits, TextsFit, FlagsFit
  <2>4. Len(live') + Len(staged) <= emitted /\ sink' \in {"closed", "open", "unlinked"}
        /\ sink' # "open"
    BY <1>6, <2>1 DEF SweepRemoves, LogFits, TextsFit, FlagsFit
  <2>2. LogFits'
    BY <1>2, <1>6, <2>1, <2>4 DEF SweepRemoves, LogFits, TextsFit, FlagsFit
  <2>3. marker' \in Missing .. Line * MaxRecords + 2
    BY <1>6 DEF SweepRemoves, Missing, Line
  <2> QED BY <1>1, <1>6, <2>2, <2>3 DEF SweepRemoves, ReadersFit
<1>7. CASE SweepDies(s)
  <2>1. marker' \in {Missing, marker}
    BY <1>7 DEF SweepDies
  <2>2. marker' \in Missing .. Line * MaxRecords + 2
    BY <2>1 DEF ReadersFit, Missing, Line
  <2> QED BY <1>1, <1>2, <1>7, <2>1, <2>2 DEF SweepDies, LogFits, TextsFit, FlagsFit, ReadersFit, sinkVars
<1> QED BY <1>3, <1>4, <1>5, <1>6, <1>7 DEF SweepStep

LEMMA RestoreKeepsFits ==
  ASSUME LogFits, ReadersFit, Restore PROVE LogFits' /\ ReadersFit'
<1>1. live' \in Seq(Lines) /\ Len(live') = Len(archive.lines)
  BY DEF Restore, LogFits, TextsFit, FlagsFit, Tars
<1> QED BY <1>1 DEF Restore, LogFits, TextsFit, FlagsFit, ReadersFit

LEMMA ReindexKeepsFits ==
  ASSUME LogFits, ReadersFit, ReindexPass PROVE LogFits' /\ ReadersFit'
<1> USE TelemetryConstants
<1>1. idx'.at \in 0 .. Line * MaxRecords + 2 /\ marker' = idx'.at
  BY SizeBound DEF ReindexPass, LogFits, TextsFit, FlagsFit, Line
<1>2. idx'.seen \subseteq Records
  <2> DEFINE first == (idx.at + Line - 1) \div Line + 1
  <2>1. first \in Nat /\ first >= 1 /\ live \in Seq(Lines) /\ Len(live) \in Nat
    BY DEF ReadersFit, LogFits, TextsFit, FlagsFit, Line
  <2>2. SubSeq(live, first, Len(live)) \in Seq(Lines)
    BY <2>1
  <2> QED BY <2>2, GoodRecords DEF ReindexPass, ReadersFit
<1> QED BY <1>1, <1>2 DEF ReindexPass, LogFits, TextsFit, FlagsFit, ReadersFit, sinkVars, Missing, Line

LEMMA FitsKept ==
  ASSUME LogFits, ReadersFit, LogNext PROVE LogFits' /\ ReadersFit'
BY SinkKeepsFits, FinKeepsFits, SweepKeepsFits, RestoreKeepsFits, ReindexKeepsFits
   DEF LogNext, SinkStep, FinStep, SweepStep

-----------------------------------------------------------------------------
\* Nothing is written once the end of the session is in sight.
LEMMA UsedGrows == ASSUME LogNext PROVE used \subseteq used'
BY DEF LogNext, OpenSink, Emit, Flush, FlushPart, FlushRest, CloseSink, KillCollector, GoQuiet,
   FinStart, FinRead, FinRollup, FinPublish, FinAbort, SweepJudges, SweepCreates, SweepCopies,
   SweepRemoves, SweepDies, Restore, ReindexPass

LEMMA EndKept ==
  ASSUME LogFits, ReadersFit, AtEnd, LogNext PROVE AtEnd'
<1> SUFFICES ASSUME Steady' PROVE AtEnd'
  BY DEF AtEnd
<1>0. Steady
  BY UsedGrows DEF Steady
<1>1. CASE OpenSink
  BY <1>0, <1>1 DEF OpenSink, AtEnd, Steady
<1>2. CASE Emit \/ FlushPart \/ (\E end \in BOOLEAN : CloseSink(end)) \/ KillCollector
  BY <1>0, <1>2 DEF Emit, FlushPart, CloseSink, KillCollector, AtEnd, logVars
<1>3. CASE Flush \/ FlushRest
  BY <1>0, <1>3 DEF Flush, FlushRest, AtEnd, LogFits, FlagsFit
<1>4. CASE GoQuiet
  BY <1>0, <1>4 DEF GoQuiet, AtEnd, Steady, logVars
<1>5. ASSUME NEW f \in Finalizers, FinStep(f) PROVE AtEnd'
  <2>1. ended
    BY <1>0, <1>5 DEF FinStep, FinStart, FinRead, FinRollup, FinPublish, FinAbort, AtEnd
  <2>2. UNCHANGED <<exists, archive, sinkVars, swp, idx, used>>
    BY <1>5 DEF FinStep, FinStart, FinRead, FinRollup, FinPublish, FinAbort, logVars
  <2> QED BY <1>0, <2>1, <2>2 DEF AtEnd, sinkVars
<1>6. ASSUME NEW s \in Sweepers, SweepStep(s) PROVE AtEnd'
  <2>1. ended
    BY <1>0, <1>6 DEF SweepStep, SweepJudges, SweepCreates, SweepCopies, SweepRemoves, SweepDies,
       AtEnd
  <2>2. /\ UNCHANGED <<ended, fin, idx, kept>> /\ sink = "closed" /\ sink' = sink
    BY <1>0, <1>6, <2>1 DEF SweepStep, SweepJudges, SweepCreates, SweepCopies, SweepRemoves,
       SweepDies, AtEnd, sinkVars
  <2> QED BY <2>1, <2>2 DEF AtEnd
<1>7. CASE Restore
  BY <1>0, <1>7 DEF Restore, AtEnd
<1>8. CASE ReindexPass
  BY <1>0, <1>8 DEF ReindexPass, AtEnd, sinkVars
<1> QED BY <1>1, <1>2, <1>3, <1>4, <1>5, <1>6, <1>7, <1>8 DEF LogNext, FinStep, SweepStep

-----------------------------------------------------------------------------
\* The records that became lines stay in the log or go into the tarball.
LEMMA KeptKept ==
  ASSUME LogInv, KeptSomewhere, LogNext PROVE KeptSomewhere'
<1> SUFFICES ASSUME Plain' PROVE KeptSomewhere'
  BY DEF KeptSomewhere
<1>0. Plain /\ Steady /\ Steady' /\ LogFits
  BY UsedGrows DEF Plain, Steady, LogInv
<1>a. /\ kept \subseteq IF exists THEN Good(live) ELSE Archived
      /\ archive.at = "whole" => kept \subseteq Archived
      /\ \A s \in Sweepers : swp[s] # "idle" =>
           /\ exists /\ \A t \in Sweepers : swp[t] # "idle" => t = s
           /\ swp[s] = "remove" => archive.at = "whole"
  BY <1>0 DEF KeptSomewhere
<1>b. ~ended => archive.at = "none" /\ \A s \in Sweepers : swp[s] = "idle"
  BY <1>0 DEF LogInv, AtEnd
<1>1. CASE OpenSink
  <2>1. ~ended /\ (~exists => kept = {})
    BY <1>0, <1>1 DEF OpenSink, Plain, LogInv, AtEnd
  <2>2. UNCHANGED <<archive, kept, swp>> /\ exists' /\ (exists => live' = live)
    BY <1>1 DEF OpenSink
  <2> QED BY <1>a, <1>b, <2>1, <2>2 DEF KeptSomewhere
<1>2. CASE Flush \/ FlushRest
  <2>1. CASE sink = "open"
    <3>1. ~ended /\ exists /\ exists' /\ UNCHANGED <<archive, swp>>
      BY <1>0, <1>2, <2>1 DEF Flush, FlushRest, LogInv, AtEnd, LogFits, FlagsFit
    <3>2. Good(live) \subseteq Good(live') /\ kept' \subseteq kept \cup Good(live')
      BY <1>0, <1>2, <2>1, FlushGrows DEF Flush, FlushRest, Grown
    <3> QED BY <1>a, <1>b, <3>1, <3>2 DEF KeptSomewhere
  <2>2. CASE sink # "open"
    <3>1. UNCHANGED <<live, exists, archive, kept, swp>>
      BY <1>2, <2>2 DEF Flush, FlushRest
    <3> QED BY <1>a, <3>1 DEF KeptSomewhere, Archived
  <2> QED BY <2>1, <2>2
<1>3. CASE Emit \/ FlushPart \/ (\E end \in BOOLEAN : CloseSink(end)) \/ KillCollector \/ GoQuiet
           \/ (\E f \in Finalizers : FinStep(f)) \/ ReindexPass
  <2>1. UNCHANGED <<live, exists, archive, kept, swp>>
    BY <1>3 DEF Emit, FlushPart, CloseSink, KillCollector, GoQuiet, FinStep, FinStart, FinRead,
       FinRollup, FinPublish, FinAbort, ReindexPass, logVars, sinkVars
  <2> QED BY <1>a, <2>1 DEF KeptSomewhere, Archived
<1>4. ASSUME NEW s \in Sweepers, SweepStep(s) PROVE KeptSomewhere'
  <2>0. swp \in [Sweepers -> SwpSteps]
    BY DEF LogInv, ReadersFit
  <2>1. CASE SweepJudges(s)
    <3>1. \A t \in Sweepers : swp[t] = "idle"
      BY <2>1 DEF SweepJudges, Plain
    <3>2. exists /\ swp'[s] = "create" /\ \A t \in Sweepers : t # s => swp'[t] = "idle"
      BY <2>0, <2>1, <3>1 DEF SweepJudges
    <3>3. UNCHANGED <<live, exists, archive, kept>>
      BY <2>1 DEF SweepJudges, logVars, sinkVars
    <3> QED BY <1>a, <3>2, <3>3 DEF KeptSomewhere, Archived
  <2>2. CASE ~SweepJudges(s)
    <3>1. swp[s] # "idle" /\ exists /\ kept \subseteq Good(live)
      BY <1>4, <1>a, <2>2 DEF SweepStep, SweepCreates, SweepCopies, SweepRemoves, SweepDies
    <3>2. \A t \in Sweepers : t # s => swp[t] = "idle" /\ swp'[t] = "idle"
      BY <1>4, <1>a, <2>0, <2>2, <3>1 DEF SweepStep, SweepCreates, SweepCopies, SweepRemoves, SweepDies
    <3>3. kept' = kept
      BY <1>4 DEF SweepStep, SweepJudges, SweepCreates, SweepCopies, SweepRemoves, SweepDies, sinkVars
    <3>4. CASE SweepCreates(s)
      <4>1. exists' /\ live' = live /\ swp'[s] \in {"copy", "idle"}
        BY <2>0, <3>1, <3>4 DEF SweepCreates
      <4>2. archive' = archive \/ archive'.at = "partial"
        BY <3>4 DEF SweepCreates, Partial
      <4> QED BY <1>a, <3>1, <3>2, <3>3, <4>1, <4>2 DEF KeptSomewhere, Archived
    <3>5. CASE SweepCopies(s)
      <4>1. exists' /\ live' = live
        BY <3>1, <3>5 DEF SweepCopies
      <4>2. \/ archive' = Whole(live) /\ swp'[s] = "remove"
            \/ archive' = NoTar /\ swp'[s] = "idle"
        BY <2>0, <3>1, <3>5 DEF SweepCopies
      <4>3. archive'.at = "whole" => kept' \subseteq Archived'
        BY <3>1, <3>3, <4>2 DEF Whole, NoTar, Archived
      <4>4. swp'[s] = "remove" => archive'.at = "whole"
        BY <4>2 DEF Whole
      <4> QED BY <3>1, <3>2, <3>3, <4>1, <4>3, <4>4 DEF KeptSomewhere
    <3>6. CASE SweepRemoves(s)
      <4>1. ~exists' /\ archive' = archive /\ swp'[s] = "idle" /\ archive.at = "whole"
        BY <1>a, <2>0, <3>6 DEF SweepRemoves
      <4> QED BY <1>a, <3>2, <3>3, <4>1 DEF KeptSomewhere, Archived
    <3>7. CASE SweepDies(s)
      <4>1. UNCHANGED <<live, exists, archive>> /\ swp'[s] = "idle"
        BY <2>0, <3>7 DEF SweepDies
      <4> QED BY <1>a, <3>2, <3>3, <4>1 DEF KeptSomewhere, Archived
    <3> QED BY <1>4, <2>2, <3>4, <3>5, <3>6, <3>7 DEF SweepStep
  <2> QED BY <2>1, <2>2
<1>5. CASE Restore
  <2>1. exists' /\ Good(live') = Archived /\ archive.at = "whole" /\ UNCHANGED <<archive, kept, swp>>
    BY <1>5 DEF Restore, Archived
  <2> QED BY <1>a, <2>1 DEF KeptSomewhere, Archived
<1> QED BY <1>1, <1>2, <1>3, <1>4, <1>5 DEF LogNext, FinStep, SweepStep

LEMMA LogIdle ==
  ASSUME LogInv, KeptSomewhere, UNCHANGED telemetry PROVE LogInv' /\ KeptSomewhere'
<1>1. LogFits' /\ ReadersFit'
  BY DEF telemetry, logVars, sinkVars, LogInv, LogFits, TextsFit, FlagsFit, ReadersFit
<1>2. AtEnd'
  BY DEF telemetry, logVars, sinkVars, LogInv, AtEnd, Steady
<1>3. KeptSomewhere'
  BY DEF telemetry, logVars, sinkVars, KeptSomewhere, Plain, Archived
<1> QED BY <1>1, <1>2, <1>3 DEF LogInv

\* No record that became a line of the raw log is ever lost, however many
\* processes finalize, sweep, reindex and restore, and whatever dies: until a
\* second sweep overlaps with a first, or a session writes again after the
\* window of its retention began, it is in the log or in the archive.
THEOREM RawLogStays == LogSpec => []RawLogKept
<1>1. LogInit => LogInv /\ KeptSomewhere
  BY LogInitHolds
<1>2. LogInv /\ KeptSomewhere /\ [LogNext]_telemetry => (LogInv /\ KeptSomewhere)'
  BY FitsKept, EndKept, KeptKept, LogIdle DEF LogInv
<1>3. KeptSomewhere => RawLogKept
  BY DEF KeptSomewhere, RawLogKept, Plain
<1> QED BY <1>1, <1>2, <1>3, PTL DEF LogSpec

-----------------------------------------------------------------------------
\* What the readers of one log agree on.  OneLog: there is one log to read, live
\* or archived.  LastRead: a finalizer reads all of it.
OneLog == ended /\ archive.at = "whole" /\ exists => archive.lines = live
LastRead(lines) ==
  \A f \in Finalizers :
    /\ fin[f].at = "read" => fin[f].size >= Line * Len(lines)
    /\ fin[f].at \in {"rollup", "publish"} => fin[f].seen = Good(lines)
Told(f) == fin[f].at \in {"rollup", "publish"}
ReadSame ==
  /\ exists => LastRead(live)
  /\ archive.at = "whole" => LastRead(archive.lines)
  /\ \A f, g \in Finalizers : Told(f) /\ Told(g) => fin[f].seen = fin[g].seen
RolledUp ==
  ~failed =>
    /\ \A f \in Finalizers : fin[f].at = "publish" => fin[f].seen \subseteq rolled
    /\ exists /\ marker # Missing /\ "reindex" \notin used => Good(live) \subseteq rolled

\* What lies before the indexer's position was read.
Replayed(lines) == \A i \in 1 .. Len(lines) : Line * i <= idx.at => lines[i] \in idx.seen \cup {0}
IndexOK ==
  "torn" \notin used =>
    /\ idx.at % Line = 0
    /\ exists => Replayed(live)
    /\ archive.at = "whole" => Replayed(archive.lines)
    /\ exists /\ ~ended => idx.at <= Line * Len(live)

\* What holds until a session pauses for a whole window or resumes.
Settled == Steady /\ OneLog /\ ReadSame /\ RolledUp /\ IndexOK

LEMMA SettledAtInit == ASSUME LogInit PROVE Settled
<1>1. Steady /\ OneLog /\ ReadSame /\ RolledUp
  BY DEF LogInit, Steady, OneLog, ReadSame, LastRead, Told, RolledUp, NoRead, NoTar
<1>2. IndexOK
  BY DEF LogInit, IndexOK, NoTar, Line
<1> QED BY <1>1, <1>2 DEF Settled

\* While the session lasts nothing reads, archives or marks its log.
LEMMA StillOpen ==
  ASSUME LogInv, Steady, ~ended
  PROVE  /\ archive.at = "none" /\ ("reindex" \notin used => marker = Missing)
         /\ \A s \in Sweepers : swp[s] = "idle"
         /\ \A f \in Finalizers : fin[f].at = "idle" /\ ~Told(f)
BY DEF LogInv, AtEnd, Told

LEMMA OneLogKept ==
  ASSUME LogInv, Settled, LogNext, Steady' PROVE OneLog'
<1>0. Steady /\ OneLog /\ (~ended => archive.at = "none") /\ (ended => sink = "closed")
  BY StillOpen DEF Settled, LogInv, AtEnd
<1>1. CASE Restore
  BY <1>1 DEF Restore, OneLog
<1>2. ASSUME NEW s \in Sweepers, SweepStep(s) PROVE OneLog'
  <2>1. CASE SweepJudges(s) \/ SweepDies(s)
    BY <1>0, <2>1 DEF SweepJudges, SweepDies, OneLog, logVars, sinkVars
  <2>2. CASE SweepCreates(s)
    BY <1>0, <2>2 DEF SweepCreates, OneLog, Partial, sinkVars
  <2>3. CASE SweepCopies(s)
    <3>1. UNCHANGED live /\ (archive' = Whole(live) \/ archive' = NoTar)
      BY <2>3 DEF SweepCopies
    <3> QED BY <3>1 DEF OneLog, Whole, NoTar
  <2>4. CASE SweepRemoves(s)
    BY <2>4 DEF SweepRemoves, OneLog
  <2> QED BY <1>2, <2>1, <2>2, <2>3, <2>4 DEF SweepStep
<1>3. ASSUME NEW f \in Finalizers, FinStep(f) PROVE OneLog'
  <2>1. UNCHANGED <<ended, archive, exists, live>>
    BY <1>3 DEF FinStep, FinStart, FinRead, FinRollup, FinPublish, FinAbort, logVars, sinkVars
  <2> QED BY <1>0, <2>1 DEF OneLog
<1>4. CASE SinkStep
  BY <1>0, <1>4 DEF SinkStep, OpenSink, Emit, Flush, FlushPart, FlushRest, CloseSink,
     KillCollector, GoQuiet, OneLog, logVars
<1>5. CASE ReindexPass
  BY <1>0, <1>5 DEF ReindexPass, OneLog, sinkVars
<1> QED BY <1>1, <1>2, <1>3, <1>4, <1>5 DEF LogNext, FinStep, SweepStep, SinkStep

\* A finalizer that read a log from the start to its size read all of it.
LEMMA PrefixIsAll ==
  ASSUME NEW s \in Seq(Lines), NEW n \in Nat, n >= Line * Len(s) PROVE Prefix(s, n) = s
<1>1. CASE n > Line * Len(s)
  BY <1>1 DEF Prefix
<1>2. CASE n = Line * Len(s)
  <2>1. (n + Line - 1) \div Line = Len(s)
    BY <1>2 DEF Line
  <2> QED BY <1>2, <2>1 DEF Prefix
<1> QED BY <1>1, <1>2 DEF Line

LEMMA ReadSameFin ==
  ASSUME LogInv, Settled, NEW f \in Finalizers, FinStep(f) PROVE ReadSame'
<1>0. /\ fin \in [Finalizers -> FinType] /\ live \in Seq(Lines) /\ LogFits /\ ReadSame
      /\ (archive.at = "whole" /\ exists => archive.lines = live)
  <2>1. ended
    BY StillOpen DEF Settled, FinStep, FinStart, FinRead, FinRollup, FinPublish, FinAbort, LogInv,
       AtEnd
  <2> QED BY <2>1 DEF LogInv, ReadersFit, LogFits, TextsFit, Settled, OneLog
<1>1. UNCHANGED <<live, exists, archive>>
  BY DEF FinStep, FinStart, FinRead, FinRollup, FinPublish, FinAbort, logVars
<1>2. \A g \in Finalizers : g # f => fin'[g] = fin[g]
  BY <1>0 DEF FinStep, FinStart, FinRead, FinRollup, FinPublish, FinAbort
<1>3. fin[f].size \in Nat
  BY <1>0 DEF FinType, Line
\* The finalizer's own read, of the log or of the archive with the same lines.
<1> DEFINE Own(lines) ==
      /\ fin'[f].at = "read" => fin'[f].size >= Line * Len(lines)
      /\ fin'[f].at \in {"rollup", "publish"} => fin'[f].seen = Good(lines)
<1>4. /\ exists => Own(live)
      /\ archive.at = "whole" => Own(archive.lines)
      /\ Told(f)' => (Told(f) /\ fin'[f].seen = fin[f].seen) \/ exists
  <2>1. CASE FinStart(f)
    <3>1. exists /\ fin'[f].at = "read" /\ fin'[f].size = Size
      BY <1>0, <2>1 DEF FinStart
    <3>2. Own(live)
      BY <1>0, <3>1, SizeBound
    <3> QED BY <1>0, <3>1, <3>2 DEF Told
  <2>2. CASE FinRead(f)
    <3>1. CASE exists
      <4>1. fin[f].at = "read" /\ fin[f].size >= Line * Len(live)
        BY <1>0, <2>2, <3>1 DEF FinRead, ReadSame, LastRead
      <4>2. fin'[f].at = "rollup" /\ fin'[f].seen = Good(Prefix(live, fin[f].size))
        <5>1. fin' = [fin EXCEPT ![f] = [@ EXCEPT !.at = "rollup",
                                                  !.seen = Good(Prefix(live, fin[f].size))]]
          BY <2>2, <3>1 DEF FinRead
        <5> HIDE DEF Good, Prefix
        <5> QED BY <1>0, <5>1 DEF FinType
      <4>3. fin'[f].seen = Good(live)
        BY <1>0, <1>3, <4>1, <4>2, PrefixIsAll
      <4> QED BY <1>0, <3>1, <4>2, <4>3
    <3>2. CASE ~exists
      <4>1. fin'[f].at = "idle"
        BY <1>0, <2>2, <3>2 DEF FinRead, NoRead
      <4> QED BY <4>1 DEF Told
    <3> QED BY <3>1, <3>2
  <2>3. CASE FinRollup(f)
    <3>1. fin[f].at = "rollup" /\ fin'[f].at = "publish" /\ fin'[f].seen = fin[f].seen
      BY <1>0, <2>3 DEF FinRollup
    <3> QED BY <1>0, <3>1 DEF ReadSame, LastRead, Told
  <2>4. CASE FinPublish(f) \/ FinAbort(f)
    <3>1. fin'[f].at = "idle"
      BY <1>0, <2>4 DEF FinPublish, FinAbort, NoRead
    <3> QED BY <3>1 DEF Told
  <2> QED BY <2>1, <2>2, <2>3, <2>4 DEF FinStep
<1>5. exists' => LastRead(live)'
  BY <1>0, <1>1, <1>2, <1>4 DEF ReadSame, LastRead
<1>6. archive'.at = "whole" => LastRead(archive.lines)'
  BY <1>0, <1>1, <1>2, <1>4 DEF ReadSame, LastRead
<1>7. ASSUME NEW g \in Finalizers, NEW h \in Finalizers, Told(g)', Told(h)'
      PROVE  fin'[g].seen = fin'[h].seen
  <2>1. CASE exists
    BY <1>1, <1>5, <1>7, <2>1 DEF LastRead, Told
  <2>2. CASE ~exists
    <3>1. Told(g) /\ fin'[g].seen = fin[g].seen
      BY <1>2, <1>4, <1>7, <2>2 DEF Told
    <3>2. Told(h) /\ fin'[h].seen = fin[h].seen
      BY <1>2, <1>4, <1>7, <2>2 DEF Told
    <3> QED BY <1>0, <3>1, <3>2 DEF ReadSame
  <2> QED BY <2>1, <2>2
<1> QED BY <1>5, <1>6, <1>7 DEF ReadSame

LEMMA ReadSameKept ==
  ASSUME LogInv, Settled, LogNext, Steady' PROVE ReadSame'
<1>0. ReadSame /\ LogFits /\ (ended => sink = "closed")
      /\ (ended /\ archive.at = "whole" /\ exists => archive.lines = live)
  BY DEF Settled, LogInv, AtEnd, OneLog
<1>1. CASE SinkStep
  <2>0. fin' = fin /\ archive' = archive
    BY <1>1 DEF SinkStep, OpenSink, Emit, Flush, FlushPart, FlushRest, CloseSink,
       KillCollector, GoQuiet, logVars
  <2>1. CASE ended
    <3>1. UNCHANGED <<live, exists>>
      BY <1>0, <1>1, <2>1 DEF SinkStep, OpenSink, Emit, Flush, FlushPart, FlushRest, CloseSink,
         KillCollector, GoQuiet, logVars, Steady
    <3> QED BY <1>0, <2>0, <3>1 DEF ReadSame, LastRead, Told
  <2>2. CASE ~ended
    <3>1. \A f \in Finalizers : fin'[f].at = "idle"
      BY <2>0, <2>2, StillOpen DEF Settled
    <3> QED BY <3>1 DEF ReadSame, LastRead, Told
  <2> QED BY <2>1, <2>2
<1>2. ASSUME NEW s \in Sweepers, SweepStep(s) PROVE ReadSame'
  <2>0. fin' = fin
    BY <1>2 DEF SweepStep, SweepJudges, SweepCreates, SweepCopies, SweepRemoves, SweepDies
  <2>1. exists' => exists /\ live' = live
    BY <1>2 DEF SweepStep, SweepJudges, SweepCreates, SweepCopies, SweepRemoves, SweepDies, logVars
  <2>2. archive'.at = "whole" => archive' = archive \/ (exists /\ archive'.lines = live)
    BY <1>2 DEF SweepStep, SweepJudges, SweepCreates, SweepCopies, SweepRemoves, SweepDies, logVars,
       Whole, Partial, NoTar
  <2>3. exists' => LastRead(live)'
    BY <1>0, <2>0, <2>1 DEF ReadSame, LastRead
  <2>4. archive'.at = "whole" => LastRead(archive.lines)'
    BY <1>0, <2>0, <2>2 DEF ReadSame, LastRead
  <2> QED BY <1>0, <2>0, <2>3, <2>4 DEF ReadSame, Told
<1>3. CASE Restore
  <2>1. UNCHANGED <<fin, archive>> /\ live' = archive.lines /\ archive.at = "whole"
    BY <1>3 DEF Restore
  <2> QED BY <1>0, <2>1 DEF ReadSame, LastRead, Told
<1>4. CASE ReindexPass
  <2>1. UNCHANGED <<fin, archive, live, exists>>
    BY <1>4 DEF ReindexPass
  <2> QED BY <1>0, <2>1 DEF ReadSame, LastRead, Told
<1> QED BY <1>1, <1>2, <1>3, <1>4, ReadSameFin DEF LogNext, FinStep, SweepStep, SinkStep

LEMMA RolledUpKept ==
  ASSUME LogInv, Settled, LogNext, Steady' PROVE RolledUp'
<1> SUFFICES ASSUME ~failed' PROVE RolledUp'
  BY DEF RolledUp
<1>0. /\ fin \in [Finalizers -> FinType] /\ ReadSame /\ (ended => sink = "closed")
      /\ (ended /\ archive.at = "whole" /\ exists => archive.lines = live)
      /\ (~exists => marker = Missing) /\ (failed => failed')
  <2>1. failed => failed'
    BY DEF LogNext, OpenSink, Emit, Flush, FlushPart, FlushRest, CloseSink, KillCollector, GoQuiet,
       FinStart, FinRead, FinRollup, FinPublish, FinAbort, SweepJudges, SweepCreates, SweepCopies,
       SweepRemoves, SweepDies, Restore, ReindexPass
  <2> QED BY <2>1 DEF Settled, LogInv, ReadersFit, AtEnd, OneLog, LogFits, FlagsFit
<1>a. /\ \A f \in Finalizers : fin[f].at = "publish" => fin[f].seen \subseteq rolled
      /\ exists /\ marker # Missing /\ "reindex" \notin used => Good(live) \subseteq rolled
  BY <1>0 DEF Settled, RolledUp
<1>1. CASE SinkStep
  <2>0. UNCHANGED <<fin, rolled>>
    BY <1>1 DEF SinkStep, OpenSink, Emit, Flush, FlushPart, FlushRest, CloseSink,
       KillCollector, GoQuiet, logVars
  <2>1. CASE ended
    <3>1. UNCHANGED <<live, exists, marker, used>>
      BY <1>0, <1>1, <2>1 DEF SinkStep, OpenSink, Emit, Flush, FlushPart, FlushRest, CloseSink,
         KillCollector, GoQuiet, logVars, Steady
    <3> QED BY <1>a, <2>0, <3>1 DEF RolledUp
  <2>2. CASE ~ended
    <3>1. \A f \in Finalizers : fin'[f].at = "idle"
      BY <2>0, <2>2, StillOpen DEF Settled
    <3>2. "reindex" \notin used' => "reindex" \notin used
      BY UsedGrows
    <3>3. marker' = marker \/ marker' = Missing
      BY <1>1 DEF SinkStep, OpenSink, Emit, Flush, FlushPart, FlushRest, CloseSink,
         KillCollector, GoQuiet, logVars
    <3>4. "reindex" \notin used' => marker' = Missing
      BY <2>2, <3>2, <3>3, StillOpen DEF Settled
    <3> QED BY <3>1, <3>4 DEF RolledUp
  <2> QED BY <2>1, <2>2
<1>2. ASSUME NEW f \in Finalizers, FinStep(f) PROVE RolledUp'
  <2>0. /\ UNCHANGED <<live, exists, used>>
        /\ \A g \in Finalizers : g # f => fin'[g] = fin[g]
    BY <1>0, <1>2 DEF FinStep, FinStart, FinRead, FinRollup, FinPublish, FinAbort, logVars, sinkVars
  <2>1. CASE FinRollup(f)
    <3>1. /\ Told(f) /\ fin'[f].seen = fin[f].seen /\ marker' = marker
          /\ rolled' = IF fin[f].seen = {} THEN rolled ELSE fin[f].seen
      BY <1>0, <2>1 DEF FinRollup, Told
    <3>2. \A g \in Finalizers : Told(g) => fin[g].seen = fin[f].seen
      BY <1>0, <3>1 DEF ReadSame
    <3>3. \A g \in Finalizers : fin'[g].at = "publish" => fin'[g].seen \subseteq rolled'
      BY <2>0, <3>1, <3>2 DEF Told
    <3>4. exists => Good(live) = fin[f].seen
      BY <1>0, <3>1 DEF ReadSame, LastRead, Told
    <3> QED BY <2>0, <3>1, <3>3, <3>4 DEF RolledUp
  <2>2. CASE FinPublish(f)
    <3>1. /\ rolled' = rolled /\ fin'[f].at = "idle" /\ fin[f].at = "publish"
          /\ (~exists => marker' = marker)
      BY <1>0, <2>2 DEF FinPublish, NoRead
    <3>2. exists => Good(live) \subseteq rolled
      BY <1>0, <1>a, <3>1 DEF ReadSame, LastRead
    <3> QED BY <1>a, <2>0, <3>1, <3>2 DEF RolledUp
  <2>3. CASE FinStart(f) \/ FinRead(f) \/ FinAbort(f)
    <3>1. UNCHANGED <<rolled, marker>>
      BY <2>3 DEF FinStart, FinRead, FinAbort, logVars
    <3>2. fin'[f].at \in {"read", "rollup", "idle"}
      BY <1>0, <2>3 DEF FinStart, FinRead, FinAbort, NoRead, FinType
    <3> QED BY <1>a, <2>0, <3>1, <3>2 DEF RolledUp
  <2> QED BY <1>2, <2>1, <2>2, <2>3 DEF FinStep
<1>3. ASSUME NEW s \in Sweepers, SweepStep(s) PROVE RolledUp'
  <2>1. /\ UNCHANGED <<fin, rolled>> /\ ("reindex" \notin used' => "reindex" \notin used)
        /\ exists' => exists /\ live' = live
        /\ marker' = marker \/ marker' = Missing
    BY <1>3 DEF SweepStep, SweepJudges, SweepCreates, SweepCopies, SweepRemoves, SweepDies, logVars
  <2> QED BY <1>a, <2>1 DEF RolledUp
<1>4. CASE Restore
  <2>1. /\ UNCHANGED <<fin, rolled, marker>> /\ ("reindex" \notin used' => "reindex" \notin used)
        /\ live' = archive.lines /\ archive.at = "whole"
    BY <1>4 DEF Restore
  <2>2. ended
    BY <2>1, StillOpen DEF Settled
  <2> QED BY <1>0, <1>a, <2>1, <2>2 DEF RolledUp
<1>5. CASE ReindexPass
  <2>1. UNCHANGED <<fin, rolled>> /\ "reindex" \in used'
    BY <1>5 DEF ReindexPass
  <2> QED BY <1>a, <2>1 DEF RolledUp
<1> QED BY <1>1, <1>2, <1>3, <1>4, <1>5 DEF LogNext, FinStep, SweepStep, SinkStep

\* The lines from the position on are among those a pass reads.
LEMMA PassReads ==
  ASSUME NEW s \in Seq(Lines), NEW at \in Nat, at % Line = 0,
         NEW i \in 1 .. Len(s), Line * i > at
  PROVE  s[i] \in Range(SubSeq(s, (at + Line - 1) \div Line + 1, Len(s)))
<1> DEFINE m == (at + Line - 1) \div Line + 1
<1>1. m \in Nat /\ 1 <= m /\ m <= i
  BY DEF Line
<1> HIDE DEF m
<1>2. i - m + 1 \in 1 .. Len(s) - m + 1
  BY <1>1
<1>3. SubSeq(s, m, Len(s))[i - m + 1] = s[i] /\ DOMAIN SubSeq(s, m, Len(s)) = 1 .. Len(s) - m + 1
  BY <1>1, <1>2
<1>4. s[i] \in Range(SubSeq(s, m, Len(s)))
  BY <1>2, <1>3 DEF Range
<1> QED BY <1>4 DEF m

LEMMA IndexKept ==
  ASSUME LogInv, Settled, LogNext, Steady' PROVE IndexOK'
<1> SUFFICES ASSUME "torn" \notin used' PROVE IndexOK'
  BY DEF IndexOK
<1>0. /\ "torn" \notin used /\ ~torn /\ LogFits /\ ReadersFit /\ live \in Seq(Lines)
      /\ Len(live) \in Nat /\ (ended => sink = "closed")
      /\ idx.at \in Nat /\ (~ended => archive.at = "none")
  BY UsedGrows, StillOpen DEF LogInv, LogFits, TextsFit, FlagsFit, AtEnd, Settled, ReadersFit
<1>a. /\ idx.at % Line = 0
      /\ exists => Replayed(live)
      /\ archive.at = "whole" => Replayed(archive.lines)
      /\ exists /\ ~ended => idx.at <= Line * Len(live)
      /\ ended /\ archive.at = "whole" /\ exists => archive.lines = live
  BY <1>0 DEF Settled, IndexOK, OneLog
<1>1. CASE OpenSink
  <2>0. UNCHANGED <<idx, archive>> /\ ~ended /\ exists' /\ ~ended'
    BY <1>1 DEF OpenSink, Steady
  <2>1. CASE exists
    <3>1. live' = live
      BY <1>1, <2>1 DEF OpenSink
    <3> QED BY <1>a, <2>0, <2>1, <3>1 DEF IndexOK, Replayed
  <2>2. CASE ~exists
    <3>1. idx.at = 0
      BY <2>0, <2>2 DEF Settled, LogInv, AtEnd
    <3>2. live' = <<>> /\ Len(live') = 0
      BY <1>1, <2>2 DEF OpenSink
    <3> QED BY <1>0, <1>a, <2>0, <3>1, <3>2 DEF IndexOK, Replayed, Line
  <2> QED BY <2>1, <2>2
<1>2. CASE (Flush /\ sink = "open") \/ FlushRest
  <2>1. ~ended /\ exists /\ UNCHANGED <<idx, archive, exists, ended>>
    BY <1>0, <1>2 DEF Flush, FlushRest, LogFits, FlagsFit
  <2>2. live' = live \o staged /\ Grown(live')
    BY <1>0, <1>2, FlushGrows DEF Flush, FlushRest, Appended
  <2>3. Len(live') \in Nat /\ Len(live') >= Len(live) /\ \A i \in 1 .. Len(live) : live'[i] = live[i]
    BY <1>0, <2>2 DEF Grown, LogFits, TextsFit
  <2>4. \A i \in 1 .. Len(live') : Line * i <= idx.at => i \in 1 .. Len(live)
    BY <1>0, <1>a, <2>1, <2>3 DEF Line
  <2>5. Replayed(live)'
    BY <1>a, <2>1, <2>3, <2>4 DEF Replayed
  <2>6. idx'.at <= Line * Len(live')
    BY <1>0, <1>a, <2>1, <2>3 DEF Line
  <2> QED BY <1>0, <1>a, <2>1, <2>5, <2>6 DEF IndexOK
<1>3. CASE Emit \/ FlushPart \/ (Flush /\ sink # "open") \/ (\E end \in BOOLEAN : CloseSink(end))
           \/ KillCollector \/ GoQuiet \/ (\E f \in Finalizers : FinStep(f))
  <2>1. UNCHANGED <<live, exists, archive, idx>>
    BY <1>3 DEF Emit, FlushPart, Flush, CloseSink, KillCollector, GoQuiet, FinStep, FinStart, FinRead,
       FinRollup, FinPublish, FinAbort, logVars
  <2>2. ~ended' => ~ended
    BY <1>3 DEF Emit, FlushPart, Flush, CloseSink, KillCollector, GoQuiet, FinStep, FinStart, FinRead,
       FinRollup, FinPublish, FinAbort, sinkVars
  <2> QED BY <1>a, <2>1, <2>2 DEF IndexOK, Replayed
<1>4. ASSUME NEW s \in Sweepers, SweepStep(s) PROVE IndexOK'
  <2>0. UNCHANGED <<idx, ended>>
    BY <1>4 DEF SweepStep, SweepJudges, SweepCreates, SweepCopies, SweepRemoves, SweepDies, sinkVars
  <2>1. exists' => exists /\ live' = live
    BY <1>4 DEF SweepStep, SweepJudges, SweepCreates, SweepCopies, SweepRemoves, SweepDies, logVars
  <2>2. archive'.at = "whole" => archive' = archive \/ (exists /\ archive'.lines = live)
    BY <1>4 DEF SweepStep, SweepJudges, SweepCreates, SweepCopies, SweepRemoves, SweepDies, logVars,
       Whole, Partial, NoTar
  <2>3. archive'.at = "whole" => Replayed(archive.lines)'
    BY <1>a, <2>0, <2>2 DEF Replayed
  <2> QED BY <1>a, <2>0, <2>1, <2>3 DEF IndexOK, Replayed
<1>5. CASE Restore
  <2>1. /\ UNCHANGED <<archive, idx, ended>> /\ live' = archive.lines /\ archive.at = "whole" /\ ended
    BY <1>0, <1>5 DEF Restore
  <2> QED BY <1>a, <2>1 DEF IndexOK, Replayed
<1>6. CASE ReindexPass
  <2>1. /\ exists /\ UNCHANGED <<live, exists, archive, ended>>
        /\ idx'.at = Line * Len(live) /\ Line * Len(live) > idx.at
        /\ idx'.seen = idx.seen
                \cup Good(SubSeq(live, (idx.at + Line - 1) \div Line + 1, Len(live)))
    BY <1>0, <1>6 DEF ReindexPass, sinkVars, Size, Line
  <2>2. idx'.at % Line = 0
    BY <1>0, <2>1 DEF Line
  <2>3. ASSUME NEW i \in 1 .. Len(live) PROVE live[i] \in idx'.seen \cup {0}
    <3>1. CASE Line * i <= idx.at
      BY <1>a, <2>1, <3>1 DEF Replayed
    <3>2. CASE Line * i > idx.at
      <4>1. live[i] \in Range(SubSeq(live, (idx.at + Line - 1) \div Line + 1, Len(live)))
        BY <1>0, <1>a, <3>2, PassReads
      <4> QED BY <2>1, <4>1 DEF Good
    <3> QED BY <1>0, <3>1, <3>2 DEF Line
  <2>4. Replayed(live)'
    BY <2>1, <2>3 DEF Replayed
  <2>5. archive.at = "whole" => archive.lines = live
    BY <1>0, <1>a, <2>1
  <2>6. archive'.at = "whole" => Replayed(archive.lines)'
    BY <2>1, <2>4, <2>5 DEF Replayed
  <2>7. idx'.at <= Line * Len(live')
    BY <1>0, <2>1 DEF Line
  <2> QED BY <2>2, <2>4, <2>6, <2>7 DEF IndexOK
<1> QED BY <1>1, <1>2, <1>3, <1>4, <1>5, <1>6 DEF LogNext, FinStep, SweepStep

LEMMA SettledIdle ==
  ASSUME LogInv, Settled, UNCHANGED telemetry PROVE Settled'
<1>1. (Steady /\ OneLog)'
  BY DEF telemetry, logVars, sinkVars, Settled, Steady, OneLog
<1>2. ReadSame'
  BY DEF telemetry, logVars, Settled, ReadSame, LastRead, Told
<1>3. RolledUp'
  BY DEF telemetry, logVars, Settled, RolledUp
<1>4. IndexOK'
  BY DEF telemetry, logVars, sinkVars, Settled, IndexOK, Replayed
<1> QED BY <1>1, <1>2, <1>3, <1>4 DEF Settled

LEMMA LogInvKept ==
  ASSUME LogInv, KeptSomewhere, [LogNext]_telemetry PROVE (LogInv /\ KeptSomewhere)'
BY FitsKept, EndKept, KeptKept, LogIdle DEF LogInv

LEMMA SettledKept ==
  ASSUME LogInv, Steady => Settled, [LogNext]_telemetry PROVE Steady' => Settled'
<1> SUFFICES ASSUME Steady' PROVE Settled'
  OBVIOUS
<1>1. CASE LogNext
  <2>1. Settled
    BY <1>1, UsedGrows DEF Steady
  <2> QED BY <1>1, <2>1, OneLogKept, ReadSameKept, RolledUpKept, IndexKept DEF Settled
<1>2. CASE UNCHANGED telemetry
  <2>1. Steady
    BY <1>2 DEF telemetry, Steady
  <2> QED BY <1>2, <2>1, SettledIdle
<1> QED BY <1>1, <1>2

LEMMA SettledSound ==
  ASSUME LogInv, Settled PROVE LogSound
<1>0. LogFits /\ ReadersFit /\ live \in Seq(Lines) /\ Len(live) \in Nat /\ Size \in Nat
  BY SizeBound DEF LogInv, LogFits, TextsFit
<1>1. LogTyped
  <2>1. live \in Seq(0 .. MaxRecords) /\ Len(live) <= 2 * MaxRecords
    BY <1>0, TelemetryConstants DEF LogFits, TextsFit, Lines
  <2>2. archive.at \in {"none", "partial", "whole"} /\ Archived \subseteq Records
    BY <1>0, GoodRecords DEF LogFits, TextsFit, Tars, Archived
  <2>3. marker \in Missing .. Line * (2 * MaxRecords + 1)
    BY <1>0, TelemetryConstants DEF ReadersFit, Line, Missing
  <2>4. /\ \A f \in Finalizers : fin[f].at \in FinSteps /\ fin[f].seen \subseteq Records
        /\ \A s \in Sweepers : swp[s] \in SwpSteps
    BY <1>0 DEF ReadersFit, FinType
  <2>5. idx.at \in Nat /\ idx.seen \subseteq Records
    BY <1>0, TelemetryConstants DEF ReadersFit, Line
  <2> QED BY <1>0, <2>1, <2>2, <2>3, <2>4, <2>5 DEF LogTyped, LogFits, TextsFit, FlagsFit
<1>2. SealedRollup
  <2>1. CaughtUp => marker # Missing
    BY <1>0 DEF CaughtUp, Missing
  <2> QED BY <2>1 DEF SealedRollup, Settled, RolledUp
<1>3. ReplayComplete
  <2> SUFFICES ASSUME "torn" \notin used, exists, ~torn, idx.at >= Size
               PROVE  Good(live) \subseteq idx.seen
    BY DEF ReplayComplete
  <2>1. Replayed(live)
    BY DEF Settled, IndexOK
  <2>2. \A i \in 1 .. Len(live) : Line * i <= idx.at
    BY <1>0 DEF Size, Line, ReadersFit
  <2>3. \A i \in 1 .. Len(live) : live[i] \in idx.seen \cup {0}
    BY <2>1, <2>2 DEF Replayed
  <2> QED BY <1>0, <2>3 DEF Good, Range
<1> QED BY <1>1, <1>2, <1>3 DEF LogSound

\* What the readers of a log rely on, in every state of a run until a session
\* pauses for a whole window or resumes after its end: a log that its marker
\* calls consumed is rolled up unless a rollup failed, and an indexer at the end
\* of the log has read every line of it.
THEOREM ReadersAreRight ==
  LogSpec => [](used \cap {"idle", "resume"} = {} => LogSound)
<1> DEFINE I == LogInv /\ KeptSomewhere /\ (Steady => Settled)
<1>1. LogInit => I
  BY LogInitHolds, SettledAtInit
<1>2. I /\ [LogNext]_telemetry => I'
  BY LogInvKept, SettledKept
<1>3. I => (used \cap {"idle", "resume"} = {} => LogSound)
  BY SettledSound DEF Steady
<1> QED BY <1>1, <1>2, <1>3, PTL DEF LogSpec

=============================================================================

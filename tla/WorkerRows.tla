------------------------------ MODULE WorkerRows ------------------------------
(***************************************************************************)
(* The life of delegate workers (internal/delegate/session: spawn.go,      *)
(* place.go, claims.go, lifecycle.go, stop.go, list.go, wait.go): the      *)
(* delegations ledger's rows, the run folders, the project's record of     *)
(* worker panes, and the panes and tabs of herdr.                          *)
(*                                                                         *)
(* Spawns, stops and looks (list, wait) are processes of their own.  The   *)
(* record of panes is read, changed and written under its file lock; a     *)
(* row is closed by a call that finds it open.  A key stands for a         *)
(* worker's name and its item.  A call to herdr is one step, the check of  *)
(* a pane's terminal with it.                                              *)
(***************************************************************************)
EXTENDS Integers, FiniteSets, Functions

CONSTANTS
  Clients,    \* processes that spawn, stop and look
  Runs,       \* run ids; a run's terminal is known by its run
  Keys,
  Panes,      \* pane ids of herdr
  MaxWorkers, \* the cap of the workers tab
  Faults,     \* what may go wrong, a subset of AllFaults
  MaxFaults,  \* bound: how often
  None

AllFaults == {"die",      \* a client dies
              "exit",     \* a harness exits by itself
              "person",   \* a person closes a pane; herdr may give its id to a stranger
              "refuse",   \* herdr refuses a pane's terminal, or the boot
              "reuse"}    \* herdr gives the id of a closed pane to a new worker

Stranger == "stranger"

ASSUME RowConstants ==
  /\ Faults \subseteq AllFaults /\ MaxFaults \in Nat /\ MaxWorkers \in Nat \ {0}
  /\ None \notin Clients \cup Runs \cup Keys \cup Panes /\ Stranger \notin Runs

VARIABLES
  row,     \* per run: its ledger row
  folder,  \* per run: the pane session.json pins, and the exit file
  claim,   \* per run: the episode of the worker's session
  worker,  \* per run: its harness, "none", "up" or "exited"
  pane,    \* per pane id: the run whose terminal it holds, and its tab
  used,    \* history: pane ids that were given out
  record,  \* workers/project.json: the tab and the panes of runs
  lock,    \* the client that holds the record's lock
  proc,    \* per client: its step and its run
  faults   \* history: how often each fault happened

disk == <<row, folder, claim>>
herdr == <<worker, pane, used>>
rows == <<disk, herdr, record, lock, proc, faults>>

Ended == {"stop", "gone"}
Fault(kind) ==
  /\ kind \in Faults /\ SumFunction(faults) < MaxFaults
  /\ faults' = [faults EXCEPT ![kind] = @ + 1]
NoTab == [tab |-> None, panes |-> {}]
Idle == [at |-> "idle", run |-> None, key |-> None, saw |-> None, w |-> NoTab]
SpawnSteps == {"claim", "place", "boot", "abandon", "unwind"}
StopSteps == {"exit", "close", "release", "end", "finish", "expire", "unplace"}
Locked == {"claim", "place"}

RowsTyped ==
  /\ row \in [Runs -> [st : {"none", "open"} \cup Ended, key : Keys \cup {None}]]
  /\ folder \in [Runs -> [pane : Panes \cup {None}, exit : {"none"} \cup Ended]]
  /\ claim \in [Runs -> {"none", "held", "ended", "expired"}]
  /\ worker \in [Runs -> {"none", "up", "exited"}]
  /\ pane \in [Panes -> [holds : Runs \cup {None, Stranger}, tab : Runs \cup {None}]]
  /\ used \subseteq Panes
  /\ record.tab \in Runs \cup {None} /\ record.panes \subseteq Panes \X Runs
  /\ lock \in Clients \cup {None}
  /\ \A c \in Clients : /\ proc[c].at \in {"idle"} \cup SpawnSteps \cup StopSteps
                        /\ (proc[c].at \in Locked) <=> (lock = c)
  /\ faults \in [AllFaults -> Nat]

RowsInit ==
  /\ row = [r \in Runs |-> [st |-> "none", key |-> None]]
  /\ folder = [r \in Runs |-> [pane |-> None, exit |-> "none"]]
  /\ claim = [r \in Runs |-> "none"] /\ worker = [r \in Runs |-> "none"]
  /\ pane = [p \in Panes |-> [holds |-> None, tab |-> None]] /\ used = {}
  /\ record = NoTab /\ lock = None
  /\ proc = [c \in Clients |-> Idle] /\ faults = [k \in AllFaults |-> 0]

(***************************************************************************)
(* What a look at a worker sees.                                           *)
(***************************************************************************)
Open(r) == row[r].st = "open"
Holds(p, r) == p # None /\ pane[p].holds = r
OwnPane(r) == Holds(folder[r].pane, r)
PaneGone(r) == folder[r].pane # None /\ ~OwnPane(r)
Exited(r) == OwnPane(r) /\ worker[r] = "exited"
IsLost(r) == PaneGone(r) \/ Exited(r)

(***************************************************************************)
(* Effects on herdr and on the record.                                     *)
(***************************************************************************)
Closing(ps) == [p \in Panes |-> IF p \in ps THEN [holds |-> None, tab |-> None] ELSE pane[p]]
Killed(ps) == [r \in Runs |-> IF \E p \in ps : Holds(p, r) /\ worker[r] = "up"
                              THEN "exited" ELSE worker[r]]
TabPanes(t) == {p \in Panes : t # None /\ pane[p].tab = t}
Alive(w) == {e \in w.panes : pane[e[1]].holds # None}

(* What is closed and what stays in the record once the entries `out` have *)
(* left it: the tab goes with its last worker.                             *)
Released(w, out, shut) ==
  LET left == {e \in Alive(w) \ out : e[1] \notin shut} IN
  [w |-> IF left = {} THEN NoTab ELSE [w EXCEPT !.panes = left],
   shut |-> shut \cup (IF left = {} THEN TabPanes(w.tab) ELSE {})]

(* Lost workers leave the record by run; the shell an exited harness left  *)
(* is closed, and the tab with the last of them.                           *)
Unplaced(w, rs) ==
  LET out == {e \in w.panes : e[2] \in rs}
      own == {folder[r].pane : r \in {x \in rs : Exited(x)}}
  IN IF own = {} THEN [w |-> [w EXCEPT !.panes = @ \ out], shut |-> {}]
     ELSE Released(w, out, own)

RowsClosed(rs, reason) ==
  [r \in Runs |-> IF r \in rs /\ Open(r) THEN [row[r] EXCEPT !.st = reason] ELSE row[r]]
FoldersFinished(rs, reason) ==
  [r \in Runs |-> IF r \in rs THEN [folder[r] EXCEPT !.exit = reason] ELSE folder[r]]
ClaimsExpired(rs) ==
  [r \in Runs |-> IF r \in rs /\ claim[r] = "held" THEN "expired" ELSE claim[r]]

(***************************************************************************)
(* Spawn.                                                                  *)
(***************************************************************************)

(* Under the lock: gone panes are pruned, lost workers are unplaced and    *)
(* closed, entries of closed rows dropped; then the cap.                   *)
SpawnBegin(c, k) ==
  /\ proc[c].at = "idle" /\ lock = None
  /\ \E r \in Runs : row[r].st = "none"
  /\ LET lost == {r \in Runs : Open(r) /\ IsLost(r) /\ \E p \in Panes : <<p, r>> \in Alive(record)}
         u == Unplaced([record EXCEPT !.panes = Alive(record)], lost)
         w == [u.w EXCEPT !.panes = {e \in @ : Open(e[2])}]
     IN /\ row' = RowsClosed(lost, "gone") /\ folder' = FoldersFinished(lost, "gone")
        /\ claim' = ClaimsExpired(lost)
        /\ pane' = Closing(u.shut) /\ worker' = Killed(u.shut)
        /\ IF Cardinality(w.panes) >= MaxWorkers
           THEN UNCHANGED <<proc, lock>>
           ELSE /\ proc' = [proc EXCEPT ![c] = [Idle EXCEPT !.at = "claim", !.key = k, !.w = w]]
                /\ lock' = c
  /\ UNCHANGED <<used, record, faults>>

Rivals(k) == {r \in Runs : Open(r) /\ row[r].key = k}
(* A row without a pane whose spawner lives is younger than five minutes.  *)
SpawnerLives(r) == \E c \in Clients : proc[c].run = r /\ proc[c].at \in SpawnSteps
Stale(r) == folder[r].pane = None /\ ~SpawnerLives(r)

\* Mutant: only the name's own rows that are bound count as live.
SpawnClaimBound(c) ==
  /\ proc[c].at = "claim"
  /\ \E r \in Runs :
       /\ row[r].st = "none"
       /\ LET rivals == {x \in Rivals(proc[c].key) : worker[x] = "up"} IN
          IF rivals # {}
          THEN proc' = [proc EXCEPT ![c] = Idle] /\ lock' = None /\ UNCHANGED <<disk, pane, worker>>
          ELSE /\ row' = [row EXCEPT ![r] = [st |-> "open", key |-> proc[c].key]]
               /\ proc' = [proc EXCEPT ![c].at = "place", ![c].run = r]
               /\ UNCHANGED <<folder, claim, pane, worker, lock>>
  /\ UNCHANGED <<used, record, faults>>

(* The name and the item must be free; lost rivals are closed first, and   *)
(* rows that never got a pane.  Then the row is opened.                    *)
SpawnClaim(c) ==
  /\ proc[c].at = "claim"
  /\ \E r \in Runs :
       /\ row[r].st = "none"
       /\ LET rivals == Rivals(proc[c].key)
              lost == {x \in rivals : IsLost(x) \/ Stale(x)}
              u == Unplaced(proc[c].w, lost)
          IN /\ row' = [RowsClosed(lost, "gone") EXCEPT
                          ![r] = IF rivals = lost THEN [st |-> "open", key |-> proc[c].key] ELSE @]
             /\ folder' = FoldersFinished(lost, "gone") /\ claim' = ClaimsExpired(lost)
             /\ pane' = Closing(u.shut) /\ worker' = Killed(u.shut)
             /\ IF rivals = lost
                THEN /\ proc' = [proc EXCEPT ![c].at = "place", ![c].run = r, ![c].w = u.w]
                     /\ UNCHANGED lock
                ELSE proc' = [proc EXCEPT ![c] = Idle] /\ lock' = None
  /\ UNCHANGED <<used, record, faults>>

FreePanes == {p \in Panes : pane[p].holds = None /\ (p \notin used \/ "reuse" \in Faults)}
(* Whether herdr gives out a pane id it has given out before.              *)
GivesOut(p) == IF p \in used THEN Fault("reuse") ELSE UNCHANGED faults

\* Mutant: the record saved is the new worker's alone.
SpawnPlaceForgets(c) ==
  LET r == proc[c].run  w == proc[c].w  tab == IF w.tab = None \/ Alive(w) = {} THEN r ELSE w.tab IN
  /\ proc[c].at = "place"
  /\ \E p \in FreePanes :
       /\ GivesOut(p)
       /\ pane' = [pane EXCEPT ![p] = [holds |-> r, tab |-> tab]] /\ used' = used \cup {p}
       /\ folder' = [folder EXCEPT ![r].pane = p]
       /\ record' = [tab |-> tab, panes |-> {<<p, r>>}]
  /\ proc' = [proc EXCEPT ![c].at = "boot", ![c].w = NoTab] /\ lock' = None
  /\ UNCHANGED <<row, claim, worker>>

(* A pane is split, or a new tab is made when none of the record's panes   *)
(* exists.  Its terminal is pinned and the record saved with the lock.     *)
SpawnPlace(c) ==
  LET r == proc[c].run  w == proc[c].w  tab == IF w.tab = None \/ Alive(w) = {} THEN r ELSE w.tab IN
  /\ proc[c].at = "place"
  /\ \E p \in FreePanes :
       /\ GivesOut(p)
       /\ pane' = [pane EXCEPT ![p] = [holds |-> r, tab |-> tab]] /\ used' = used \cup {p}
       /\ folder' = [folder EXCEPT ![r].pane = p]
       /\ record' = [tab |-> tab,
                     panes |-> (IF tab = r THEN {} ELSE w.panes) \cup {<<p, r>>}]
  /\ proc' = [proc EXCEPT ![c].at = "boot", ![c].w = NoTab] /\ lock' = None
  /\ UNCHANGED <<row, claim, worker>>

\* Mutant: a refusal keeps the lock.
SpawnRefusedHolding(c) ==
  /\ proc[c].at = "place"
  /\ IF FreePanes = {} THEN UNCHANGED faults ELSE Fault("refuse")
  /\ proc' = [proc EXCEPT ![c].at = "abandon", ![c].w = NoTab]
  /\ UNCHANGED <<disk, herdr, record, lock>>

(* No pane, or no terminal id for it: nothing is placed and nothing saved. *)
SpawnRefused(c) ==
  /\ proc[c].at = "place"
  /\ IF FreePanes = {} THEN UNCHANGED faults ELSE Fault("refuse")
  /\ proc' = [proc EXCEPT ![c].at = "abandon", ![c].w = NoTab] /\ lock' = None
  /\ UNCHANGED <<disk, herdr, record>>

(* The boot line is typed into the worker's own pane only.                 *)
SpawnBoot(c) ==
  LET r == proc[c].run IN
  /\ proc[c].at = "boot"
  /\ \/ /\ OwnPane(r) /\ worker' = [worker EXCEPT ![r] = "up"]
        /\ claim' = [claim EXCEPT ![r] = "held"]
        /\ proc' = [proc EXCEPT ![c] = Idle] /\ UNCHANGED faults
     \/ /\ IF OwnPane(r) THEN Fault("refuse") ELSE UNCHANGED faults
        /\ proc' = [proc EXCEPT ![c].at = "abandon"] /\ UNCHANGED <<worker, claim>>
  /\ UNCHANGED <<row, folder, pane, used, record, lock>>

SpawnAbandon(c) ==
  LET r == proc[c].run  own == IF OwnPane(r) THEN {folder[r].pane} ELSE {} IN
  /\ proc[c].at = "abandon"
  /\ pane' = Closing(own) /\ worker' = Killed(own)
  /\ row' = RowsClosed({r}, "gone")
  /\ folder' = IF Open(r) THEN FoldersFinished({r}, "gone") ELSE folder
  /\ proc' = [proc EXCEPT ![c].at = IF folder[r].pane = None THEN "idle" ELSE "unwind",
                          ![c].run = IF folder[r].pane = None THEN None ELSE r]
  /\ UNCHANGED <<claim, used, record, lock, faults>>

(***************************************************************************)
(* The release of a pane: by a boot that failed, and by a stop.            *)
(***************************************************************************)

\* Mutant: the tab is closed with its first worker.
ReleasePaneAndTab(c) ==
  /\ proc[c].at \in {"unwind", "release"} /\ lock = None
  /\ LET shut == TabPanes(record.tab)
     IN record' = NoTab /\ pane' = Closing(shut) /\ worker' = Killed(shut)
  /\ proc' = [proc EXCEPT ![c] = IF proc[c].at = "unwind" THEN Idle ELSE [@ EXCEPT !.at = "end"]]
  /\ UNCHANGED <<disk, used, lock, faults>>

ReleasePane(c) ==
  /\ proc[c].at \in {"unwind", "release"} /\ lock = None
  /\ LET mine == {e \in record.panes : e[1] = folder[proc[c].run].pane}
         u == Released(record, mine, {})
     IN record' = u.w /\ pane' = Closing(u.shut) /\ worker' = Killed(u.shut)
  /\ proc' = [proc EXCEPT ![c] = IF proc[c].at = "unwind" THEN Idle ELSE [@ EXCEPT !.at = "end"]]
  /\ UNCHANGED <<disk, used, lock, faults>>

(***************************************************************************)
(* Stop, and the looks of list and wait.                                   *)
(***************************************************************************)
Begins(c, step, r, saw) == proc' = [proc EXCEPT ![c] = [Idle EXCEPT !.at = step, !.run = r, !.saw = saw]]

(* A stop of a lost worker ends it as gone; its pane is closed only when   *)
(* it is its own.                                                          *)
StopBegin(c, r) ==
  /\ proc[c].at = "idle" /\ Open(r) /\ folder[r].pane # None
  /\ IF ~PaneGone(r) THEN Begins(c, "exit", r, IF IsLost(r) THEN "gone" ELSE "stop")
     ELSE Begins(c, IF pane[folder[r].pane].holds = None THEN "release" ELSE "unplace", r, "gone")
  /\ UNCHANGED <<disk, herdr, record, lock, faults>>

(* The exit command is typed into an own pane that runs a harness; the     *)
(* worker's SessionEnd ends its episode.                                   *)
StopExit(c) ==
  LET r == proc[c].run IN
  /\ proc[c].at = "exit"
  /\ IF OwnPane(r)
     THEN /\ worker' = [worker EXCEPT ![r] = IF @ = "up" THEN "exited" ELSE @]
          /\ claim' = [claim EXCEPT ![r] = IF worker[r] = "up" /\ @ = "held" THEN "ended" ELSE @]
          /\ proc' = [proc EXCEPT ![c].at = "close"]
     ELSE proc' = [proc EXCEPT ![c] = Idle] /\ UNCHANGED <<worker, claim>>
  /\ UNCHANGED <<row, folder, pane, used, record, lock, faults>>

StopClose(c) ==
  LET r == proc[c].run IN
  /\ proc[c].at = "close"
  /\ IF OwnPane(r)
     THEN /\ pane' = Closing({folder[r].pane}) /\ worker' = Killed({folder[r].pane})
          /\ proc' = [proc EXCEPT ![c].at = "release"]
     ELSE proc' = [proc EXCEPT ![c] = Idle] /\ UNCHANGED <<pane, worker>>
  /\ UNCHANGED <<disk, used, record, lock, faults>>

(* A list or a wait that finds a worker lost.                              *)
LookLoses(c, r) ==
  /\ proc[c].at = "idle" /\ Open(r) /\ IsLost(r)
  /\ Begins(c, "unplace", r, "gone")
  /\ UNCHANGED <<disk, herdr, record, lock, faults>>

LoseUnplace(c) ==
  /\ proc[c].at = "unplace" /\ lock = None
  /\ LET u == Unplaced(record, {proc[c].run})
     IN record' = u.w /\ pane' = Closing(u.shut) /\ worker' = Killed(u.shut)
  /\ proc' = [proc EXCEPT ![c].at = "end"]
  /\ UNCHANGED <<disk, used, lock, faults>>

\* Mutant: the end of a run leaves its worker's episode.
FinishFolderOnly(c) ==
  /\ proc[c].at = "finish"
  /\ folder' = FoldersFinished({proc[c].run}, proc[c].saw)
  /\ proc' = [proc EXCEPT ![c] = Idle]
  /\ UNCHANGED <<row, claim, herdr, record, lock, faults>>

\* Mutant: whoever ends a run finishes its folder, closed before or not.
EndRowAnyway(c) ==
  /\ proc[c].at = "end"
  /\ row' = RowsClosed({proc[c].run}, proc[c].saw)
  /\ proc' = [proc EXCEPT ![c].at = "finish"]
  /\ UNCHANGED <<folder, claim, herdr, record, lock, faults>>

(* Only the call that closed the row finishes the folder.                  *)
EndRow(c) ==
  LET r == proc[c].run IN
  /\ proc[c].at = "end"
  /\ row' = RowsClosed({r}, proc[c].saw)
  /\ proc' = [proc EXCEPT ![c] = IF Open(r) THEN [@ EXCEPT !.at = "finish"] ELSE Idle]
  /\ UNCHANGED <<folder, claim, herdr, record, lock, faults>>

FinishFolder(c) ==
  /\ proc[c].at = "finish"
  /\ folder' = FoldersFinished({proc[c].run}, proc[c].saw)
  /\ proc' = [proc EXCEPT ![c] = IF proc[c].saw = "gone" THEN [@ EXCEPT !.at = "expire"] ELSE Idle]
  /\ UNCHANGED <<row, claim, herdr, record, lock, faults>>

ExpireClaims(c) ==
  /\ proc[c].at = "expire"
  /\ claim' = ClaimsExpired({proc[c].run})
  /\ proc' = [proc EXCEPT ![c] = Idle]
  /\ UNCHANGED <<row, folder, herdr, record, lock, faults>>

(***************************************************************************)
(* What else happens.                                                      *)
(***************************************************************************)
Die(c) ==
  /\ proc[c].at # "idle" /\ Fault("die")
  /\ proc' = [proc EXCEPT ![c] = Idle] /\ lock' = IF lock = c THEN None ELSE lock
  /\ UNCHANGED <<disk, herdr, record>>

(* A harness that crashes leaves its episode held.                         *)
HarnessExits(r) ==
  /\ worker[r] = "up" /\ Fault("exit")
  /\ worker' = [worker EXCEPT ![r] = "exited"]
  /\ UNCHANGED <<disk, pane, used, record, lock, proc>>

PersonTakesPane(p) ==
  /\ pane[p].holds \in Runs /\ Fault("person")
  /\ \E h \in {None, Stranger} : pane' = [pane EXCEPT ![p] = [holds |-> h, tab |-> None]]
  /\ worker' = Killed({p})
  /\ UNCHANGED <<disk, used, record, lock, proc>>

Goes(c) ==
  \/ SpawnClaim(c) \/ SpawnPlace(c) \/ SpawnRefused(c) \/ SpawnBoot(c) \/ SpawnAbandon(c)
  \/ ReleasePane(c) \/ StopExit(c) \/ StopClose(c) \/ LoseUnplace(c)
  \/ EndRow(c) \/ FinishFolder(c) \/ ExpireClaims(c)
Looks(c) == \E r \in Runs : LookLoses(c, r)

RowsNext ==
  \/ \E c \in Clients : \/ Goes(c) \/ Looks(c) \/ Die(c)
                        \/ \E k \in Keys : SpawnBegin(c, k)
                        \/ \E r \in Runs : StopBegin(c, r)
  \/ \E r \in Runs : HarnessExits(r)
  \/ \E p \in Panes : PersonTakesPane(p)

RowsSpec == RowsInit /\ [][RowsNext]_rows

(***************************************************************************)
(* Properties                                                              *)
(***************************************************************************)
Working == {r \in Runs : worker[r] = "up" /\ OwnPane(r)}

(* One worker per item and per name runs, and its row is open: the refusal *)
(* of a second one can rely on the ledger (claims.go checkLive).           *)
OneWorker ==
  /\ \A r \in Working : Open(r)
  /\ \A r, s \in Working : row[r].key = row[s].key => r = s

(* No more workers run than the tab's cap: an entry leaves the record only *)
(* when its worker does not run.  A stop whose pane id herdr gave out once *)
(* more before the release takes the entry of the new worker instead.      *)
CapHeld == faults["reuse"] = 0 => Cardinality(Working) <= MaxWorkers

(* The run folder tells the same end as the row, which keeps the first one *)
(* (stop.go: "a concurrent close keeps its own end").                      *)
OneEnd ==
  \A r \in Runs : folder[r].exit # "none" => folder[r].exit = row[r].st

(* An episode is expired only when its worker runs no more.                *)
ExpiredOnlyLost == \A r \in Runs : claim[r] = "expired" => r \notin Working

(* What holds in every state of the rows, folders, claims and panes.       *)
RowsSound == RowsTyped /\ OneWorker /\ CapHeld /\ OneEnd /\ ExpiredOnlyLost

(* As long as herdr gives no pane id out twice, a harness that runs goes   *)
(* down by itself, by a person or by a stop of its own run (lifecycle.go:  *)
(* "a pane id herdr gave to someone else is never touched"): the release   *)
(* of another worker's pane spares it.                                     *)
NoneKilled ==
  [][\A r \in Working : worker'[r] # "up" =>
       \/ faults' # faults \/ faults["reuse"] > 0
       \/ \E c \in Clients : proc[c].run = r /\ proc[c].at \in {"exit", "close"}]_rows

(* A row that is closed has its exit file - a folder without one is live   *)
(* (runstore/sweep.go) and kept whatever its age - and, when it ended as   *)
(* gone, no held episode, or the call that closed it is about to see to    *)
(* that: no second call, which finds the row closed, will.  Left out: a    *)
(* client that dies on the way.                                            *)
EndsFinished ==
  faults["die"] = 0 =>
    \A r \in Runs :
      LET sees(steps) == \E c \in Clients : proc[c].run = r /\ proc[c].at \in steps IN
      /\ row[r].st \in Ended => folder[r].exit # "none" \/ sees({"finish"})
      /\ row[r].st = "gone" => claim[r] # "held" \/ sees({"finish", "expire"})
=============================================================================

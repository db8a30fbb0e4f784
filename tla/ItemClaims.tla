----------------------------- MODULE ItemClaims -----------------------------
(***************************************************************************)
(* Claims of one work item, and the sessions that hold them                *)
(* (core/claimledger, core/sessionledger, the SessionEnd catch-up of       *)
(* core/hooks, and the status transitions of cmd/wipnote).                 *)
(*                                                                         *)
(* A start writes the item's status and, under the same item lock, opens a *)
(* claim episode in the shard of its session; a completion writes the      *)
(* status, commits, and then sweeps the shards one by one.  A session that *)
(* ends writes a note, ends its row in the sessions ledger and closes its  *)
(* episodes; the next session to start catches up on what an end hook that *)
(* was cancelled left undone.                                              *)
(*                                                                         *)
(* Sessions are their own roots and act as one agent each.  A process is   *)
(* one invocation of wipnote, a command or a hook.  Every ledger access is *)
(* one read-modify-write under that file's guard.  Time is a counter that  *)
(* moves with each stamp, as transitionTime forces it to.                  *)
(***************************************************************************)
EXTENDS Naturals, FiniteSets

CONSTANTS
  Sessions,   \* agent sessions that may work on the item
  Procs,      \* wipnote processes
  Commands,   \* the commands the sessions may run
  MaxTime,    \* bound: stamps in one behaviour
  MaxFaults,  \* bound: deaths, failed commits and failed closes in one behaviour
  NoSession, NoProc

AllCommands == {"start", "force", "complete", "block", "stale", "reconcile"}

ASSUME ClaimConstants ==
  /\ Commands \subseteq AllCommands
  /\ MaxTime \in Nat /\ MaxFaults \in Nat
  /\ NoSession \notin Sessions /\ NoProc \notin Procs

VARIABLES
  status,     \* the item's status
  updatedAt,  \* the stamp of its last transition
  itemLock,   \* the process that holds its write lock
  shard,      \* per session: the start of its open episode on the item, or 0
  row,        \* per session: its row in the sessions ledger
  note,       \* per session: the end its latest end note records, or 0
  marker,     \* per session: the note end a catch-up has finished, or 0
  alive,      \* per session: its harness is running
  pc, job,    \* per process: the next step, and what it is working on
  now, faults,
  since,      \* history: when the item last came in progress
  swept,      \* history: the last completion whose sweep ended
  launched,   \* per session: when its running, or last, harness was launched
  missed      \* history: the closes of an end that failed in a catch-up

item    == <<status, updatedAt, itemLock, since>>
ends    == <<note, marker, alive, launched, missed>>
vars == <<item, shard, row, ends, pc, job, now, faults, swept>>

Stamps == 0 .. MaxTime
Statuses == {"todo", "in-progress", "blocked", "done", "stale"}
PCs == {"idle", "starting", "closeStale", "openEpisode", "completing",
        "closeOwn", "commit", "reopen", "sweep", "marking", "expire",
        "note", "openRow", "catchUp", "closeRow", "closeEpisodes", "mark"}
Row == [state : {"none", "open", "ended"}, start : Stamps, resumed : BOOLEAN]
Job == [cmd : AllCommands \cup {"launch", "exit", "none"},
        session : Sessions \cup {NoSession},
        target : Sessions \cup {NoSession},   \* whose end is being finished
        at : Stamps,                          \* its stamp, or the note's end
        todo : SUBSET Sessions]               \* shards or sessions to visit

ItemTyped ==
  /\ status \in Statuses /\ updatedAt \in Stamps
  /\ itemLock \in Procs \cup {NoProc}
  /\ now \in Stamps /\ faults \in 0 .. MaxFaults
  /\ since \in Stamps /\ swept \in Stamps
LedgersTyped ==
  /\ shard \in [Sessions -> Stamps]
  /\ row \in [Sessions -> Row]
  /\ note \in [Sessions -> Stamps] /\ marker \in [Sessions -> Stamps]
  /\ alive \in [Sessions -> BOOLEAN] /\ launched \in [Sessions -> Stamps]
  /\ missed \subseteq Sessions \X Stamps \X {"row", "episodes"}
ProcsTyped ==
  /\ pc \in [Procs -> PCs] /\ job \in [Procs -> Job]
  /\ \A p \in Procs : pc[p] # "idle" => job[p].session \in Sessions
  /\ \A p \in Procs :
       pc[p] \in {"closeRow", "closeEpisodes", "mark"} => job[p].target \in Sessions

TypeOK == ItemTyped /\ LedgersTyped /\ ProcsTyped

JobOf(cmd, s, target, todo) ==
  [cmd |-> cmd, session |-> s, target |-> target, at |-> 0, todo |-> todo]
NoJob == JobOf("none", NoSession, NoSession, {})

Init ==
  /\ status = "todo" /\ updatedAt = 0 /\ itemLock = NoProc
  /\ shard = [s \in Sessions |-> 0]
  /\ row = [s \in Sessions |-> [state |-> "none", start |-> 0, resumed |-> FALSE]]
  /\ note = [s \in Sessions |-> 0] /\ marker = [s \in Sessions |-> 0]
  /\ alive = [s \in Sessions |-> FALSE]
  /\ pc = [p \in Procs |-> "idle"] /\ job = [p \in Procs |-> NoJob]
  /\ now = 0 /\ faults = 0
  /\ since = 0 /\ swept = 0 /\ launched = [s \in Sessions |-> 0] /\ missed = {}

-----------------------------------------------------------------------------
(* Vocabulary *)

Busy(s) == \E p \in Procs : pc[p] # "idle" /\ job[p].session = s
GoTo(p, step) == pc' = [pc EXCEPT ![p] = step]
Finish(p) == GoTo(p, "idle") /\ job' = [job EXCEPT ![p] = NoJob]
Tick == now < MaxTime /\ now' = now + 1
Fault == faults < MaxFaults /\ faults' = faults + 1

\* A running session, once its start hook has returned, starts a command.
Ready(s) ==
  alive[s] /\ \A q \in Procs : job[q].session = s => job[q].cmd \notin {"launch", "exit"}
Begin(p, s, cmd, step, todo) ==
  /\ pc[p] = "idle" /\ cmd \in Commands /\ Ready(s)
  /\ job' = [job EXCEPT ![p] = JobOf(cmd, s, NoSession, todo)]
  /\ GoTo(p, step)

CloseEpisode(s) == shard' = [shard EXCEPT ![s] = 0]

-----------------------------------------------------------------------------
(* Starting the item *)

\* sessionsLedgerNotEnded: a session without a row, or without an end, is live.
LiveForeign(s) ==
  \E t \in Sessions \ {s} : shard[t] # 0 /\ row[t].state # "ended"

\* checkLiveCollisionGate reads the ledgers before the item is locked.
BeginStart(p, s, cmd) ==
  /\ cmd \in {"start", "force"} /\ Begin(p, s, cmd, "starting", {})
  /\ cmd = "start" => ~LiveForeign(s)
  /\ UNCHANGED <<item, shard, row, ends, now, faults, swept>>

\* What writing the status under the item lock does.
Write(p, st) ==
  /\ itemLock = NoProc /\ Tick
  /\ status' = st /\ updatedAt' = now + 1
  /\ since' = IF st = "in-progress" /\ status # st THEN now + 1 ELSE since
  /\ UNCHANGED <<row, ends, swept>>

\* Mutant: the episode is recorded after the item lock is released.
WriteActiveUnlocked(p) ==
  /\ pc[p] = "starting" /\ Write(p, "in-progress") /\ UNCHANGED itemLock
  /\ job' = [job EXCEPT ![p].at = now + 1]
  /\ GoTo(p, IF status # "in-progress" THEN "closeStale" ELSE "openEpisode")
  /\ UNCHANGED <<shard, faults>>

\* Collection.Start writes the status and keeps the lock for its hook ...
WriteActive(p) ==
  /\ pc[p] = "starting" /\ Write(p, "in-progress") /\ itemLock' = p
  /\ job' = [job EXCEPT ![p].at = now + 1]
  /\ GoTo(p, IF status # "in-progress" THEN "closeStale" ELSE "openEpisode")
  /\ UNCHANGED <<shard, faults>>

\* ... which ends an episode left from before the item was restarted ...
CloseStale(p) ==
  /\ pc[p] = "closeStale"
  /\ CloseEpisode(job[p].session)
  /\ GoTo(p, "openEpisode")
  /\ UNCHANGED <<item, row, ends, job, now, faults, swept>>

\* Mutant: the episode is stamped after the transition it belongs to.
OpenEpisodeLater(p) ==
  LET s == job[p].session IN
  /\ pc[p] = "openEpisode"
  /\ shard' = [shard EXCEPT ![s] = IF @ = 0 THEN job[p].at + 1 ELSE @]
  /\ itemLock' = NoProc
  /\ Finish(p)
  /\ UNCHANGED <<status, updatedAt, since, row, ends, now, faults, swept>>

\* ... and opens one, unless the session holds one already.
OpenEpisode(p) ==
  LET s == job[p].session IN
  /\ pc[p] = "openEpisode"
  /\ shard' = [shard EXCEPT ![s] = IF @ = 0 THEN job[p].at ELSE @]
  /\ itemLock' = NoProc
  /\ Finish(p)
  /\ UNCHANGED <<status, updatedAt, since, row, ends, now, faults, swept>>

-----------------------------------------------------------------------------
(* Completing it *)

BeginComplete(p, s) ==
  /\ Begin(p, s, "complete", "completing", {})
  /\ UNCHANGED <<item, shard, row, ends, now, faults, swept>>

WriteDone(p) ==
  /\ pc[p] = "completing" /\ Write(p, "done") /\ UNCHANGED itemLock
  /\ job' = [job EXCEPT ![p].at = now + 1]
  /\ GoTo(p, "closeOwn")
  /\ UNCHANGED <<shard, faults>>

\* afterDone ends the caller's own episode, whenever it began.
CloseOwn(p) ==
  /\ pc[p] = "closeOwn"
  /\ CloseEpisode(job[p].session)
  /\ GoTo(p, "commit")
  /\ UNCHANGED <<item, row, ends, job, now, faults, swept>>

\* The artifact commit succeeds, or its failure leaves the item done.
CommitSticks(p) ==
  /\ pc[p] = "commit"
  /\ job' = [job EXCEPT ![p].todo = Sessions]
  /\ GoTo(p, "sweep")
  /\ UNCHANGED <<item, shard, row, ends, now, faults, swept>>

CommitFails(p) ==
  /\ pc[p] = "commit" /\ Fault
  /\ GoTo(p, "reopen")
  /\ UNCHANGED <<item, shard, row, ends, job, now, swept>>

\* The compensating re-open is a Start without the claim hook.
Reopen(p) ==
  /\ pc[p] = "reopen" /\ Write(p, "in-progress") /\ UNCHANGED itemLock
  /\ Finish(p)
  /\ UNCHANGED <<shard, faults>>

\* Mutant: the sweep is not bounded by the completion's stamp.
SweepShardUnbounded(p, s) ==
  /\ pc[p] = "sweep" /\ s \in job[p].todo
  /\ shard' = [shard EXCEPT ![s] = 0]
  /\ job' = [job EXCEPT ![p].todo = @ \ {s}]
  /\ UNCHANGED <<item, row, ends, pc, now, faults, swept>>

\* CloseWorkItem visits the shards one at a time; only a completion bounds it.
SweepShard(p, s) ==
  /\ pc[p] = "sweep" /\ s \in job[p].todo
  /\ shard' = [shard EXCEPT ![s] = IF job[p].cmd = "stale" \/ @ <= job[p].at THEN 0 ELSE @]
  /\ job' = [job EXCEPT ![p].todo = @ \ {s}]
  /\ UNCHANGED <<item, row, ends, pc, now, faults, swept>>

EndSweep(p) ==
  /\ pc[p] = "sweep" /\ job[p].todo = {}
  /\ swept' = IF job[p].cmd = "complete" THEN job[p].at ELSE swept
  /\ Finish(p)
  /\ UNCHANGED <<item, shard, row, ends, now, faults>>

-----------------------------------------------------------------------------
(* Other commands on the item and on its claims *)

Block(p, s) ==
  /\ "block" \in Commands /\ pc[p] = "idle" /\ Ready(s)
  /\ Write(p, "blocked")
  /\ UNCHANGED <<itemLock, shard, pc, job, faults>>

\* staleCandidates reads the item without its lock.
BeginStale(p, s) ==
  /\ status \in {"todo", "in-progress"}
  /\ Begin(p, s, "stale", "marking", {})
  /\ UNCHANGED <<item, shard, row, ends, now, faults, swept>>

MarkStale(p) ==
  /\ pc[p] = "marking" /\ Write(p, "stale") /\ UNCHANGED itemLock
  /\ job' = [job EXCEPT ![p].todo = Sessions]
  /\ GoTo(p, "sweep")
  /\ UNCHANGED <<shard, faults>>

\* claimLedgerLivePredicate reads the sessions ledger once, up front.
EndedOthers(s) == {t \in Sessions \ {s} : row[t].state = "ended"}

BeginReconcile(p, s) ==
  /\ Begin(p, s, "reconcile", "expire", EndedOthers(s))
  /\ UNCHANGED <<item, shard, row, ends, now, faults, swept>>

ExpireShard(p, s) ==
  /\ pc[p] = "expire" /\ s \in job[p].todo
  /\ CloseEpisode(s)
  /\ job' = [job EXCEPT ![p].todo = @ \ {s}]
  /\ UNCHANGED <<item, row, ends, pc, now, faults, swept>>

EndReconcile(p) ==
  /\ pc[p] = "expire" /\ job[p].todo = {}
  /\ Finish(p)
  /\ UNCHANGED <<item, shard, row, ends, now, faults, swept>>

-----------------------------------------------------------------------------
(* Sessions: the SessionStart hook *)

\* The harness launches or resumes the session and runs the hook before any
\* command of it.
Launch(p, s) ==
  /\ ~alive[s] /\ ~Busy(s) /\ pc[p] = "idle" /\ Tick
  /\ alive' = [alive EXCEPT ![s] = TRUE]
  /\ launched' = [launched EXCEPT ![s] = now + 1]
  /\ job' = [job EXCEPT ![p] = JobOf("launch", s, NoSession, Sessions \ {s})]
  /\ GoTo(p, "openRow")
  /\ UNCHANGED <<item, shard, row, note, marker, missed, faults, swept>>

\* Its first write is Store.Open, which adds the row, or a run to a row that
\* ended; the stamp is the hook's own start.
OpenRow(p) ==
  LET s == job[p].session IN
  /\ pc[p] = "openRow"
  /\ row' = [row EXCEPT ![s] =
       IF @.state = "open" THEN @
       ELSE [state |-> "open", start |-> launched[s], resumed |-> @.state = "ended"]]
  /\ GoTo(p, "catchUp")
  /\ UNCHANGED <<item, shard, ends, job, now, faults, swept>>

\* Mutant: the marker is written before the work it stands for.
ReadNoteAndMark(p, t) ==
  /\ pc[p] = "catchUp" /\ t \in job[p].todo
  /\ IF note[t] # 0 /\ marker[t] # note[t]
     THEN /\ job' = [job EXCEPT ![p].todo = @ \ {t}, ![p].target = t, ![p].at = note[t]]
          /\ GoTo(p, "closeRow")
     ELSE job' = [job EXCEPT ![p].todo = @ \ {t}] /\ UNCHANGED pc
  /\ marker' = [marker EXCEPT ![t] = note[t]]
  /\ UNCHANGED <<item, shard, row, note, alive, launched, missed, now, faults, swept>>

\* CatchUpEndedSessions looks at the other sessions in turn, and finishes the
\* end of one whose latest note has no marker.
ReadNote(p, t) ==
  /\ pc[p] = "catchUp" /\ t \in job[p].todo
  /\ IF note[t] # 0 /\ marker[t] # note[t]
     THEN /\ job' = [job EXCEPT ![p].todo = @ \ {t}, ![p].target = t, ![p].at = note[t]]
          /\ GoTo(p, "closeRow")
     ELSE job' = [job EXCEPT ![p].todo = @ \ {t}] /\ UNCHANGED pc
  /\ UNCHANGED <<item, shard, row, ends, now, faults, swept>>

Mark(p) ==
  /\ pc[p] = "mark"
  /\ marker' = [marker EXCEPT ![job[p].target] = job[p].at]
  /\ job' = [job EXCEPT ![p].target = NoSession, ![p].at = 0]
  /\ GoTo(p, "catchUp")
  /\ UNCHANGED <<item, shard, row, note, alive, launched, missed, now, faults, swept>>

EndCatchUp(p) ==
  /\ pc[p] = "catchUp" /\ job[p].todo = {}
  /\ Finish(p)
  /\ UNCHANGED <<item, shard, row, ends, now, faults, swept>>

-----------------------------------------------------------------------------
(* Sessions: the SessionEnd hook, and how a catch-up repeats it *)

\* The harness ends its commands, runs the hook, and exits.
Exit(p, s) ==
  /\ alive[s] /\ ~Busy(s) /\ pc[p] = "idle"
  /\ alive' = [alive EXCEPT ![s] = FALSE]
  /\ job' = [job EXCEPT ![p] = JobOf("exit", s, s, {})]
  /\ GoTo(p, "note")
  /\ UNCHANGED <<item, shard, row, note, marker, launched, missed, now, faults, swept>>

RecordNote(p) ==
  LET s == job[p].session IN
  /\ pc[p] = "note" /\ Tick
  /\ note' = [note EXCEPT ![s] = now + 1]
  /\ job' = [job EXCEPT ![p].at = now + 1]
  /\ GoTo(p, "closeRow")
  /\ UNCHANGED <<item, shard, row, marker, alive, launched, missed, faults, swept>>

\* Store.Close: an end before the start of a resumed run belongs to an earlier
\* one.
CloseRow(p) ==
  LET t == job[p].target IN
  /\ pc[p] = "closeRow"
  /\ row' = IF row[t].state = "open" /\ ~(row[t].resumed /\ job[p].at < row[t].start)
            THEN [row EXCEPT ![t].state = "ended"] ELSE row
  /\ GoTo(p, "closeEpisodes")
  /\ UNCHANGED <<item, shard, ends, job, now, faults, swept>>

\* CloseAllForSession; an end hook ends here, a catch-up goes on to its marker.
EpisodesTried(p) ==
  /\ pc[p] = "closeEpisodes"
  /\ IF job[p].cmd = "exit" THEN Finish(p) ELSE GoTo(p, "mark") /\ UNCHANGED job
  /\ UNCHANGED <<item, row, note, marker, alive, launched, now, swept>>

CloseEpisodes(p) ==
  /\ EpisodesTried(p)
  /\ CloseEpisode(job[p].target)
  /\ UNCHANGED <<missed, faults>>

\* A ledger that cannot be read or written is logged, and the hook goes on.
Miss(p, what) ==
  /\ Fault
  /\ missed' = IF job[p].cmd = "exit" THEN missed
               ELSE missed \cup {<<job[p].target, job[p].at, what>>}

CloseRowFails(p) ==
  /\ pc[p] = "closeRow" /\ Miss(p, "row")
  /\ GoTo(p, "closeEpisodes")
  /\ UNCHANGED <<item, shard, row, note, marker, alive, launched, job, now, swept>>

CloseEpisodesFail(p) ==
  EpisodesTried(p) /\ Miss(p, "episodes") /\ UNCHANGED shard

-----------------------------------------------------------------------------
(* Death: the kernel drops the item lock *)

Drop(P) == itemLock' = IF itemLock \in P THEN NoProc ELSE itemLock

\* A command fails or is killed, or the harness cancels a hook.
Crash(p) ==
  /\ pc[p] # "idle" /\ Fault
  /\ Finish(p) /\ Drop({p})
  /\ UNCHANGED <<status, updatedAt, since, shard, row, ends, now, swept>>

\* A harness is killed with all it runs, and no hook reports it.
Kill(s) ==
  LET its == {p \in Procs : pc[p] # "idle" /\ job[p].session = s} IN
  /\ alive[s] /\ Fault
  /\ alive' = [alive EXCEPT ![s] = FALSE]
  /\ pc' = [p \in Procs |-> IF p \in its THEN "idle" ELSE pc[p]]
  /\ job' = [p \in Procs |-> IF p \in its THEN NoJob ELSE job[p]]
  /\ Drop(its)
  /\ UNCHANGED <<status, updatedAt, since, shard, row, note, marker, launched,
                 missed, now, swept>>

-----------------------------------------------------------------------------

StartStep(p) == WriteActive(p) \/ CloseStale(p) \/ OpenEpisode(p)
CompleteStep(p) ==
  \/ WriteDone(p) \/ CloseOwn(p) \/ CommitSticks(p) \/ CommitFails(p) \/ Reopen(p)
SweepStep(p) ==
  \/ MarkStale(p) \/ EndSweep(p) \/ EndReconcile(p)
  \/ \E s \in Sessions : SweepShard(p, s) \/ ExpireShard(p, s)
HookStep(p) ==
  \/ OpenRow(p) \/ EndCatchUp(p) \/ Mark(p)
  \/ RecordNote(p) \/ CloseRow(p) \/ CloseRowFails(p)
  \/ CloseEpisodes(p) \/ CloseEpisodesFail(p)
  \/ \E t \in Sessions : ReadNote(p, t)
Request(p, s) ==
  \/ \E cmd \in {"start", "force"} : BeginStart(p, s, cmd)
  \/ BeginComplete(p, s) \/ BeginStale(p, s) \/ BeginReconcile(p, s) \/ Block(p, s)
  \/ Launch(p, s) \/ Exit(p, s)

Next ==
  \/ \E p \in Procs :
       \/ StartStep(p) \/ CompleteStep(p) \/ SweepStep(p) \/ HookStep(p) \/ Crash(p)
       \/ \E s \in Sessions : Request(p, s)
  \/ \E s \in Sessions : Kill(s)

Spec == Init /\ [][Next]_vars

-----------------------------------------------------------------------------

\* A completion that stuck leaves nobody's claim open: as long as the item is
\* done by it, no session holds an open episode, however starts, other
\* completions and session ends interleave with its sweep.
DoneIsUnclaimed ==
  status = "done" /\ swept = updatedAt => \A s \in Sessions : shard[s] = 0

\* What holds in every state of the item, the shards and the sessions: no
\* stamp is of the future, and a completion that stuck left no claim open.
ClaimsSound == TypeOK /\ DoneIsUnclaimed

\* A session that wrote its end note and has a marker for it is closed in both
\* ledgers until it is launched again, whoever did it and whatever an end hook
\* that was cancelled or failed left undone.  The marker is written although a
\* close failed, and nobody tries again: of a ledger that failed a catch-up it
\* says nothing.
CaughtUp ==
  \A s \in Sessions : note[s] > launched[s] /\ marker[s] = note[s] =>
    /\ row[s].state = "open" => <<s, note[s], "row">> \in missed
    /\ shard[s] # 0 => <<s, note[s], "episodes">> \in missed

\* What the marker is taken for by later catch-ups: false once a close fails.
MarkedIsClosed ==
  \A s \in Sessions : note[s] > launched[s] /\ marker[s] = note[s] =>
    row[s].state # "open" /\ shard[s] = 0

Acts(p) == <<pc[p], job[p]>> # <<pc'[p], job'[p]>>

\* The claim of a running session on the stretch of work in progress is ended
\* by a process of that session, or by `wipnote stale`.
ClaimEnds(s) ==
  /\ alive[s] /\ status = "in-progress"
  /\ shard[s] # 0 /\ shard[s] >= since /\ shard'[s] # shard[s]
Entitled(s) ==
  \E p \in Procs : Acts(p) /\ (job[p].session = s \/ job[p].cmd = "stale")

\* Sweeps, catch-ups and reconciles leave the claim of a running session alone.
LiveClaimStands == [][\A s \in Sessions : ClaimEnds(s) => Entitled(s)]_vars

\* They do so at least for a session that never wrote an end note.
FirstRunClaimStands ==
  [][\A s \in Sessions : note[s] = 0 /\ ClaimEnds(s) => Entitled(s)]_vars

\* The strengthening under which these are inductive: which command a step
\* belongs to, who holds the item lock and what it wrote, that no stamp is ahead
\* of the item's, what a sweep has reached, that an item that came back in
\* progress did so after every completion under way, and that only sessions
\* with an end note are taken for ended.
Completing(p) ==
  job[p].cmd = "complete" /\ pc[p] \in {"closeOwn", "commit", "reopen", "sweep"}

StepsMatch ==
  \A p \in Procs :
    /\ pc[p] \in {"completing", "closeOwn", "commit", "reopen"} => job[p].cmd = "complete"
    /\ pc[p] = "marking" => job[p].cmd = "stale"
    /\ pc[p] = "sweep" => job[p].cmd \in {"complete", "stale"}
    /\ pc[p] \in {"openRow", "catchUp", "mark"} => job[p].cmd = "launch"
    /\ pc[p] = "note" => job[p].cmd = "exit"
    /\ pc[p] \in {"closeRow", "closeEpisodes"} => job[p].cmd \in {"launch", "exit"}
    /\ job[p].cmd = "exit" => job[p].target = job[p].session

LockHeld ==
  \A p \in Procs :
    /\ itemLock = p <=> pc[p] \in {"closeStale", "openEpisode"}
    /\ itemLock = p => status = "in-progress" /\ job[p].at = updatedAt

StampsPast ==
  /\ updatedAt <= now /\ swept <= updatedAt
  /\ \A s \in Sessions : shard[s] <= updatedAt
  /\ \A p \in Procs : Completing(p) => job[p].at <= updatedAt

SweptSoFar ==
  \A p \in Procs :
    pc[p] = "sweep" /\ job[p].cmd = "complete" /\ status = "done" /\ job[p].at = updatedAt
      => \A s \in Sessions \ job[p].todo : shard[s] = 0

BackLater ==
  status = "in-progress" => \A p \in Procs : Completing(p) => job[p].at < since

EndedNoted ==
  /\ \A s \in Sessions : row[s].state = "ended" => note[s] # 0
  /\ \A p \in Procs :
       /\ pc[p] \in {"closeRow", "closeEpisodes"} => note[job[p].target] # 0
       /\ pc[p] = "expire" => \A s \in job[p].todo : note[s] # 0

IInv ==
  /\ TypeOK /\ StepsMatch /\ LockHeld /\ StampsPast /\ SweptSoFar
  /\ BackLater /\ EndedNoted /\ DoneIsUnclaimed

=============================================================================

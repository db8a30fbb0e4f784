# Verification of wipnote

wipnote tracks work items for coding agents. Every command, hook and gate is a short-lived
process; the processes of a project share a directory of canonical files (`.wipnote/`), a git
repository, per-user queue files, an SQLite read index, a writer daemon and a telemetry collector.
Almost nothing is protected by a server: correctness rests on file locks, atomic renames,
append-only files, and on the order in which a process does its steps before it dies. The modules
in this directory model the parts where that order matters. TLC checks them on small instances,
and TLAPS proves what nearly all of their safety runs check for every value of the constants.

## 1. Inventory

What is modelled. `PROJECT.json` lists every component with its sources, the hazards of the code
with the line where each bites, and the properties that would catch it.

| component | state it keeps | operations | what is hard | what makes it correct |
|---|---|---|---|---|
| commit outbox (`internal/commitqueue`, `cmd/wipnote/commit_queue*.go`) | queue file, dead-letter file, flock | coalescing append, flush, scoped flush, dead-letter retry and clear | a flush works on a snapshot while git runs; a crash falls between two files; readers take no lock | no transition of an item is forgotten; nothing leaves the queue unsettled; the queue drains |
| completion (`workitem_set_status*.go`, `workitem_complete_gates.go`, `workitem_commit.go`, `wip.go`) | the item's HTML file, its state in git | status transition, completion with its gates and overrides, commit by three policies, re-open, reset | a gate judges by evidence read steps ago; write, queue and commit are three steps | a done item answers for every gate its code took; done on disk is done in git, queued, or known not to be |
| queue check of the gate (`check_deferred_commits.go`) | none | two unlocked reads and a verdict | both readings may be stale | a pass means that the intents it was asked about are settled |
| writer lease (`core/daemon/lease*.go`) | lease file, lock file | acquire, take over, renew, release | many starters at once; a lock broken by name; crashed or suspended holders | one owner; nobody removes what is not theirs |
| writer server (`core/daemon/socket*.go`, `ensure.go`, `writer_daemon.go`) | socket path, attached launchers, idle clock | ensure, bind, serve, watch, close | the socket is a path that successors reuse; a client attaches while the daemon decides to leave | the holder's socket stays; orphans and idle daemons go |
| claims (`core/claimledger`, `claim_ledger.go`, `claims.go`, `stale.go`) | one HTML shard of claim episodes per session, an archive | open, close, sweep, reconcile, fold, archive | status and shards are different files; an archive moves a shard with no guard on it; appends are torn | a done item is unclaimed; a live claim stays; an episode that a caller was told of is in a file |
| sessions (`core/sessionledger`, `core/hooks/session_*.go`) | a row per session, end notes, done markers | start hook, end hook, catch-up | the harness cancels an end hook anywhere; the next session finishes it, maybe twice | an end is finished in all ledgers, and only that end; a close that fails is tried again |
| telemetry log (`observe/otel/sink`, `finalize`, `indexer`, `retention`) | raw log, index marker, rollup, tarball | append, replay, roll up, mark, archive, remove, restore | no lock between processes: what one judged in a step another changes before the next | no line is lost; what is marked is rolled up; an ended session is put away |
| telemetry collector (`observe/otel/collector`, `otel_collect_shared.go`) | lease with pid and port, attached launchers | ensure under a lock, attach, watch, leave | slow probes, deaths between spawn and lease, a port that sessions keep exporting to | one collector; it leaves nobody alone; every launcher ends attached; the others leave |
| delegate turns (`internal/delegate/session`: mail, observe, wait, questions; `core/hooks/delegate_*.go`) | inbox, acks, outbox, results, events of a run | send, prompt, ack, ask, answer, stop, wait | a wait looks at five files one after another, with no lock | what a wait settles on was true; it settles |
| delegate workers (`internal/delegate/session`: spawn, place, claims, stop, list) | ledger rows, run folders, pane record, claim episodes | spawn, place, boot, stop, lose, expire | several calls at once; death between row, folder and record; pane ids used again | one worker per item, a cap, one end per run, no other worker's pane touched |
| plans (`plan/planyaml`, `cmd/wipnote/plan_*.go`) | one YAML file with the verdicts and each slice's feature, a page drawn from it | judge, promote, finalize, reopen, rewrite | two commands load and save without the lock; features are made before the save that names them; the page's edges are kept only in the page | one feature per slice, none against a verdict, wired as the slices depend on each other |

How they interact. A command rewrites an item under the item's own lock, opens or closes claim
episodes in the shard of its session, and then commits the item's file, at once or through the
outbox. A completion judges the item by git and by the claims first. The quality gate flushes the
outbox for its item and reads what is left. A launcher makes sure that a writer daemon and a
telemetry collector run before a session starts, and attaches to both. A session's telemetry goes
through the collector into its raw log; the end hook, or a later session, rolls the log up, and a
sweep archives it. A session may hand work to workers: a spawn writes a ledger row, a run folder, a
pane entry and claim episodes, then tasks and answers go through files of the run folder, written
by the callers on one side and by the worker's hooks on the other. A plan's features are items. All
calls are in-process functions on shared files, apart from the daemon's and the collector's
sockets; the only callbacks are the keeper and watcher goroutines of the daemons.

Not modelled: the gate and run ledgers, the read index, the other hooks, background processes, the
git watcher, container writes, worktrees, the launchers, migrations, read-only views, the mods and
the packaging. Section 7 gives the reasons.

## 2. The modules

| module | what it is |
|---|---|
| `ArtifactDebt` | what the outbox promises: a transition opens a debt to git, which is paid or excused |
| `CommitOutbox` | the outbox, its producers, the gate's check and the dead-letter commands; implements `ArtifactDebt` |
| `LeaseAuthority` | what the lease promises: one record, taken when absent or stale |
| `WriterLease` | the lease with its lock file, breakers and keeper; implements `LeaseAuthority` |
| `WriterServer` | launchers, socket and shutdown, built on `LeaseAuthority` |
| `ItemClaims` | one item, its claim shards, the sessions ledger and the session hooks |
| `ClaimShards` | one shard as a file: appends, repairs, rewrites, the lock's inode, the archive, the fold of a worker |
| `ItemCompletion` | one item from the completion gates to git, by each commit policy |
| `TelemetryLog` | the log of one session, from the collector's sink to the tarball |
| `SharedCollector` | the collector that sessions share, and its launchers |
| `WorkerTurns` | one delegate worker: the turns of its harness, the callers' tasks, a wait |
| `WorkerRows` | several workers: ledger rows, run folders, claims, the pane record and the tab |
| `PlanPromotion` | one plan, its slices' verdicts and features, and its page |
| `X_proofs` | the theorems about `X`; `CommitOutbox_proofs` also shows that the outbox implements `ArtifactDebt` |
| `Telemetry_proofs` | the theorems about `SharedCollector` and `TelemetryLog` |
| `Workers_proofs` | the theorems about `WorkerTurns` and `WorkerRows` |
| `WorkItems_proofs` | the theorems about `ItemCompletion` and `PlanPromotion` |
| `MCX` | `X` with the definitions and symmetry sets of its runs |

Operators marked "Mutant" in the modules are variants of the definition that follows them, each a
plausible bug; no action uses them. They record which slip each property notices.

Some variables are histories: they record what a property needs to remember (what a caller was told,
whether a process was suspended for a whole window) and no guard but a bound reads them. Where the
code breaks what its documents promise, the property says under which condition it holds; TLC finds
a violation when the condition is dropped, and section 6 lists each case.

### CommitOutbox

`pending` and `dead` are the readable lines of the two NDJSON files, numbered by position; `torn`
is an unterminated tail. `lock` is the flock on `commit-outbox.ndjson.lock`; `todo` and `kept` are
the memory of the process that holds it (`remaining` and the snapshot of `flushLocked`). `artifact`
and `head` hold, per path, the number of the transition that wrote the content on disk and in git.
`pc` and `job` place each process in its command. One intent names one path, as every producer
does.

- `WriteArtifact`, `RecordIntent`, `RecordUnavailable`, `AbortComplete`, `InlineCheck`: a
  transition or completion (`wiSetStatusWithAgent`, `commitArtifact`, `abortDeferredComplete`,
  `AppendCoalescing`).
- `StartFlush`, `BeginFlush`, `SkipStranger`, `CommitIntent`, `RefuseIgnored`, `FailIntent`,
  `Bury`, `BuryFails`, `Rewrite`, `RewriteFails`: `flushLocked`, one step for each intent and one
  for the rewrite.
- `StartGate`, `GateReadPending`, `GateReadDead`, `GateReturn`: the scoped flush of the gate and
  its two readings.
- `RetryRequeue`, `RetryDrop`, `RetryDropFails`, `ClearDead`: the dead-letter commands. A retry
  appends first and drops second.
- `ManualCommit` is a commit by hand; `Crash` and `CrashWhileBurying` are death at any step.

### LeaseAuthority and WriterLease

`LeaseAuthority` has a record (`lease`, `aged`) and a standing for each process. `WriterLease` has
two goroutines per process, the main one (`AcquireLease`, `Release`) and the keeper (`beat`), each
with its place in `lockLease`, `breakStaleLock` or `unlockLease`. Each system call on a shared file
is a step: create exclusively (`TakeLock`, `FindBusy`), judge stale (`JudgeStale`), rename aside
(`MoveAside`), link back (`PutBack`), read and remove (`ReadLock`, `LeaveLock`, `RemoveLock`), write
the lease (`WriteLease`, `BeatWrites`), remove it (`ReleaseRemoves`). `Expire` and `Age` let the two
windows pass. `Timely` forbids that a live process is suspended for a whole window; where it
is false, the history `late` tells that it happened. The history `usurped` tells that the lock was
taken while one that its breaker had not judged was away from the path (`Astray`): the one race that
the protocol loses without a suspension (section 6). The refinement maps a process whose main goroutine is gone to a standing of "lost".

### WriterServer

`srv` is the daemon's main goroutine from `acquire` to `gone`, `launcher` is each `EnsureDaemon`,
`path` is what the socket path names (a process stands for the inode it bound), and `inode` is what
the server believes it bound. A dial, its frame and its reply are one step.
The histories are `idled` (daemons that decided to leave for idleness), `promised` (the daemon each
launcher attached to) and `late`.

### ItemClaims

`status`, `updatedAt` and `itemLock` are the item's file; `shard[s]` is the start of the open
episode of session `s`, or 0; `row`, `note` and `marker` are the sessions ledger, the end notes and
their done markers; `alive` is the harness. A session is its own root and acts as one agent. Time is
a counter that moves with each stamp, as `transitionTime` forces it to.

- `BeginStart`, `WriteActive`, `CloseStale`, `OpenEpisode`: `item start`, whose claim hook runs
  under the item lock; the live-collision gate runs before it.
- `BeginComplete`, `WriteDone`, `CloseOwn`, `CommitSticks` or `CommitFails` and `Reopen`,
  `SweepShard`, `EndSweep`: a completion and its sweep, one shard at a time.
- `Block`, `BeginStale`, `MarkStale`, `BeginReconcile`, `ExpireShard`, `EndReconcile`.
- `Launch`, `OpenRow`, `ReadNote`, `CloseRow`, `CloseEpisodes`, `Mark`, `EndCatchUp`: the start
  hook with the catch-up. `Exit`, `RecordNote`, `CloseRow`, `CloseEpisodes`: the end hook. Either
  close may fail (`CloseRowFails`, `CloseEpisodesFail`): it is logged and the hook goes on, a catch-up
  to its marker; the history `missed` names what a catch-up failed to close.
- `Crash` is a command that dies or a hook that is cancelled; `Kill` is a harness that dies with
  all it runs.

### ClaimShards

`shard` is the file of one session: its rows and how it ends (with the footer; at the end of a row;
in half a row that no reader takes for one; in half a row whose opening tag is whole, which reads as
an open row). `sidecar` counts the lock files an archive has unlinked and `inode` says which one a
writer opened, so that two holders of different ones are both inside. `live` is the session.

- `Start`, `Enter`, `Truncate`, `Write`, `WriteShort`, `Rewrite`: a claim call, from the guard over
  the repair of a tail to the append or the rename. `Die` falls between any two.
- `WorkerOpens`, `WorkerEnds`: the shard of a container worker, which a fold brings in.
- `Collect`, `MergeIntoArchive`, `RemoveShard`, `RemoveSidecar`, `DieArchiving`: an archive, whose
  merge is crash-idempotent and which takes no guard.

`crossed` marks callers whose critical section was not theirs alone, `told` what each caller was told.

### ItemCompletion

`item` and `head` are the item's file on disk and in git, with the overrides noted in it; `queued`
is the outbox, `code` the item's source, with its commits and its changes not yet committed. `job[p]`
is a command with what it read so far.

- `BeginTransition`, `WriteStart`, `Relate`, `WriteBlocked`: the other transitions.
- `BeginComplete`; the gates `ScanTree`, `OwnFiles`, `RefuseDirty`, `FindPaths`, `PassGate`,
  `Override`, `Refuse`; `WriteDone` and `Link`. Each gate reads at a time of its own.
- `StrictCommit`, `CommitRefused`, `CommitReadOnly`, `Verify`, the enqueueing and skipping ones and
  the re-opens: the commit by policy, and its compensation. `Flush` is the outbox in one step.
- `BeginReset`, `WriteReset`: `wip reset`. `Edit`, `CommitSource`, `Merge` are the developer.

The histories are `owed`, the overrides a completion took; `moved`, that the evidence changed after a
gate had read it; and `excused`, that the last transition may stay out of git.

### TelemetryLog and SharedCollector

`TelemetryLog` has the raw log as records with a possibly unterminated tail, the sink's buffer, the
index marker, the rollup and the tarball (absent, partial, complete). `OpenSink`, `Emit`, `Flush`,
`FlushPart`, `FlushRest`, `CloseSink`, `KillCollector` and `GoQuiet` are the collector; `FinStart`
to `FinAbort` an end hook or a catch-up (indexer, materializer, seal); `SweepJudges` to `SweepDies`
a sweep; `Restore` and `ReindexPass` two commands. The constant `Ops` names what may happen in a
run, and `used` records what did.

`SharedCollector` has the lease with its process and port, collectors with the launchers attached to
them, and launchers. `Start`, `Lock`, `LockBusy`, `ReadLease`, `Probe`, `Spawn`, `PortTaken`,
`SpawnFails`, `WriteLease` and `LeaseFails` are `EnsureShared`: a spawn that fails on the previous
port, taken or not, is tried `Again` on any other. `Attach` and `AttachLost` (a post that times out
before or after its handler ran) follow, `Check` is the launcher's watch, `Quit` and `Die` its ends.
`Prune`, `GraceOver`, `Leave`, `Shutdown`, `Exit` and `Crash` are the collector: `Leave` decides, with
the mutex let go, and the collector serves (`closing`) until `Shutdown` has closed the listener.

### WorkerTurns and WorkerRows

`WorkerTurns` has one run folder. The harness takes turns: `Bind`, `PromptEvent`, `AckNewest` (two
writes of one hook), `AskInFile`, `AskInPane`, `AnswerTyped`, `WriteResult`, `StopTurn`,
`ExitHarness`. A send is `TakeSend`, `ObserveSend`, `CheckAcked`, `PostTask` and, when the lock is
released, `TypeHint` (`hints` are the tasks still to be told of). `Answer` writes a caller's answer to
a question file and types its text into the pane with no lock: like a hint, it waits (`notes`) until
the harness takes it as a prompt, which begins a turn and acks the newest task. `PromptEvent` takes a
hint, such a note or what a person typed. A look of a wait reads one file after another:
`LookStarts`, `ReadAck`, `ReadEvents`, `ReadQuestions`, `ReadResults`, `SettleLook`. It judges the
asks of the pane by the events it has read, and only the question files and the result a second time
(`SettleOn`). The history `truths` collects the outcomes that were true at some moment of the look,
`calm` that no task was posted, no session bound and no other turn than the newest task's begun in
it; `ended` are the tasks of which a turn of their own has ended, and `crossed` says that a prompt
which was no hint has acked a task.

`WorkerRows` has, per run, a ledger row, a folder with its exit file, a claim episode and a harness,
and the tab's panes with the record of who is in which. `SpawnBegin`, `SpawnClaim`, `SpawnPlace`,
`SpawnRefused`, `SpawnBoot`, `SpawnAbandon` and `ReleasePane` are a spawn; `StopBegin`, `StopExit`,
`StopClose` a stop; `LookLoses`, `LoseUnplace` a listing that finds a worker lost; `EndRow`,
`FinishFolder`, `ExpireClaims` the end that both share. A person may take a pane, a harness exit, a
caller die, and the multiplexer give out a pane id again.

### PlanPromotion

`plan` is the YAML file, `page` whether the drawn page has the edge to the track, `feature` the
features made, with what each waits for. A command loads and checks the plan (`Judge`, `Promote`,
`FinalizeYAML`, `Finalize`, `ReopenPlan`, `Rewrite`, `SetStatus`, `Elicit`), makes features (`Make`,
`MakeFails`, `LinkFeatures`), saves its copy (`SavePlan`) and draws the page (`DrawReads`, `DrawWrites`,
`DrawPatches`); it may `Die` between. The histories are the rejected slices (`refused`), features
that no save will name (`lost`), that a finalizer ended the plan (`sealed`), that a save overwrote
what a lockless command or another beside it had saved (`upset`), and that a drawing overtook another
without a lock or died with the edge in hand (`torn`).

## 3. What the runs check

Distinct states in parentheses. Every constant that starts with `Max` is a bound of the model only.

| run | instance | shows |
|---|---|---|
| `outbox_safety` (3,868,945) | 2 processes, 2 paths of which one is git-ignored, transitions, completions, flushes and retries, 2 transitions a path, 1 attempt, 1 fault | no transition is forgotten and the outbox implements `ArtifactDebt`; only settled intents leave; a scoped flush leaves strangers alone; dead letters leave into the queue or by a clear |
| `outbox_drains` (122,624) | 2 processes, 2 paths, fair; transitions, flushes, gates, clears, commits by hand, 2 attempts | every queued path leaves the queue; a gate's pass is earned while nobody retries dead letters |
| `lease_pair` (869,778) | 2 processes, a beat each, an old lease and an old lock, suspensions, 1 fault | one owner and mutual exclusion until a live process is suspended or the lock is usurped; an unlock removes its own lock; `LeaseAuthority` is implemented |
| `server_socket` (973,434) | 2 daemons, 2 launchers, signals, suspensions, 1 crash, fair | the holder is the one the lease names; nobody unlinks its socket; a daemon without lease, socket or launchers goes |
| `claims_kept` (4,536,925) | 2 sessions, 2 processes, all commands, 6 stamps, 1 fault | a completed item is unclaimed; a marked end is closed in each ledger no catch-up failed to write; sweeps, catch-ups and reconciles leave the claim of a session that never wrote an end note |
| `claim_shards` (1,195,054) | 2 writers, an archiver, 2 claims and a worker's on one item, 1 archive, 2 faults | an episode that a caller was told of is in the shard or the archive; an ended one does not open again; one open claim at a time |
| `item_completion` (3,181,729) | 2 processes, 3 status writes, 1 fault, a remote and a manifest | a done item carries the notes of its overrides and its files were committed; it is in git, queued, or its command said that it is not |
| `telemetry_kept` (274,752) | 1 finalizer, 2 sweepers, 2 records, 2 faults, fair | no line is lost; a marked log is rolled up; an ended session's log is put away |
| `collector_shared` (179,551) | 2 launchers, 4 collectors, 2 ports, 2 faults of eight kinds, fair | one collector, which knows its launchers and does not decide to leave them; launchers end attached; the other collectors go |
| `turns_told` (195,230) | 2 callers, 2 tasks, answers typed as prompts, cleared sessions, exits, lost hints, fair | one unstarted task; a wait settles on what was true; an ack is of its own turn, and an idle verdict comes after the end of one, until an answer acks another task; a wait on a taken task settles |
| `rows_kept` (937,873) | 2 callers, 3 runs on 3 items, 3 panes, a cap of 2, 1 fault of five kinds | one worker per item, the cap, one end in row and folder, no claim expired of a worker that runs; no other worker's pane closed (the cap and the last while no pane id is given out twice) |
| `plan_promotion` (7,543,497) | 2 processes, 2 slices of which one depends on the other, 4 commands, 3 features, 1 fault | one feature per slice, none for a slice whose last entry rejects it, a final plan's features wired, the page's edge kept |

A module's type invariant is part of the invariant named `...Sound` (in `ItemCompletion`, of
`DoneIsAccounted`; `WriterLease.TypeOK` stands alone).

Why the bounds are enough. Two processes are the smallest number with an interleaving, and nearly
every hazard is between two of them; the shard needs three (two writers and an archive under their
feet), a worker's pane a third run to be given to. The collectors' pids are given out in order, and
two launchers and two faults use no fifth; a third port (checked once) adds nothing but two collectors
cut off at a time. Two paths, sessions or records distinguish "own" from "stranger", or the first from the rest. Two
transitions of a path let a newer intent supersede an older one; six stamps let a session claim, end,
resume and claim again while another one starts; three status writes let one completion fall into
another's gates and a re-open follow; four plan commands let a verdict, a finalization, a reopening
and a second finalization follow each other. One fault falls at every step; two, where they are cheap,
let the second one hit the recovery from the first. Breaking a lock by name needs three goroutines
(one that judges, one that breaks, one that takes), of which a keeper may be one. Deadlock is
checked for the outbox, the shards and the completion, where some command can always start; the other
models end when their processes, launchers, runs or stamps are used up.

No run checks `WriterServer.PromiseKept`, `ItemClaims.LiveClaimStands`, `ItemClaims.MarkedIsClosed`,
`WorkerTurns.AsksArePending` and `WriterLease.OneOwner` without its condition, which are false of the
code (section 6), nor `WriterServer.SuccessorsSocketKept`, `WriterLease.OwnLeaseOnly` and `FreshStays`
and `CommitOutbox.FlushAccounts`, which are proved. In `turns_told` nobody types prompts but a caller
who answers: the safety properties were checked once with `"person"` among the `Ops` (610,760 states),
and the theorems cover it.

## 4. Fairness

- Outbox: a started command keeps being scheduled (`WF` on `Continue(p)`); a process that waits in
  a blocking `flock` gets it if it keeps coming free (`SF` on `RecordIntent` and `BeginFlush`);
  somebody keeps running `commit-queue flush`, or a command that flushes (`SF` on
  `\E p : StartFlush(p)`). No fairness is assumed of git: every commit may fail, and `QueueDrains`
  holds since a failure counts.
- Server: the operating system runs a live daemon (`WF` on `Starting` and `Closing`), its watcher's
  ticker fires (`WF` on `Watching`), and the idle window ends when no client comes (`WF` on `Quiet`).
  Launchers and sessions need not take any step.
- Telemetry log: the sink's ticker and close run, a session falls quiet once it ended, a started
  finalizer or sweep goes on, and sessions keep starting, which is when both begin.
- Collector: a launcher that waits for the lock gets it when it keeps coming free (`SF`), a started
  `EnsureShared` goes on, the watch and the prune tick (`WF`), a collector nobody is about to
  attach to sees its grace period end, and one that has decided closes its listener.
- Worker turns: the harness runs its hooks, a person answers what it asks in the pane
  (`AnswerTyped`), and a turn ends at last (`SF` on `StopTurn`: it may ask again and again before);
  a started send goes on to its hint, and a wait keeps looking. Nobody needs to send, or to answer a
  question put by file.
- The lease, claims, shards, completion, worker rows and plans are checked for safety only.

## 5. What is proved

TLAPS checks these for every value of the constants, under the assumptions each module names
(`ConstantsOK`, `LeaseConstants`, `NoLockIsNoToken`, `AuthorityConstants`, `ServerConstants`,
`ClaimConstants`, `ShardAssumption`, `CompletionConstants`, `TelemetryConstants`,
`CollectorConstants`, `TurnConstants`, `RowConstants`, `PlanConstants`), which the runs evaluate. One
theorem, about the gate, says in addition that no dead-letter retry is among the commands.

**Outbox** (`CommitOutbox_proofs`). `TypeCorrect`, `NothingForgotten` (`Spec =>
[]NoTransitionForgotten`; with the former `OutboxStaysSound`) and `EveryLineAccounted` (`Spec =>
[]FlushAccounts`), for any number of processes, paths, versions and faults.
`NoTransitionForgotten` is not inductive: the rewrite at the
end of a flush replaces the file by `todo \cup kept`, so one must know that every line of the file is
in that memory, dead, or settled (`FlushAccounts`); that the memory holds nothing the file does not
(`SnapshotQueued`); that a retry queued what it drops (`RetryQueued`); that only the lock's holder has
a memory (`LockHeld`); and that no recorded version is ahead of its artifact (`VersionsReached`).
`IInv` is their conjunction. From it follow two action properties: `LeaveOnlySettled` (`Spec =>
OnlySettledLeave`: what a rewrite drops was accounted for) and `LettersAreKept` (`Spec =>
DeadLettersKept`: what a retry drops was queued first).

`StrangersStayUntouched` (`Spec => StrangersUntouched`): draining one item leaves the other items'
intents as they were, failure counts included. A flush settles the oldest line of its memory, and that
is one line only because lines have different numbers (`LinesApart`, by `RenumberNumbers`: a rewrite
numbers its lines from 1 to their count). So what is given up is what was selected, and every
stranger in the file is remembered with its count (`FlushesOwn`) when the file is rewritten.

`GatePassesAreEarned` (`Spec => GatePassEarned`, where no retry runs): the gate reads two files one
after the other without a lock. What it has to account for between its reads are transitions that
are over: none is ahead of the artifact, queued, or about to be recorded (`GateSaw`), because a
transition whose producer has not recorded it is in neither file (`Unqueued`). Without a retry an
intent can only move from the queue to the dead letters, so the second read finds what the first left.

**Refinement** (`CommitOutbox_proofs`). `OutboxImplementsDebt` (`Spec => KeepsThePromise`): the set
of covered paths is the abstract list of debts. Only a producer's write makes it grow; a recorded
intent takes over its producer's debt, so a crash between the two is the only way to lose it; any
other step that makes it shrink discharges debts, which is legal because `NoTransitionForgotten` holds
after the step.

**Lease** (`WriterLease_proofs`). All four properties of the run, for any number of starters,
crashes, errors and old locks, and until a live process is suspended for a whole window or the lock
is usurped (`Calm`, the condition in the properties themselves). The invariant `LeaseInv` has three
parts. `IInv` says what a goroutine at each step may rely on (`Shape`, `Progress`) and, under `Calm`,
that what a starter concluded still stands (`Verdicts`) and that the file names each live holder
(`Named`); its steps assume that the lock excludes. `Frame` holds whatever happened: a goroutine
remembers the lock it judged or moved exactly while it breaks one (`Breakers`), what it judged had
expired (`Judged`), no keeper runs while its process acquires (`KeeperLater`), and a token at the path,
moved aside or expired was written by an earlier call than the one that is still waiting (`Spent`), so
that a new lock is never stale. `Excluded`, under `Calm`, gives the exclusion: whoever is inside has
its fresh lock at the path or at the private name of one breaker, the only one that moved a lock it
had not judged, and then the path is free (`Inside`, `Lone`). A breaker that finds it moved the wrong
lock can therefore put it back; `Calm` excludes only that somebody takes the path before it does, which
is a moment unless the breaker dies with the lock in hand.

`LeaseIsSound` (`Spec => []SoundUntilUsurped`) and `UnlockTakesItsOwn` (`Spec => OwnLockOnly`) follow,
and `LeaseTypeCorrect` (`Spec => []TypeOK`) without the condition. `LeaseImplementsAuthority` (`Spec =>
ImplementsAuthority`): each step is a step of `LeaseAuthority` or a stutter, with a process that ended
taken as one that left. It rests on `LeaseInv` and on `NotYet`, that a process has no standing before
its main goroutine wrote the lease; a crash, or a beat that reads another owner, is the abstract
`Leave`. Two readings of it are stated on their own: `ReleaseSparesReclaimers` (`Spec =>
OwnLeaseOnly`), as verifying a lease and removing it are two steps, and `FreshLeaseStays` (`Spec =>
FreshStays`).

**Server** (`WriterServer_proofs`). `ServerStaysSound` (`Spec => []ServerSound`), from
`ServerTypeCorrect` and `OneNamedHolder` (`Spec => []HolderNamed`): until some process is suspended
for a whole window, a daemon that thinks it holds the lease is the one the file names; `OneHolder`
is the same of the lease's own specification. `SocketIsKept` (`Spec => SocketKept`): nobody but the
holder is between `unlink` and `unlinkOwn`, since each got there while the lease was its own and
gives up its standing only after. So a daemon finds its own socket at the path from its bind to its
end (`Bound`), and `SuccessorsSocketIsKept` (`Spec => SuccessorsSocketKept`): the unlink of a closing
daemon follows its look at the path in a second step, and still takes no successor's socket.

**Claims** (`ItemClaims_proofs`). `ClaimsConsistent` (`Spec => []IInv`, which contains `TypeOK`),
`CompletionUnclaims` (`Spec => []DoneIsUnclaimed`, with the former `ClaimsStaySound`) and `FirstRunIsSafe` (`Spec =>
FirstRunClaimStands`). A sweep closes shards one at a time, so `DoneIsUnclaimed` needs what a sweep
under way has reached (`SweptSoFar`); that starts write status and claim in one hold of the item lock
(`LockHeld`); and that no stamp is ahead of the item's (`StampsPast`). The action property also needs
that an item back in progress came back after every completion still under way (`BackLater`), and
that only sessions with an end note are taken for ended (`EndedNoted`). The proofs first show that a
step is a move of one process to a step its job fits, then take the actions one by one.
`EndsStayCaughtUp` (`Spec => []CaughtUp`): an end with a marker is in each ledger that no catch-up of
it failed to write, or its session runs again. Its invariant `EndInv` says that a note is never ahead of the clock and its marker never
ahead of the note (`NotesPast`), who runs a hook and on which run's behalf (`RunBy`), and what a hook
past its row or its episodes has already closed (`OnTheWay`).

**Shards** (`ClaimShards_proofs`). `EpisodesStay` (`Spec => []EpisodesKept`), `EndsStay` (`Spec =>
[]EndsKept`) and `ShardStaysSound` (`Spec => []ShardSound`), for any number of writers, archives,
episodes, torn writes and deaths. Two writers are inside at a time only when an archive unlinked the
lock file of one of them, and then neither is alone (`OneInside`); nor is a writer inside while an
archive moves the shard (`NoneArchived`). A writer that is alone appends to the file it found and
cut (`AloneAppends`), and what a writer or an archive is about to leave has every episode somebody
was told of (`WriterHasAll`, `ArchiverHasAll`). That an ended episode never reads as open, and that a
session has one open claim on an item, rests in addition on what writers have read (`EndsFound`,
`OpenFound`) and on the rows themselves: every row was drawn before (`RowsUsed`), a worker's file has
its own episodes only (`OwnIsWorkers`), and no row is both open and ended (`RowsApart`).

**Completion** (`WorkItems_proofs`). `DoneStaysAccounted` (`Spec => []DoneIsAccounted`) and
`DoneStaysDurable` (`Spec => []DoneIsDurable`), for any number of commands, writes and faults. A
completion reads its evidence over many steps, so the invariant says what it may conclude at each:
until somebody changes the evidence, each gate that is past and objected has its note on the item,
and what the completion read is what is there (`Certain`, `Knows`); from a change on it knows nothing,
and the history `owed` no longer counts. Only a completion that wrote the status remembers a
transition (`Placed`), and a done item has one (`Stamped`).

**Plans** (`WorkItems_proofs`). `PlanStaysSound` (`PlanSpec => []PlanSound`), `VerdictsAreHeeded`
(`PlanSpec => VerdictStands`) and `DependenciesHold` (`PlanSpec => DependenciesWired`), for any number
of callers, slices, dependencies and failures. A plan's file is overwritten by copies, so `PlanInv`
says what each copy is worth: a name in it is of a feature that was made for the slice (`NamesTrue`),
it names whatever its command made (`MadeNamed`), and unless it was overtaken it differs from the file
only in what the command is about (`FeatsKept`, `VerdictsKept`). Of two commands at work one takes no
lock (`AtWork`, `OneLocks`), so who is overtaken is marked. What is to be made was approved in the
copy (`Wanted`); what a finalizer wires is all that it will name (`Batched`, `Wired`). The edge of the
page is there or in the hands of a drawing, or a drawing that did not see it was marked (`Edged`,
`Drawn`).

**Raw log** (`Telemetry_proofs`). `RawLogStays` (`LogSpec => []RawLogKept`), for any number of
finalizers, sweepers, records and mishaps: with one sweep at a time the tarball is whole before the
log goes (`KeptSomewhere`), as a session that neither pauses nor resumes writes nothing once anyone
finalizes, archives or finds its log gone (`AtEnd`). `ReadersAreRight` (`LogSound` holds until a
session pauses for a whole window or resumes after its end): the tarball has the lines of the log
(`OneLog`), a finalizer that has read sees what the next one would (`ReadSame`), a marked log was
rolled up from all of its lines unless a rollup failed (`RolledUp`), and an index that stands at a
line has every line before it (`IndexOK`). With pauses or resumptions `LogSound` is false, and TLC
shows it: a finalizer that read the old log publishes its marker in the one begun after an archive.

**Turns** (`Workers_proofs`). `TurnsStaySound` (`Spec => []TurnsSound`), for any number of callers
and tasks. That one task at most is unacked is not inductive: one must know that every task but the
newest is acked (`OldAcked`) and that a caller which has decided to post found it acked, still does,
and is the only one to post (`DecidedAcked`); `TurnInv` is their conjunction with `TypeOK`.
`AcksAreOwn` (`Spec => AckIsOwnTurn`) needs in addition that, until a prompt that is no hint has acked
a task, a hint is of the newest task and typed once: a prompt under way is its own, and no second hint
is left for a later one (`TypedOnce`). A look reads its files at different moments, so the theorems on
what it settles remember what each reading still tells. `IdleIsAfterOwnTurn` (`Spec =>
IdleAfterOwnTurn`): until then every acked task but the one in hand had a turn of its own that ended
(`OwnEnded`), and a look that read its task's ack, and no running turn after it, read after that end
(`LookOwn`); were the ack read last, it could be that of a turn begun since. `SettlesOnTruth` (`Spec
=> SettledOnTruth`), whoever types prompts: at each step of a calm look, what it remembers was true at
a moment of the look or still is (`LookTrue`). A harness that was seen quiet with its task acked stays
so (`StillIdle`), or was idle with nothing asked when a prompt woke it (`WasIdle`): a prompt in a calm
look is the newest task's, and neither a hint that is not yet taken nor a note belongs to a task whose
question is pending (`Untaken`).

**Rows** (`Workers_proofs`). `RowsStaySound` (`RowsSpec => []RowsSound`), `EndsStayFinished`
(`RowsSpec => []EndsFinished`) and `ReleasesSpare` (`RowsSpec => NoneKilled`), for any number of
callers, runs, names, panes and faults. `RowsInv` says that a run under a spawn has one spawner, no
harness and no episode yet (`SpawnersFit`); that a pane which holds a run is the one its folder pins,
and a run without one never had a harness (`Pinned`); that a run without a row has nothing at all
(`Unborn`); that a closed row or an expired episode is of a run that is lost, and lost runs stay lost,
and that two open rows never share a name (`Ends`); and that whoever ends a run does so after it was
lost and as it saw it (`EndersFit`). `EndsFinished` is inductive on top of it. The cap and `NoneKilled` need more: while no pane id is given out
twice, the record and every copy that a spawn holds list each live run in its own pane (`ListsInv`),
and the record is finite, one entry to a pane and a run, and within the cap (`ListedInv`). Then a
release by pane id takes the entry of its own run only, and closes the tab only when no live run is
left in it. Without the condition both are false of the code (section 6, case 14).

**Collector** (`Telemetry_proofs`). `CollectorStaysSound` (`Spec => []CollectorSound`) and
`WatchedAreNotLeft` (`Spec => NotAbandoned`), for any number of launchers, collectors, ports and
faults. A second collector could only come from a holder of the lock that found none, so the invariant
`ColInv` says what the holder knows: who probes has the lease's own collector, who is to spawn found
none that serves and was not judged dead, and who writes the lease has the only one (`HolderKnows`,
`OfTheLease`). A name in the lease or in a launcher is of a pid that was spawned on that port
(`NamesTrue`), and a launcher on its way to another collector is still known to the one it falls back
on (`StillKnown`). `WatchedAreNotLeft` is about both steps of a departure: no decision is taken over a
launcher that watches, but for a successor, and a listener closes under one only if its collector
was cut off or had decided before it answered the attachment (`LeftKnowing`; section 6, case 10).

TLC checked each inductive invariant before it was proved. The libraries' facts used are those on
finite sets, cardinality and the least number of a set.

**Only model-checked.** Liveness (`QueueDrains`, `DaemonsExit`, `PutAway`, `LaunchersServed`,
`CollectorsLeave`, `WaitSettles`): it rests on `ENABLED` and fairness, which the provers do not
handle. Every other property of a run is a theorem, under the conditions stated with it.

## 6. Where the code and its documents part

`PROJECT.json` quotes, for each, the line of the code and what a comment says of it. The property
in parentheses holds under a condition that leaves the case out; without it TLC shows the trace.

Outbox, daemon and claims:

1. The gate reads the queue, then the dead-letter file, without the lock; a retry between the two
   moves the intent behind its back, and the gate passes (`GatePassEarned`).
2. `breakStaleLock` judges a lock by content and then renames whatever is at the path: with three
   starters and an old lock, two of them own the lease (`OneOwner`), an unlock removes another's lock
   and the refinement of `LeaseAuthority` fails. All three hold until `usurped`.
3. The watcher decides, another goroutine closes the listener later, and an attach answered in
   between is promised a daemon that goes away (`PromiseKept`).
4. An end that finished normally leaves its note without a marker, and a resumed session skips its
   own note. The next other session to start repeats the old end; the sessions ledger refuses it, the
   claim ledger does not, and the fresh claim is ended as abandoned (`LiveClaimStands`). A catch-up
   writes its marker although a close failed, and since nothing calls the deep pass nobody tries
   again (`MarkedIsClosed`; `CaughtUp` leaves out the ledger that failed).
5. An archive takes no guard: an episode opened by a resumed session between its reading and its
   removal is in no file. It unlinks the lock's file under a holder, after which two writers are
   inside. A half row whose opening tag is whole counts as a held claim, and the next append cuts it
   off (all `EpisodesKept`).

Completion:

6. The gate-record check is called without a database and returns at once; it never runs. `wip reset`
   writes back what it read outside the item's lock (both `DoneIsAccounted`).
7. The re-open of a completion whose commit failed undoes the done status of another one, which then
   finds its path clean and reports success (`DoneIsDurable`).

Telemetry:

8. The later of two sweeps truncates, then deletes the tarball of the earlier. A sweep copies and
   removes with no second look, so what an idle or resumed session writes in between is lost (both
   `RawLogKept`).
9. A reindex publishes the marker without a rollup (`SealedRollup`). The indexer counts the missing
   newline of an unterminated line and skips the line for good (`ReplayComplete`).
10. A spawn that fails on the previous port, for whatever reason, is tried on another, while a slow
    collector holds the old port, or one that never got into the lease, or nobody: nothing is left
    there for the running sessions (`EndpointKept`). A collector decides to leave and answers
    attachments until its listener is closed; who came in between is left (`NotAbandoned`).

Delegation:

11. A look reads the ack once, for the newest task of that moment; a task posted later is unacked
    when the older turn's end settles the wait (`SettledOnTruth`, of looks without a post).
12. A hook acks the newest task whatever the prompt was: an answer typed as a prompt, without the send
    lock, or a person's prompt acks a task sent meanwhile, and a wait takes the end of that turn for
    the end of the task's (`AckIsOwnTurn` and `IdleAfterOwnTurn`, until `crossed`).
13. A wait reports the asks of the events its look has read; one answered in the pane since then is
    reported with nothing to answer (`AsksArePending`).
14. A stop drops the pane's entry by id after it closed the pane: once the id is given out again,
    the new worker's entry goes, and with it, perhaps, its tab (`NoneKilled`), and with one entry too
    few a spawn lets a worker too many in (`CapHeld`; it takes four runs to see).
15. The exit file and the expiry are the business of the call that closed the row: if it dies, no
    later call finishes the folder (`EndsFinished`).

Plans:

16. `plan finalize` and `elicit-decisions` load and save without the file's lock: verdicts and
    feature ids saved in between are overwritten (`FeaturesNamed`, `VerdictStands`).
17. `plan finalize` names no feature before the last one is made: when one creation fails, the next
    run makes second features. A rewrite drops the slices' feature ids (both `FeaturesNamed`).
18. A rewrite keeps the verdicts only when the new file has no `feedback` section; otherwise the
    author's entries replace them all, and those of a copy made before a rejection bring the approval
    back. Where it keeps them it still takes the slices' status from the author; promote-slice accepts
    either, and promotes a rejected slice (both `VerdictStands`, which takes the entries of a new file
    for verdicts).
19. `set-status` draws the page after it let go of the lock: an edge added meanwhile is gone
    (`PageKept`).

Seen while reading, without a property: git-ignored intents are dead-lettered on the first attempt; a
newest content is committed under an older message; a failed completion leaves the item in progress
with no claim; `wipnote stale` sweeps claims opened after its status write; two sessions can both pass
the live-collision gate; an end hook cancelled before it closed its row lets a later catch-up end the
row of the resumed run; `finalize-yaml` drops the list of slices it could not create; a regeneration
that fails for a slice leaves its old feature waiting for an orphaned one; a fold adds an archived
worker episode that its own file still has open.

## 7. What is not modelled, and the plan

Left out of the modules above.

- Outbox: intents that fail validation, power loss and directory syncs, `git add -f`, the
  `--max-attempts` flag, `Append` (unused).
- Lease: the pid file of older daemons, unparsable files, I/O errors of stat, reuse of a pid. Server:
  the read socket's framing and pagination, the handlers of requests.
- Claims: subagents and root sessions, `claim release`, the late writers of `Ensure`, the deep
  catch-up, ledgers that cannot be read or written but by the hooks' closes; in the shard, the pending closes of container workers.
- Completion: the spec and research-first gates, which configuration turns on; the scopes of linked
  worktrees; the check that HEAD advanced, which cannot fail after a commit that succeeded.
- Telemetry: the HTTP receiver, the signal writer, the conversion of records.
- Workers: worktrees, containers and resumption; trust dialogs, permission prompts and background
  shells; the window between the check of a pane and the call that uses it.
- Plans: amendments, answers and comments, execution statuses and the readiness of dependencies, the
  spec gate, adding slices, validation, rendering, the git commit of a plan.

Components left out, by reason. Conversions and rendering, read-only views, drivers of external
programs, packaging and one-shot migrations have no protocol to get wrong. The read index is SQLite's
business, and is rebuilt from the files. No protocol hangs on the gate ledger, since a completion
never reads it. Worktrees rely on git's own locks.

The map covers the lines with a protocol in them, a small share of a repository that is mostly
rendering, parsing, schemas and command-line plumbing.

Left to do, in the order of importance:

1. *Container writes.* Writes made in a container and replayed on the host: each once, in order.
2. *Run ledger and hooks.* The tool hooks and the rows they open and close.
3. *Small protocols.* Background processes and their sweep; the git watcher; the repair of git's
   lock.

## 8. Running

`tlc -config ClaimsKept.cfg MCItemClaims` checks a run; `PROJECT.json` pairs each configuration with
its module. `tlapm ItemClaims_proofs.tla` checks the proofs of a module.

---------------------------- MODULE CommitOutbox ----------------------------
(***************************************************************************)
(* The deferred-commit outbox of wipnote (internal/commitqueue and its     *)
(* callers in cmd/wipnote).  A transition of a work item rewrites the      *)
(* item's canonical HTML file, then records a commit intent in a queue     *)
(* file; some later process drains the queue into git under one flock and  *)
(* moves what git keeps refusing to a dead-letter file.                    *)
(*                                                                         *)
(* Processes are wipnote invocations: every one of them may run a          *)
(* transition, a completion, a flush, a quality gate, or a dead-letter     *)
(* retry or clear, and may die between any two steps.  One intent names    *)
(* one path, as every producer in the source does, and a path stands for   *)
(* the work item that owns it.  The content of an artifact is the number   *)
(* of the transition that wrote it.                                        *)
(*                                                                         *)
(* A queue file is the set of its readable lines, numbered from 1: the     *)
(* order of the numbers is the FIFO order of the file.                     *)
(***************************************************************************)
EXTENDS Naturals, FiniteSets

CONSTANTS
  Procs,        \* wipnote processes
  Paths,        \* artifact paths, one per work item
  Ignored,      \* the paths a repo-level .gitignore refuses
  Commands,     \* the commands the processes may start
  MaxAttempts,  \* failures after which an intent is dead-lettered
  MaxVersion,   \* bound: transitions of one work item
  MaxFaults,    \* bound: crashes and I/O errors in one behaviour
  NoProc, NoPath

AllCommands ==
  {"transition", "complete", "flush", "gate", "retry", "clear", "git"}

ASSUME ConstantsOK ==
  /\ MaxAttempts \in Nat \ {0}
  /\ MaxVersion \in Nat
  /\ MaxFaults \in Nat
  /\ Ignored \subseteq Paths
  /\ Commands \subseteq AllCommands
  /\ NoProc \notin Procs
  /\ NoPath \notin Paths

VARIABLES
  artifact,  \* artifact[q]: the transition whose content is on disk
  head,      \* head[q]: the transition whose content git HEAD holds
  pending,   \* readable lines of commit-outbox.ndjson
  dead,      \* readable lines of commit-outbox.deadletter.ndjson
  torn,      \* the dead-letter file ends in an unterminated line
  lock,      \* holder of commit-outbox.ndjson.lock
  todo,      \* lock holder's memory: intents of the snapshot not yet settled
  kept,      \* lock holder's memory: intents that stay queued
  pc, job,   \* per process: the next step, and the command being run
  faults,    \* faults so far
  excused,   \* history: paths whose lack of an intent was reported, or whose
             \* producer died before recording one
  standing   \* history: what a gate run had to account for

graves  == <<dead, torn>>
memory  == <<todo, kept>>
disk    == <<artifact, head>>
history == <<excused, standing>>
vars == <<disk, pending, graves, memory, history, lock, pc, job, faults>>

PCs == {"idle", "wrote", "inline", "wantLock", "flushing", "burying",
        "gatePending", "gateDead", "passed", "requeued"}
Intent == [line : Nat \ {0}, path : Paths, ver : Nat, attempts : Nat]
Grave  == [line : Nat \ {0}, path : Paths, ver : Nat]
Job    == [cmd : AllCommands, path : Paths \cup {NoPath}, ver : Nat]

Typed ==
  /\ artifact \in [Paths -> Nat] /\ head \in [Paths -> Nat]
  /\ pending \subseteq Intent /\ IsFiniteSet(pending)
  /\ dead \subseteq Grave /\ IsFiniteSet(dead) /\ torn \in BOOLEAN
  /\ lock \in Procs \cup {NoProc}
  /\ todo \subseteq Intent /\ IsFiniteSet(todo)
  /\ kept \subseteq Intent /\ IsFiniteSet(kept)
  /\ pc \in [Procs -> PCs] /\ job \in [Procs -> Job]
  /\ faults \in Nat
  /\ excused \subseteq Paths /\ standing \in [Procs -> SUBSET Nat]

ProducersNamed == \A p \in Procs : pc[p] = "wrote" => job[p].path \in Paths

TypeOK == Typed /\ ProducersNamed

NoJob == [cmd |-> "git", path |-> NoPath, ver |-> 0]

Init ==
  /\ artifact = [q \in Paths |-> 0] /\ head = [q \in Paths |-> 0]
  /\ pending = {}
  /\ dead = {} /\ torn = FALSE
  /\ lock = NoProc /\ todo = {} /\ kept = {}
  /\ pc = [p \in Procs |-> "idle"] /\ job = [p \in Procs |-> NoJob]
  /\ faults = 0
  /\ excused = {} /\ standing = [p \in Procs |-> {}]

-----------------------------------------------------------------------------
(* Vocabulary *)

Dirty(q) == artifact[q] # head[q]
PathsOf(S) == {i.path : i \in S}
Own(S, q) == {i \in S : i.path = q}

\* Mutant: the matcher of a scoped flush is ignored.
SelectsAll(q, i) == TRUE

\* A matcher of FlushMatching or of the dead-letter commands; NoPath matches all.
Selects(q, i) == q = NoPath \/ i.path = q

\* Mutant: lines counted from 0.
RenumberFromZero(S) ==
  {[i EXCEPT !.line = Cardinality({j \in S : j.line < i.line})] : i \in S}

\* What a rewrite does to the lines it keeps, and an append to the end of a file.
Renumber(S) == {[i EXCEPT !.line = Cardinality({j \in S : j.line <= i.line})] : i \in S}
NextLine(S) == Cardinality(S) + 1

Oldest(S, i) == i \in S /\ \A j \in S : i.line <= j.line

GoTo(p, step) == pc' = [pc EXCEPT ![p] = step]
Finish(p) == GoTo(p, "idle") /\ job' = [job EXCEPT ![p] = NoJob]
Fault == faults < MaxFaults /\ faults' = faults + 1

Take(p) == lock = NoProc /\ lock' = p
Release == lock' = NoProc /\ todo' = {} /\ kept' = {}

\* What runs once a flush returns: a gate goes on to its verdict.
AfterFlush(p) ==
  IF job[p].cmd = "gate" THEN GoTo(p, "gatePending") /\ UNCHANGED job ELSE Finish(p)

-----------------------------------------------------------------------------
(* Producers *)

\* A transition rewrites the canonical file under the item's own lock, before
\* anything is queued.
WriteArtifact(p, cmd, q) ==
  /\ pc[p] = "idle" /\ cmd \in {"transition", "complete"} \cap Commands
  /\ artifact[q] < MaxVersion
  /\ artifact' = [artifact EXCEPT ![q] = @ + 1]
  /\ job' = [job EXCEPT ![p] = [cmd |-> cmd, path |-> q, ver |-> artifact[q] + 1]]
  /\ GoTo(p, "wrote")
  /\ UNCHANGED <<head, pending, graves, memory, history, lock, faults>>

\* Mutant: the append does not wait for the lock.
RecordUnlocked(p) ==
  LET q == job[p].path IN
  /\ pc[p] = "wrote"
  /\ pending' = Renumber({i \in pending : i.path # q} \cup
       {[line |-> NextLine(pending), path |-> q, ver |-> job[p].ver, attempts |-> 0]})
  /\ excused' = excused \ {q}
  /\ Finish(p)
  /\ UNCHANGED <<disk, graves, memory, standing, lock, faults>>

\* AppendCoalescingByRelPath: one rewrite, under the lock, that drops the
\* queued intents of the same path.
RecordIntent(p) ==
  LET q == job[p].path IN
  /\ pc[p] = "wrote" /\ lock = NoProc
  /\ pending' = Renumber({i \in pending : i.path # q} \cup
       {[line |-> NextLine(pending), path |-> q, ver |-> job[p].ver, attempts |-> 0]})
  /\ excused' = excused \ {q}
  /\ IF job[p].cmd = "complete" THEN GoTo(p, "inline") /\ UNCHANGED job ELSE Finish(p)
  /\ UNCHANGED <<disk, graves, memory, standing, lock, faults>>

\* The outbox cannot be written: a transition warns, and so does a completion
\* whose error is environmental.
RecordUnavailable(p) ==
  /\ pc[p] = "wrote" /\ Fault
  /\ excused' = excused \cup {job[p].path}
  /\ Finish(p)
  /\ UNCHANGED <<disk, pending, graves, memory, standing, lock>>

\* Any other error of a completion re-opens the item, which rewrites the
\* artifact and queues nothing.
AbortComplete(p) ==
  LET q == job[p].path IN
  /\ pc[p] = "wrote" /\ job[p].cmd = "complete" /\ Fault
  /\ artifact[q] < MaxVersion
  /\ artifact' = [artifact EXCEPT ![q] = @ + 1]
  /\ excused' = excused \cup {q}
  /\ Finish(p)
  /\ UNCHANGED <<head, pending, graves, memory, standing, lock>>

-----------------------------------------------------------------------------
(* Flushing *)

StartFlush(p) ==
  /\ pc[p] = "idle" /\ "flush" \in Commands
  /\ job' = [job EXCEPT ![p] = [NoJob EXCEPT !.cmd = "flush"]]
  /\ GoTo(p, "wantLock")
  /\ UNCHANGED <<disk, pending, graves, memory, history, lock, faults>>

StartGate(p, q) ==
  /\ pc[p] = "idle" /\ "gate" \in Commands
  /\ job' = [job EXCEPT ![p] = [NoJob EXCEPT !.cmd = "gate", !.path = q]]
  /\ GoTo(p, "inline")
  /\ UNCHANGED <<disk, pending, graves, memory, history, lock, faults>>

\* hasPendingIntentFor reads the queue without the lock.
InlineCheck(p) ==
  /\ pc[p] = "inline"
  /\ IF Own(pending, job[p].path) # {} THEN GoTo(p, "wantLock") /\ UNCHANGED job
     ELSE AfterFlush(p)
  /\ UNCHANGED <<disk, pending, graves, memory, history, lock, faults>>

BeginFlush(p) ==
  /\ pc[p] = "wantLock" /\ Take(p)
  /\ todo' = pending /\ kept' = {}
  /\ GoTo(p, "flushing")
  /\ UNCHANGED <<disk, pending, graves, history, job, faults>>

SkipStranger(p, i) ==
  /\ pc[p] = "flushing" /\ Oldest(todo, i) /\ ~Selects(job[p].path, i)
  /\ todo' = todo \ {i} /\ kept' = kept \cup {i}
  /\ UNCHANGED <<disk, pending, graves, history, lock, pc, job, faults>>

\* git add and git commit of the path under the repository lock.  The commit
\* takes the content that is on disk now; "nothing to commit" is a success.
CommitIntent(p, i) ==
  /\ pc[p] = "flushing" /\ Oldest(todo, i) /\ Selects(job[p].path, i)
  /\ i.path \notin Ignored
  /\ head' = [head EXCEPT ![i.path] = artifact[i.path]]
  /\ excused' = excused \ {i.path}
  /\ todo' = todo \ {i}
  /\ UNCHANGED <<artifact, pending, graves, kept, standing, lock, pc, job, faults>>

\* ErrPathIgnored: dead-letter on the first attempt.
RefuseIgnored(p, i) ==
  /\ pc[p] = "flushing" /\ Oldest(todo, i) /\ Selects(job[p].path, i)
  /\ i.path \in Ignored
  /\ todo' = (todo \ {i}) \cup {[i EXCEPT !.attempts = MaxAttempts]}
  /\ GoTo(p, "burying")
  /\ UNCHANGED <<disk, pending, graves, kept, history, lock, job, faults>>

\* Mutant: failures are not counted.
FailUncounted(p, i) ==
  /\ pc[p] = "flushing" /\ Oldest(todo, i) /\ Selects(job[p].path, i)
  /\ todo' = todo \ {i} /\ kept' = kept \cup {i}
  /\ UNCHANGED <<disk, pending, graves, history, lock, pc, job, faults>>

\* A locked index, a rejecting hook: count the attempt, keep the intent or give
\* it up.
FailIntent(p, i) ==
  LET failed == [i EXCEPT !.attempts = @ + 1] IN
  /\ pc[p] = "flushing" /\ Oldest(todo, i) /\ Selects(job[p].path, i)
  /\ i.path \notin Ignored
  /\ \/ /\ failed.attempts >= MaxAttempts
        /\ todo' = (todo \ {i}) \cup {failed}
        /\ GoTo(p, "burying") /\ UNCHANGED kept
     \/ /\ failed.attempts < MaxAttempts
        /\ todo' = todo \ {i} /\ kept' = kept \cup {failed}
        /\ UNCHANGED pc
  /\ UNCHANGED <<disk, pending, graves, history, lock, job, faults>>

LetterFor(i) == [line |-> NextLine(dead), path |-> i.path, ver |-> i.ver]

\* Mutant: the new line is glued to a torn tail, and both are unreadable.
AppendedToTail(i) ==
  /\ dead' = IF torn THEN {d \in dead : d.line # Cardinality(dead)}
             ELSE dead \cup {LetterFor(i)}
  /\ torn' = FALSE

\* appendLineLocked: terminate a torn tail first, so that the new line stands
\* on its own.
Appended(i) ==
  /\ dead' = dead \cup {LetterFor(i)}
  /\ torn' = FALSE

Bury(p, i) ==
  /\ pc[p] = "burying" /\ Oldest(todo, i)
  /\ Appended(i)
  /\ todo' = todo \ {i}
  /\ GoTo(p, "flushing")
  /\ UNCHANGED <<disk, pending, kept, history, lock, job, faults>>

\* What an append that does not return leaves: any prefix of the terminator of
\* a torn tail, the line and its newline.
HalfAppended(i) ==
  /\ dead' \in {dead, dead \cup {LetterFor(i)}}
  /\ torn' \in BOOLEAN

\* Mutant: what the pass did not reach is dropped when it stops early.
BuryFailsAndForgets(p, i) ==
  /\ pc[p] = "burying" /\ Oldest(todo, i) /\ Fault
  /\ pending' = Renumber(kept)
  /\ Release /\ AfterFlush(p)
  /\ UNCHANGED <<disk, graves, history>>

\* The dead-letter append reports a failed open, write or sync: keep the intent
\* and all that was not reached, and stop.  That rewrite is best effort.
BuryFails(p, i) ==
  /\ pc[p] = "burying" /\ Oldest(todo, i) /\ Fault
  /\ HalfAppended(i)
  /\ pending' \in {pending, Renumber(kept \cup todo)}
  /\ Release /\ AfterFlush(p)
  /\ UNCHANGED <<disk, history>>

\* One atomic rename at the end of the pass.
Rewrite(p) ==
  /\ pc[p] = "flushing" /\ todo = {}
  /\ pending' = Renumber(kept)
  /\ Release /\ AfterFlush(p)
  /\ UNCHANGED <<disk, graves, history, faults>>

RewriteFails(p) ==
  /\ pc[p] = "flushing" /\ todo = {} /\ Fault
  /\ Release /\ AfterFlush(p)
  /\ UNCHANGED <<disk, pending, graves, history>>

-----------------------------------------------------------------------------
(* The quality gate: two unlocked reads *)

\* `git status --porcelain` lists a changed file unless git ignores it.
Unclean(q) == Dirty(q) /\ q \notin Ignored

\* Only the case where the item has no queued intent needs a second look.
GateReadPending(p) ==
  LET q == job[p].path IN
  /\ pc[p] = "gatePending"
  /\ standing' = [standing EXCEPT ![p] =
       IF Unclean(q) THEN {i.ver : i \in Own(pending, q) \cup Own(dead, q)} ELSE {}]
  /\ IF Own(pending, q) # {} THEN Finish(p) ELSE GoTo(p, "gateDead") /\ UNCHANGED job
  /\ UNCHANGED <<disk, pending, graves, memory, excused, lock, faults>>

\* Mutant: a dead letter blocks only while its item is queued again.
UnresolvedIfQueued(q) == Own(dead, q) # {} /\ Own(pending, q) # {}

\* A dead letter whose artifact is clean in git no longer blocks.
Unresolved(q) == Own(dead, q) # {} /\ Unclean(q)

GateReadDead(p) ==
  /\ pc[p] = "gateDead"
  /\ IF Unresolved(job[p].path) THEN Finish(p) ELSE GoTo(p, "passed") /\ UNCHANGED job
  /\ UNCHANGED <<disk, pending, graves, memory, history, lock, faults>>

GateReturn(p) ==
  /\ pc[p] = "passed" /\ Finish(p)
  /\ standing' = [standing EXCEPT ![p] = {}]
  /\ UNCHANGED <<disk, pending, graves, memory, excused, lock, faults>>

-----------------------------------------------------------------------------
(* Dead-letter remediation; q = NoPath takes every entry *)

Chosen(q) == {d \in dead : Selects(q, d)}

\* RetryDeadLetter appends the entries to the queue with a fresh count ...
RetryRequeue(p, q) ==
  /\ pc[p] = "idle" /\ "retry" \in Commands /\ Chosen(q) # {} /\ Take(p)
  /\ pending' = Renumber(pending \cup
       {[line |-> Cardinality(pending) + d.line, path |-> d.path, ver |-> d.ver, attempts |-> 0] :
          d \in Chosen(q)})
  /\ job' = [job EXCEPT ![p] = [cmd |-> "retry", path |-> q, ver |-> 0]]
  /\ GoTo(p, "requeued")
  /\ UNCHANGED <<disk, graves, memory, history, faults>>

RewriteDead(S) == dead' = Renumber(S) /\ torn' = FALSE

\* Mutant: the retry empties the whole dead-letter file.
RetryDropAll(p) ==
  /\ pc[p] = "requeued"
  /\ RewriteDead({})
  /\ Release /\ Finish(p)
  /\ UNCHANGED <<disk, pending, history, faults>>

\* ... and then rewrites the dead-letter file without them.
RetryDrop(p) ==
  /\ pc[p] = "requeued"
  /\ RewriteDead(dead \ Chosen(job[p].path))
  /\ Release /\ Finish(p)
  /\ UNCHANGED <<disk, pending, history, faults>>

RetryDropFails(p) ==
  /\ pc[p] = "requeued" /\ Fault
  /\ Release /\ Finish(p)
  /\ UNCHANGED <<disk, pending, graves, history>>

\* ClearDeadLetter, after the operator confirmed.
ClearDead(p, q) ==
  /\ pc[p] = "idle" /\ "clear" \in Commands /\ Chosen(q) # {} /\ lock = NoProc
  /\ RewriteDead(dead \ Chosen(q))
  /\ excused' = excused \cup PathsOf(Chosen(q))
  /\ UNCHANGED <<disk, pending, memory, standing, lock, pc, job, faults>>

\* The operator commits an artifact by hand, as git status shows it.
ManualCommit(q) ==
  /\ "git" \in Commands /\ Unclean(q)
  /\ head' = [head EXCEPT ![q] = artifact[q]]
  /\ excused' = excused \ {q}
  /\ UNCHANGED <<artifact, pending, graves, memory, standing, lock, pc, job, faults>>

-----------------------------------------------------------------------------
(* Process death: the kernel drops the flock, the memory is gone *)

Die(p) ==
  /\ Fault
  /\ Finish(p)
  /\ excused' = IF pc[p] = "wrote" THEN excused \cup {job[p].path} ELSE excused
  /\ standing' = [standing EXCEPT ![p] = {}]
  /\ IF lock = p THEN Release ELSE UNCHANGED <<lock, memory>>

Crash(p) == pc[p] # "idle" /\ Die(p) /\ UNCHANGED <<disk, pending, graves>>

\* Death inside the dead-letter append.
CrashWhileBurying(p, i) ==
  /\ pc[p] = "burying" /\ Oldest(todo, i) /\ Die(p)
  /\ HalfAppended(i)
  /\ UNCHANGED <<disk, pending>>

-----------------------------------------------------------------------------
FlushStep(p) ==
  \/ BeginFlush(p) \/ Rewrite(p) \/ RewriteFails(p)
  \/ \E i \in todo : \/ SkipStranger(p, i) \/ CommitIntent(p, i) \/ RefuseIgnored(p, i)
                     \/ FailIntent(p, i) \/ Bury(p, i) \/ BuryFails(p, i)

GateStep(p) == GateReadPending(p) \/ GateReadDead(p) \/ GateReturn(p)

RetryStep(p) == RetryDrop(p) \/ RetryDropFails(p)

\* The steps that carry a started command on.
Continue(p) ==
  \/ RecordIntent(p) \/ RecordUnavailable(p) \/ AbortComplete(p) \/ InlineCheck(p)
  \/ FlushStep(p) \/ GateStep(p) \/ RetryStep(p)

Start(p) ==
  \/ StartFlush(p)
  \/ \E q \in Paths : StartGate(p, q) \/ \E cmd \in AllCommands : WriteArtifact(p, cmd, q)
  \/ \E q \in Paths \cup {NoPath} : RetryRequeue(p, q) \/ ClearDead(p, q)

Fail(p) == Crash(p) \/ \E i \in todo : CrashWhileBurying(p, i)

Next ==
  \/ \E p \in Procs : Start(p) \/ Continue(p) \/ Fail(p)
  \/ \E q \in Paths : ManualCommit(q)

Spec == Init /\ [][Next]_vars

\* A started command keeps being scheduled, a waiter gets the flock if it keeps
\* coming free, and somebody keeps running `wipnote commit-queue flush`.
FairSpec ==
  /\ Spec
  /\ \A p \in Procs :
       WF_vars(Continue(p)) /\ SF_vars(RecordIntent(p)) /\ SF_vars(BeginFlush(p))
  /\ SF_vars(\E p \in Procs : StartFlush(p))

-----------------------------------------------------------------------------
(* Properties *)

InFlight(q) == \E p \in Procs : pc[p] = "wrote" /\ job[p].path = q
Covered(q) == q \in PathsOf(pending) \cup PathsOf(dead) \/ InFlight(q)
SameIntent(i, j) == i.path = j.path /\ i.ver = j.ver

\* No transition is forgotten: an artifact that differs from git is owed by a
\* queued or dead-lettered intent or by a producer about to record one, unless
\* the failure was reported, the producer died or the operator cleared it.  The
\* flush snapshot, the coalescing append and the retry must all respect this
\* across crashes.
NoTransitionForgotten ==
  \A q \in Paths : Dirty(q) => Covered(q) \/ q \in excused

\* What holds in every state of the outbox: the files, the memory of the flush
\* and the producers fit together, and no transition is forgotten.
OutboxSound == TypeOK /\ NoTransitionForgotten

\* While a flush runs, each line still in the queue file is in the holder's
\* memory, or in the dead-letter file, or its transition is in git and whatever
\* came after it has a producer or an excuse: a crash at any point of the pass,
\* or the rewrite that ends it, loses nothing.
Accounted(i) ==
  \/ \E j \in todo \cup kept : SameIntent(i, j)
  \/ \E d \in dead : SameIntent(i, d)
  \/ /\ head[i.path] >= i.ver
     /\ Dirty(i.path) => InFlight(i.path) \/ i.path \in excused

FlushAccounts ==
  \A p \in Procs : pc[p] \in {"flushing", "burying"} => \A i \in pending : Accounted(i)

\* An intent leaves the queue file only once git holds its transition or a
\* later one, or the dead-letter file holds it, or a newer intent of the same
\* path supersedes it (confirm-then-remove in flushLocked).
OnlySettledLeave ==
  [][\A i \in pending :
       \/ \E j \in pending' : j.path = i.path
       \/ head'[i.path] >= i.ver
       \/ \E d \in dead' : SameIntent(i, d)]_vars

\* A dead letter disappears only into the queue or by the operator's clear:
\* neither a torn tail nor a crash between the two rewrites of a retry loses it.
DeadLettersKept ==
  [][\A d \in dead :
       \/ \E e \in dead' : SameIntent(d, e)
       \/ \E i \in pending' : SameIntent(d, i)
       \/ d.path \in excused']_vars

\* Draining one item's own intents leaves every other intent queued as it was,
\* its failure count included (FlushMatching).
StrangersUntouched ==
  [][\A p \in Procs :
       lock = p /\ job[p].cmd # "retry" /\ job[p].path # NoPath =>
         \A i \in pending : i.path # job[p].path =>
           \E j \in pending' : SameIntent(i, j) /\ j.attempts = i.attempts]_vars

\* A gate passes only if every intent that was unresolved when it looked has
\* since left the queue and the dead-letter file, or git status is clean.
GatePassEarned ==
  [][\A p \in Procs :
       LET q == job[p].path IN
       pc[p] = "gateDead" /\ pc'[p] = "passed" =>
         ~Unclean(q) \/ \A i \in Own(pending, q) \cup Own(dead, q) : i.ver \notin standing[p]]_vars

\* No intent sits in the queue forever: as long as somebody keeps flushing, the
\* intents of a path are committed or dead-lettered, whatever git answers.
QueueDrains ==
  \A q \in Paths : (q \in PathsOf(pending)) ~> (q \notin PathsOf(pending))

\* The strengthening under which the two invariants above are inductive: who
\* holds the lock, that no recorded version is ahead of its artifact, that a
\* flush keeps only what it read, and that a retry has queued what it drops.
LockHeld ==
  \A p \in Procs : lock = p <=> pc[p] \in {"flushing", "burying", "requeued"}

VersionsReached ==
  /\ \A q \in Paths : head[q] <= artifact[q]
  /\ \A i \in pending \cup todo \cup kept : i.ver <= artifact[i.path]
  /\ \A d \in dead : d.ver <= artifact[d.path]
  /\ \A p \in Procs : pc[p] = "wrote" => job[p].ver <= artifact[job[p].path]

SnapshotQueued ==
  \A p \in Procs : pc[p] \in {"flushing", "burying"} =>
    \A j \in todo \cup kept : \E i \in pending : SameIntent(i, j)

RetryQueued ==
  \A p \in Procs : pc[p] = "requeued" =>
    \A d \in Chosen(job[p].path) : \E i \in pending : SameIntent(d, i)

IInv ==
  /\ TypeOK /\ LockHeld /\ VersionsReached /\ SnapshotQueued
  /\ RetryQueued /\ FlushAccounts /\ NoTransitionForgotten

\* The outbox keeps the promise of ArtifactDebt, where a path is owed while an
\* intent or a producer stands for it.
Debt == INSTANCE ArtifactDebt WITH owed <- {q \in Paths : Covered(q)}
KeepsThePromise == Debt!Spec

=============================================================================

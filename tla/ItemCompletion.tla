--------------------------- MODULE ItemCompletion ---------------------------
(***************************************************************************)
(* The completion of one work item: its gates, its artifact and git        *)
(* (cmd/wipnote/workitem_set_status*.go, workitem_complete_gates.go,       *)
(* workitem_merged_gate.go, workitem_commit.go, wip.go).                   *)
(*                                                                         *)
(* A completion reads the code, the commits that name the item and the     *)
(* claims; each gate lets it pass, asks for an override, which is noted on *)
(* the artifact, or refuses.  It then writes the artifact and commits it:  *)
(* at once, through the outbox, or not at all.  A completion whose commit  *)
(* fails re-opens the item.                                                *)
(*                                                                         *)
(* The item is a feature, bug or spike of a git project; it has a source   *)
(* file of its own, and "linked" says where the commits that name the item *)
(* are.  mutateNode reads, changes and renames the artifact under the      *)
(* item's lock, so each use of it is one step.  A strict commit is one     *)
(* step too: add and commit hold the git lock, and commit takes the path's *)
(* content on disk.  CommitOutbox has the outbox in detail, ItemClaims the *)
(* claims; left out here are the spec gate and the research-first gate,    *)
(* which are off unless the project's configuration turns them on.         *)
(***************************************************************************)
EXTENDS Naturals, FiniteSets

CONSTANTS
  Procs,      \* wipnote commands
  Asked,      \* per command: the jobs it may be given
  Remote,     \* the repository has an upstream default branch
  Manifest,   \* the item's commits change a dependency manifest
  MaxWrites,  \* bound: writes of the artifact in one behaviour
  MaxFaults   \* bound: deaths and failures in one behaviour

Gates == {"provenance", "merged", "research"}

\* A command, its artifact commit policy, and its override flags.
Asks == [cmd : {"start", "block", "complete", "reset"},
         policy : {"separate", "defer", "none"},
         flags : SUBSET (Gates \cup {"dirty"})]

ASSUME CompletionConstants ==
  /\ Asked \in [Procs -> SUBSET Asks]
  /\ Remote \in BOOLEAN /\ Manifest \in BOOLEAN
  /\ MaxWrites \in Nat /\ MaxFaults \in Nat

VARIABLES
  item,     \* the artifact on disk
  head,     \* the artifact in git
  queued,   \* the outbox holds an intent for it
  code,     \* the item's source: its linked commits, its uncommitted changes
  claimed,  \* the claim ledger has an episode of the item
  pc, job,  \* per command: the next step, and what it knows
  excused,  \* history: the last transition may stay out of git
  faults

git   == <<head, queued>>
world == <<code, claimed>>
vars  == <<item, git, world, pc, job, excused, faults>>

Revs == 0 .. MaxWrites
Item == [status : {"todo", "in-progress", "blocked", "done"},
         notes : SUBSET Gates,           \* overrides noted on it
         linked : BOOLEAN,               \* it has a committed_in edge
         rev : Revs, stamp : Revs,       \* its last write, its last transition
         owed : SUBSET (Gates \cup {"dirty"})]  \* history: overrides it took
PCs == {"idle", "transition", "relate", "tree", "own", "paths", "complete",
        "link", "persist", "verify", "reopen", "reset"} \cup Gates
Job == [cmd : {"none", "start", "block", "complete", "reset"},
        policy : {"separate", "defer", "none"},
        flags : SUBSET (Gates \cup {"dirty"}),
        seen : {"unread", "none", "some"},  \* the linked commits it found
        bearing : BOOLEAN,                  \* it found code-bearing paths
        node : Item,                        \* what a reset read
        stamp : Revs,                       \* its transition, or 0
        moved : BOOLEAN]                    \* history: its evidence changed

TypeOK ==
  /\ item \in Item /\ head \in Item
  /\ queued \in BOOLEAN
  /\ code \in [linked : {"none", "branch", "merged"}, dirty : BOOLEAN]
  /\ claimed \in BOOLEAN /\ excused \in BOOLEAN /\ faults \in 0 .. MaxFaults
  /\ pc \in [Procs -> PCs] /\ job \in [Procs -> Job]

NewItem == [status |-> "todo", notes |-> {}, linked |-> FALSE,
            rev |-> 0, stamp |-> 0, owed |-> {}]
NoJob == [cmd |-> "none", policy |-> "none", flags |-> {}, seen |-> "unread",
          bearing |-> FALSE, node |-> NewItem, stamp |-> 0,
          moved |-> FALSE]

Init ==
  /\ claimed \in BOOLEAN   \* a new item, or one that was started
  /\ item = [NewItem EXCEPT !.status = IF claimed THEN "in-progress" ELSE "todo"]
  /\ head = item /\ queued = FALSE
  /\ code = [linked |-> "none", dirty |-> FALSE]
  /\ pc = [p \in Procs |-> "idle"] /\ job = [p \in Procs |-> NoJob]
  /\ excused = FALSE /\ faults = 0

-----------------------------------------------------------------------------
(* Vocabulary *)

GoTo(p, step) == pc' = [pc EXCEPT ![p] = step]
Finish(p) == GoTo(p, "idle") /\ job' = [job EXCEPT ![p] = NoJob]
Fault == faults < MaxFaults /\ faults' = faults + 1
Completing(p) == job[p].cmd = "complete"

\* What the gates of the commands in flight have read is out of date.
Outdated == [p \in Procs |->
              [job[p] EXCEPT !.moved = @ \/ (Completing(p) /\ job[p].stamp = 0)]]

\* A reset keeps the artifact it has read.
Read(cmd) == IF cmd = "reset" THEN item ELSE NewItem

Begin(p, cmd, step) ==
  /\ pc[p] = "idle"
  /\ \E ask \in Asked[p] :
       /\ ask.cmd = cmd
       /\ job' = [job EXCEPT ![p] = [NoJob EXCEPT !.cmd = cmd, !.policy = ask.policy,
                                                 !.flags = ask.flags, !.node = Read(cmd)]]
  /\ GoTo(p, step)

\* mutateNode: the artifact is read and replaced under its lock.
Save(new) == item.rev < MaxWrites /\ item' = [new EXCEPT !.rev = item.rev + 1]
Transition(new, status) ==
  /\ Save([new EXCEPT !.status = status, !.stamp = item.rev + 1,
                      !.owed = IF status = "done" THEN @ ELSE {}])
  /\ excused' = FALSE

\* The process stops caring for its transition while it is still the last.
Excuse(p) == excused' = (excused \/ job[p].stamp = item.stamp)

-----------------------------------------------------------------------------
(* Starting and blocking *)

BeginTransition(p) ==
  /\ \E cmd \in {"start", "block"} : Begin(p, cmd, "transition")
  /\ UNCHANGED <<item, git, world, excused, faults>>

\* Collection.Start records the claim under the item's lock.
WriteStart(p) ==
  /\ pc[p] = "transition" /\ job[p].cmd = "start"
  /\ Transition(item, "in-progress")
  /\ claimed' = TRUE /\ job' = IF claimed THEN job ELSE Outdated
  /\ GoTo(p, "relate")
  /\ UNCHANGED <<git, code, faults>>

\* autoImplementedInEdge writes the artifact again, unless it has the edge.
Relate(p) ==
  /\ pc[p] = "relate"
  /\ Save(item) \/ UNCHANGED item
  /\ GoTo(p, "persist")
  /\ UNCHANGED <<git, world, job, excused, faults>>

WriteBlocked(p) ==
  /\ pc[p] = "transition" /\ job[p].cmd = "block"
  /\ Transition(item, "blocked")
  /\ GoTo(p, "persist")
  /\ UNCHANGED <<git, world, job, faults>>

-----------------------------------------------------------------------------
(* The gates *)

BeginComplete(p) ==
  /\ Begin(p, "complete", "tree")
  /\ UNCHANGED <<item, git, world, excused, faults>>

Linked == IF code.linked = "none" THEN "none" ELSE "some"

\* checkUncommittedSourceCompleteGate: a clean tree needs no commits ...
ScanTree(p) ==
  /\ pc[p] = "tree"
  /\ GoTo(p, IF code.dirty THEN "own" ELSE "paths")
  /\ UNCHANGED <<item, git, world, job, excused, faults>>

\* Mutant: the item's own uncommitted files do not refuse it.
OwnFilesAny(p) ==
  /\ pc[p] = "own"
  /\ job' = [job EXCEPT ![p].seen = Linked]
  /\ GoTo(p, "paths")
  /\ UNCHANGED <<item, git, world, excused, faults>>

\* ... and uncommitted files count as the item's if its commits touched them.
OwnFiles(p) ==
  /\ pc[p] = "own"
  /\ Linked = "none" \/ "dirty" \in job[p].flags
  /\ job' = [job EXCEPT ![p].seen = Linked]
  /\ GoTo(p, "paths")
  /\ UNCHANGED <<item, git, world, excused, faults>>

RefuseDirty(p) ==
  /\ pc[p] = "own" /\ Linked # "none" /\ "dirty" \notin job[p].flags
  /\ Finish(p)
  /\ UNCHANGED <<item, git, world, excused, faults>>

\* linkedCommits walks the history once per command.
Seen(p) == IF job[p].seen = "unread" THEN Linked ELSE job[p].seen

\* Mutant: uncommitted work of an item somebody claimed does not count.
CodeBearingCommitted(p) == Seen(p) = "some"

\* Paths of the commits, or else uncommitted ones if the item was worked on.
CodeBearing(p) == Seen(p) = "some" \/ (claimed /\ code.dirty)

FindPaths(p) ==
  /\ pc[p] = "paths"
  /\ job' = [job EXCEPT ![p].seen = Seen(p), ![p].bearing = CodeBearing(p)]
  /\ GoTo(p, "provenance")
  /\ UNCHANGED <<item, git, world, excused, faults>>

\* Mutant: a linked commit is as good as a merged one.
ObjectsUnmerged(p, gate) ==
  /\ job[p].bearing
  /\ CASE gate = "provenance" -> job[p].seen = "none"
       [] gate = "merged" -> FALSE
       [] gate = "research" -> Manifest

\* No commit names the item; none is merged; dependencies have changed.
Objects(p, gate) ==
  /\ job[p].bearing
  /\ CASE gate = "provenance" -> job[p].seen = "none"
       [] gate = "merged" -> Remote /\ job[p].seen = "some" /\ code.linked # "merged"
       [] gate = "research" -> Manifest

After(gate) == CASE gate = "provenance" -> "merged" [] gate = "merged" -> "research"
                 [] gate = "research" -> "complete"

PassGate(p, gate) ==
  /\ pc[p] = gate /\ ~Objects(p, gate)
  /\ GoTo(p, After(gate))
  /\ UNCHANGED <<item, git, world, job, excused, faults>>

\* Mutant: the override is accepted and not noted.
OverrideUnnoted(p, gate) ==
  /\ pc[p] = gate /\ Objects(p, gate) /\ gate \in job[p].flags
  /\ GoTo(p, After(gate))
  /\ UNCHANGED <<item, git, world, job, excused, faults>>

\* The rationale is on the artifact before the item is done.
Override(p, gate) ==
  /\ pc[p] = gate /\ Objects(p, gate) /\ gate \in job[p].flags
  /\ Save([item EXCEPT !.notes = @ \cup {gate}])
  /\ GoTo(p, After(gate))
  /\ UNCHANGED <<git, world, job, excused, faults>>

Refuse(p, gate) ==
  /\ pc[p] = gate /\ Objects(p, gate) /\ gate \notin job[p].flags
  /\ Finish(p)
  /\ UNCHANGED <<item, git, world, excused, faults>>

-----------------------------------------------------------------------------
(* The transition and its commit *)

\* History: the overrides the code takes for the item to be done.
Owed(flags) ==
  LET uncommitted == code.linked = "none" /\ code.dirty /\ claimed
  IN  {g \in Gates :
        CASE g = "provenance" -> uncommitted
          [] g = "merged" -> Remote /\ code.linked = "branch"
          [] g = "research" -> Manifest /\ (uncommitted \/ code.linked # "none")}
      \cup {d \in {"dirty"} : code.dirty /\ code.linked # "none" /\ d \notin flags}

WriteDone(p) ==
  /\ pc[p] = "complete"
  /\ Transition([item EXCEPT !.owed = IF job[p].moved THEN {} ELSE Owed(job[p].flags)], "done")
  /\ job' = [job EXCEPT ![p].stamp = item.rev + 1, ![p].flags = {},
                       ![p].bearing = FALSE, ![p].moved = FALSE]
  /\ GoTo(p, "link")
  /\ UNCHANGED <<git, world, faults>>

\* autoLinkMessageDerivedCommits
Link(p) ==
  /\ pc[p] = "link"
  /\ IF job[p].seen = "some" /\ ~item.linked
     THEN Save([item EXCEPT !.linked = TRUE]) ELSE UNCHANGED item
  /\ job' = [job EXCEPT ![p].seen = "unread"]
  /\ GoTo(p, "persist")
  /\ UNCHANGED <<git, world, excused, faults>>

StrictCommit(p) ==
  /\ pc[p] = "persist" /\ job[p].policy = "separate"
  /\ head' = item
  /\ IF Completing(p) THEN GoTo(p, "verify") /\ UNCHANGED job ELSE Finish(p)
  /\ UNCHANGED <<item, queued, world, excused, faults>>

\* Mutant: a refused commit is only a warning, as it is for other transitions.
CommitRefusedWarns(p) ==
  /\ pc[p] = "persist" /\ job[p].policy = "separate" /\ Fault
  /\ Finish(p)
  /\ UNCHANGED <<item, git, world, excused>>

\* A hook rejects it, or the index stays locked for every retry.
CommitRefused(p) ==
  /\ pc[p] = "persist" /\ job[p].policy = "separate" /\ Fault
  /\ IF Completing(p) THEN GoTo(p, "reopen") /\ UNCHANGED job ELSE Finish(p)
  /\ UNCHANGED <<item, git, world, excused>>

\* A sandbox with a read-only .git: the item stays done, with a warning.
CommitReadOnly(p) ==
  /\ pc[p] = "persist" /\ job[p].policy = "separate" /\ Completing(p) /\ Fault
  /\ Excuse(p) /\ Finish(p)
  /\ UNCHANGED <<item, git, world>>

\* commitArtifactTransactional: the path must be clean.  Its other check, that
\* a commit has moved HEAD, cannot fail here.
Verify(p) ==
  /\ pc[p] = "verify"
  /\ IF item = head THEN Finish(p) ELSE GoTo(p, "reopen") /\ UNCHANGED job
  /\ UNCHANGED <<item, git, world, excused, faults>>

Enqueue(p) ==
  /\ pc[p] = "persist" /\ job[p].policy = "defer"
  /\ queued' = TRUE
  /\ Finish(p)
  /\ UNCHANGED <<item, head, world, excused, faults>>

EnqueueFails(p) ==
  /\ pc[p] = "persist" /\ job[p].policy = "defer" /\ Fault
  /\ IF Completing(p) THEN GoTo(p, "reopen") /\ UNCHANGED job ELSE Finish(p)
  /\ UNCHANGED <<item, git, world, excused>>

\* A sandbox whose cache cannot be written: the item stays done.
EnqueueUnavailable(p) ==
  /\ pc[p] = "persist" /\ job[p].policy = "defer" /\ Completing(p) /\ Fault
  /\ Excuse(p) /\ Finish(p)
  /\ UNCHANGED <<item, git, world>>

\* flushOwnIntentsAfterComplete, or a later flush; what fails stays queued.
Flush ==
  /\ queued /\ head' = item /\ queued' = FALSE
  /\ UNCHANGED <<item, world, pc, job, excused, faults>>

SkipCommit(p) ==
  /\ pc[p] = "persist" /\ job[p].policy = "none"
  /\ Excuse(p) /\ Finish(p)
  /\ UNCHANGED <<item, git, world, faults>>

\* Mutant: the aborted completion reports its failure and leaves the item.
ReopenNothing(p) ==
  /\ pc[p] = "reopen"
  /\ Finish(p)
  /\ UNCHANGED <<item, git, world, excused, faults>>

\* The compensating re-open is a Start without the claim.
Reopen(p) ==
  /\ pc[p] = "reopen"
  /\ Transition(item, "in-progress")
  /\ Finish(p)
  /\ UNCHANGED <<git, world, faults>>

\* The artifact cannot be written any more; the command says so.
ReopenFails(p) ==
  /\ pc[p] = "reopen" /\ Fault
  /\ Excuse(p) /\ Finish(p)
  /\ UNCHANGED <<item, git, world>>

-----------------------------------------------------------------------------
(* wip reset, the source, and death *)

\* scanInProgress reads the artifacts ...
BeginReset(p) ==
  /\ item.status = "in-progress" /\ Begin(p, "reset", "reset")
  /\ UNCHANGED <<item, git, world, excused, faults>>

\* ... and resetNodeToTodo writes back what was read, whatever is there now.
WriteReset(p) ==
  /\ pc[p] = "reset"
  /\ Transition(job[p].node, "todo")
  /\ GoTo(p, "idle")
  /\ job' = [(IF item = job[p].node THEN job ELSE Outdated) EXCEPT ![p] = NoJob]
  /\ UNCHANGED <<git, world, faults>>

\* The source is edited; it is committed, naming the item or not; it is merged.
Edit ==
  /\ ~code.dirty /\ code' = [code EXCEPT !.dirty = TRUE]
CommitSource ==
  /\ code.dirty
  /\ \E linked \in {code.linked} \cup (IF code.linked = "merged" THEN {} ELSE {"branch"}) :
       code' = [linked |-> linked, dirty |-> FALSE]
Merge ==
  /\ Remote /\ code.linked = "branch" /\ code' = [code EXCEPT !.linked = "merged"]
Develop ==
  /\ Edit \/ CommitSource \/ Merge
  /\ job' = Outdated
  /\ UNCHANGED <<item, git, claimed, pc, excused, faults>>

\* A command dies after its transition; before it, it leaves what a refused
\* one leaves.
Crash(p) ==
  /\ pc[p] \in {"relate", "link", "persist", "verify", "reopen"} /\ Fault
  /\ Excuse(p) /\ Finish(p)
  /\ UNCHANGED <<item, git, world>>
-----------------------------------------------------------------------------
(* Specification *)

Gate(p) ==
  \/ ScanTree(p) \/ OwnFiles(p) \/ RefuseDirty(p) \/ FindPaths(p)
  \/ \E gate \in Gates : PassGate(p, gate) \/ Override(p, gate) \/ Refuse(p, gate)
Persist(p) ==
  \/ StrictCommit(p) \/ CommitRefused(p) \/ CommitReadOnly(p) \/ Verify(p)
  \/ Enqueue(p) \/ EnqueueFails(p) \/ EnqueueUnavailable(p)
  \/ SkipCommit(p) \/ Reopen(p) \/ ReopenFails(p)

Next ==
  \/ \E p \in Procs :
       \/ BeginTransition(p) \/ WriteStart(p) \/ Relate(p) \/ WriteBlocked(p)
       \/ BeginComplete(p) \/ Gate(p)
       \/ WriteDone(p) \/ Link(p) \/ Persist(p)
       \/ BeginReset(p) \/ WriteReset(p) \/ Crash(p)
  \/ Flush \/ Develop

Spec == Init /\ [][Next]_vars

-----------------------------------------------------------------------------
(* Properties *)

Accounted(a) == a.status = "done" => a.owed \subseteq a.notes

\* A done item, on disk and in git, carries the rationale of every override its
\* code took, and its own files were committed unless it was told otherwise:
\* the gates that ran steps ago, on readings of git and of the claims, were
\* right when the status was written, if nothing they read has changed since
\* (checkProvenanceCompleteGate, checkMergedUpstreamCompleteGate).
DoneIsAccounted == TypeOK /\ Accounted(item) /\ Accounted(head)

\* No item is silently done: the very transition that made it done is in git
\* or queued, unless its command is still at work, has died, was told not to
\* commit, or has warned that it could not (commitArtifactTransactionally).
DoneIsDurable ==
  item.status = "done" =>
    \/ head.stamp = item.stamp \/ queued \/ excused
    \/ \E p \in Procs : job[p].stamp = item.stamp
=============================================================================

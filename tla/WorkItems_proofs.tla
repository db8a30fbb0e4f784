-------------------------- MODULE WorkItems_proofs --------------------------
(***************************************************************************)
(* Machine-checked theorems about the two things wipnote does with a work  *)
(* item: completing it (ItemCompletion) and making it from a plan          *)
(* (PlanPromotion); for any number of commands or callers, of slices and   *)
(* their dependencies, any jobs and orders, and any number of writes,      *)
(* failures and deaths.                                                    *)
(***************************************************************************)
EXTENDS ItemCompletion, PlanPromotion, WellFoundedInduction, TLAPS

-----------------------------------------------------------------------------
(* ItemCompletion: a completion and the artifact *)


\* Where a completion is before its status write.
Gating == {"tree", "own", "paths", "complete"} \cup Gates
Past(gate) == CASE gate = "provenance" -> {"merged", "research", "complete"}
                [] gate = "merged" -> {"research", "complete"}
                [] gate = "research" -> {"complete"}

\* A command is at a step of its kind, and only a completion that wrote the
\* status remembers a transition.
Placed(p) ==
  /\ pc[p] \in {"idle", "transition", "relate", "reset"} \cup Gating => job[p].stamp = 0
  /\ pc[p] \in Gating => Completing(p)
  /\ job[p].stamp # 0 => Completing(p)

\* What a completion concluded from git and the claims is still the case, and
\* the overrides it took so far are noted.
Certain(p) ==
  /\ job[p].seen \in {"unread", Linked}
  /\ pc[p] \in {"paths", "complete"} \cup Gates =>
       ~code.dirty \/ Linked = "none" \/ "dirty" \in job[p].flags
  /\ pc[p] \in {"complete"} \cup Gates =>
       /\ job[p].seen = Linked
       /\ job[p].bearing = (Linked = "some" \/ (claimed /\ code.dirty))
  /\ \A gate \in Gates : pc[p] \in Past(gate) /\ Objects(p, gate) => gate \in item.notes

\* A completion is certain until its evidence changes.
Knows(p) == Completing(p) /\ job[p].stamp = 0 /\ ~job[p].moved => Certain(p)

\* A done item was made so by a transition.
Stamped == item.status = "done" => item.stamp # 0

Commands == \A p \in Procs : Placed(p) /\ Knows(p)

IInv == TypeOK /\ Commands /\ Stamped /\ Accounted(item) /\ Accounted(head) /\ DoneIsDurable

-----------------------------------------------------------------------------
(* What a step leaves alone *)

Quiet(p) == \A q \in Procs \ {p} : pc'[q] = pc[q] /\ job'[q] = job[q]

Keeps == UNCHANGED world /\ item.notes \subseteq item'.notes

LEMMA OthersKeep ==
  ASSUME Commands, NEW p \in Procs, Quiet(p), Keeps, Placed(p)', Knows(p)'
  PROVE  Commands'
<1> SUFFICES ASSUME NEW q \in Procs, q # p PROVE Placed(q)' /\ Knows(q)'
  BY DEF Commands
<1>1. pc'[q] = pc[q] /\ job'[q] = job[q] /\ Placed(q) /\ Knows(q)
  BY DEF Quiet, Commands
<1>2. Placed(q)'
  BY <1>1 DEF Placed, Completing
<1>3. Knows(q)'
  BY <1>1 DEF Knows, Completing, Certain, Keeps, world, Linked, Objects
<1> QED BY <1>2, <1>3

\* When the evidence changes, no completion under way is sure of anything.
LEMMA NobodyKnows ==
  ASSUME Commands, TypeOK, NEW p \in Procs,
         \A q \in Procs \ {p} : pc'[q] = pc[q] /\ job'[q] = Outdated[q],
         Placed(p)', Knows(p)'
  PROVE  Commands'
<1> SUFFICES ASSUME NEW q \in Procs, q # p PROVE Placed(q)' /\ Knows(q)'
  BY DEF Commands
<1>1. job[q] \in Job /\ Placed(q)
  BY DEF TypeOK, Commands
<1>2. /\ pc'[q] = pc[q] /\ job'[q].cmd = job[q].cmd /\ job'[q].stamp = job[q].stamp
      /\ job'[q].moved = (job[q].moved \/ (Completing(q) /\ job[q].stamp = 0))
  <2>1. Outdated[q] = [job[q] EXCEPT !.moved =
                        job[q].moved \/ (Completing(q) /\ job[q].stamp = 0)]
    BY DEF Outdated
  <2> QED BY <1>1, <2>1 DEF Job
<1>3. Placed(q)'
  BY <1>1, <1>2 DEF Placed, Completing
<1>4. Knows(q)'
  BY <1>2 DEF Knows, Completing
<1> QED BY <1>3, <1>4

-----------------------------------------------------------------------------
(* Types *)

LEMMA Started ==
  ASSUME TypeOK
  PROVE  /\ NewItem \in Item /\ NoJob \in Job /\ 0 \in Revs
         /\ Outdated \in [Procs -> Job]
<1>1. 0 \in Revs
  BY CompletionConstants DEF Revs
<1>2. NewItem \in Item
  BY <1>1 DEF NewItem, Item
<1>3. NoJob \in Job
  BY <1>1, <1>2 DEF NoJob, Job
<1>4. ASSUME NEW p \in Procs, NEW b \in BOOLEAN PROVE [job[p] EXCEPT !.moved = b] \in Job
  BY DEF TypeOK, Job
<1>5. Outdated \in [Procs -> Job]
  <2> SUFFICES ASSUME NEW p \in Procs PROVE Outdated[p] \in Job
    BY DEF Outdated
  <2>1. job[p].moved \in BOOLEAN
    BY DEF TypeOK, Job
  <2> QED BY <1>4, <2>1 DEF Outdated
<1> QED BY <1>1, <1>2, <1>3, <1>5

\* The place and the job of one command change.
LEMMA Moves ==
  ASSUME TypeOK, NEW p \in Procs, NEW step \in PCs, NEW new \in Job,
         pc' = [pc EXCEPT ![p] = step], job' = [job EXCEPT ![p] = new]
  PROVE  /\ pc' \in [Procs -> PCs] /\ job' \in [Procs -> Job]
         /\ pc'[p] = step /\ job'[p] = new /\ Quiet(p)
BY DEF TypeOK, Quiet

LEMMA SaveTyped ==
  ASSUME TypeOK, NEW new \in Item, Save(new)
  PROVE  /\ item' \in Item /\ item.rev + 1 \in Revs /\ item.rev + 1 # 0
         /\ item' = [new EXCEPT !.rev = item.rev + 1]
<1>1. item.rev \in Nat /\ item.rev < MaxWrites /\ MaxWrites \in Nat
  BY CompletionConstants DEF TypeOK, Item, Save, Revs
<1>2. item.rev + 1 \in Revs /\ item.rev + 1 # 0
  BY <1>1 DEF Revs
<1> QED BY <1>2 DEF Save, Item

LEMMA FinishTyped ==
  ASSUME TypeOK, NEW p \in Procs, Finish(p)
  PROVE  /\ pc' \in [Procs -> PCs] /\ job' \in [Procs -> Job]
         /\ pc'[p] = "idle" /\ job'[p] = NoJob /\ Quiet(p)
BY Moves, Started DEF Finish, GoTo, PCs

LEMMA StepTyped ==
  ASSUME TypeOK, NEW p \in Procs, NEW step \in PCs, GoTo(p, step), UNCHANGED job
  PROVE  /\ pc' \in [Procs -> PCs] /\ job' \in [Procs -> Job]
         /\ pc'[p] = step /\ job'[p] = job[p] /\ Quiet(p)
BY DEF TypeOK, Quiet, GoTo

-----------------------------------------------------------------------------
(* One lemma per group of steps.  A command that ends knows nothing. *)

LEMMA IdleKnows ==
  ASSUME NEW p \in Procs, pc'[p] = "idle", job'[p] = NoJob
  PROVE  Placed(p)' /\ Knows(p)'
BY DEF Placed, Knows, Completing, NoJob, Gating, Gates

\* The item and git stay, and no job forgets a transition that needs it.
LEMMA SameItem ==
  ASSUME IInv, UNCHANGED <<item, head>>, Commands', TypeOK',
         excused => excused', queued => queued',
         \/ \A p \in Procs : job'[p].stamp = job[p].stamp \/ job[p].stamp = 0
         \/ item.status = "done" => head.stamp = item.stamp \/ queued' \/ excused'
  PROVE  IInv'
<1>1. Stamped' /\ Accounted(item)' /\ Accounted(head)'
  BY DEF IInv, Stamped, Accounted
<1>2. DoneIsDurable'
  BY DEF IInv, DoneIsDurable, Stamped
<1> QED BY <1>1, <1>2 DEF IInv

\* A write that is no transition.
LEMMA SameTransition ==
  ASSUME IInv, UNCHANGED <<git, excused>>, Commands', TypeOK',
         item'.status = item.status, item'.stamp = item.stamp, item'.owed = item.owed,
         item.notes \subseteq item'.notes,
         \A p \in Procs : job'[p].stamp = job[p].stamp
  PROVE  IInv'
<1>1. Stamped' /\ Accounted(item)' /\ Accounted(head)'
  BY DEF IInv, Stamped, Accounted, git
<1>2. DoneIsDurable'
  BY DEF IInv, DoneIsDurable, git
<1> QED BY <1>1, <1>2 DEF IInv

LEMMA NotDone ==
  ASSUME IInv, UNCHANGED git, Commands', TypeOK', item'.status # "done"
  PROVE  IInv'
BY DEF IInv, Stamped, Accounted, DoneIsDurable, git

-----------------------------------------------------------------------------
(* Beginnings and transitions *)

LEMMA BeginKeeps ==
  ASSUME IInv, NEW p \in Procs, NEW cmd \in {"start", "block", "complete", "reset"},
         NEW step \in PCs, Begin(p, cmd, step), UNCHANGED <<item, git, world, excused, faults>>,
         step \in {"transition", "reset"} \/ (step = "tree" /\ cmd = "complete")
  PROVE  IInv'
<1>1. PICK ask \in Asked[p] :
        /\ ask.cmd = cmd
        /\ job' = [job EXCEPT ![p] = [NoJob EXCEPT !.cmd = cmd, !.policy = ask.policy,
                                                 !.flags = ask.flags, !.node = Read(cmd)]]
  BY DEF Begin
<1> DEFINE new == [NoJob EXCEPT !.cmd = cmd, !.policy = ask.policy,
                               !.flags = ask.flags, !.node = Read(cmd)]
<1>2. ask \in Asks
  BY CompletionConstants
<1>3. Read(cmd) \in Item
  BY Started DEF Read, IInv, TypeOK
<1>4. /\ new \in Job /\ new.stamp = 0 /\ new.cmd = cmd
      /\ new.seen = "unread" /\ new.moved = FALSE
  BY <1>2, <1>3, Started, CompletionConstants DEF NoJob, Job, Asks, IInv
<1> HIDE DEF new
<1>5. pc' = [pc EXCEPT ![p] = step] /\ job' = [job EXCEPT ![p] = new]
  BY <1>1 DEF Begin, GoTo, new
<1>6. /\ pc' \in [Procs -> PCs] /\ job' \in [Procs -> Job]
      /\ pc'[p] = step /\ job'[p] = new /\ Quiet(p)
  BY <1>4, <1>5, Moves DEF IInv
<1>7. TypeOK'
  BY <1>6 DEF IInv, TypeOK, git, world
<1>8. Placed(p)' /\ Knows(p)'
  BY <1>4, <1>6 DEF Placed, Knows, Certain, Completing, Gating, Gates, Past
<1>9. Commands'
  BY <1>6, <1>8, OthersKeep DEF IInv, Keeps
<1>10. pc[p] = "idle" /\ job[p].stamp = 0
  BY DEF Begin, IInv, Commands, Placed
<1>11. \A q \in Procs : job'[q].stamp = job[q].stamp
  BY <1>4, <1>6, <1>10 DEF Quiet
<1> QED BY <1>7, <1>9, <1>11, SameItem DEF git

LEMMA TransitionTyped ==
  ASSUME TypeOK, NEW p \in Procs, NEW new \in Item,
         NEW status \in {"todo", "in-progress", "blocked", "done"}, Transition(new, status)
  PROVE  /\ item' \in Item /\ excused' = FALSE /\ item'.status = status
         /\ item'.stamp = item.rev + 1 /\ item'.notes = new.notes
         /\ item.rev + 1 \in Revs /\ item.rev + 1 # 0
         /\ item'.owed = IF status = "done" THEN new.owed ELSE {}
<1> DEFINE made == [new EXCEPT !.status = status, !.stamp = item.rev + 1,
                              !.owed = IF status = "done" THEN @ ELSE {}]
<1>1. Save(made) /\ excused' = FALSE
  BY DEF Transition
<1>2. item.rev + 1 \in Revs /\ item.rev + 1 # 0
  BY CompletionConstants DEF TypeOK, Item, Transition, Save, Revs
<1>3. /\ made \in Item /\ made.status = status /\ made.stamp = item.rev + 1
      /\ made.notes = new.notes /\ made.owed = IF status = "done" THEN new.owed ELSE {}
  BY <1>2 DEF Item
<1> HIDE DEF made
<1>4. item' = [made EXCEPT !.rev = item.rev + 1] /\ item' \in Item
  BY <1>1, <1>3, SaveTyped
<1> QED BY <1>1, <1>2, <1>3, <1>4 DEF Item

LEMMA StartKeeps ==
  ASSUME IInv, NEW p \in Procs, WriteStart(p)
  PROVE  IInv'
<1>1. TypeOK /\ item \in Item /\ job[p].cmd = "start" /\ job[p].stamp = 0
  BY DEF IInv, TypeOK, WriteStart, Commands, Placed
<1>2. /\ item' \in Item /\ excused' = FALSE /\ item'.status = "in-progress"
      /\ item'.notes = item.notes
  BY <1>1, TransitionTyped DEF WriteStart
<1>3. pc' = [pc EXCEPT ![p] = "relate"] /\ job' \in {job, Outdated}
  BY DEF WriteStart, GoTo
<1>4. job' \in [Procs -> Job] /\ pc' \in [Procs -> PCs] /\ pc'[p] = "relate"
  BY <1>1, <1>3, Started DEF TypeOK, PCs
<1>5. TypeOK'
  BY <1>1, <1>2, <1>4 DEF TypeOK, WriteStart, git
<1>6. job'[p].cmd = "start" /\ job'[p].stamp = 0
  <2>1. job[p] \in Job
    BY <1>1 DEF TypeOK
  <2>2. Outdated[p].cmd = "start" /\ Outdated[p].stamp = 0
    BY <1>1, <2>1 DEF Outdated, Job
  <2> QED BY <1>1, <1>3, <2>2
<1>7. Placed(p)' /\ Knows(p)'
  BY <1>4, <1>6 DEF Placed, Knows, Completing, Gating, Gates
<1>8. CASE claimed
  <2>1. job' = job /\ Keeps
    BY <1>1, <1>2, <1>8 DEF WriteStart, Keeps, world, IInv, TypeOK
  <2>2. Quiet(p)
    BY <1>1, <1>3, <2>1 DEF Quiet, TypeOK
  <2>3. Commands'
    BY <1>7, <2>1, <2>2, OthersKeep DEF IInv
  <2> QED BY <1>2, <1>5, <2>3, NotDone DEF WriteStart
<1>9. CASE ~claimed
  <2>1. \A q \in Procs \ {p} : pc'[q] = pc[q] /\ job'[q] = Outdated[q]
    BY <1>1, <1>3, <1>9 DEF WriteStart, TypeOK
  <2>2. Commands'
    BY <1>7, <2>1, NobodyKnows DEF IInv
  <2> QED BY <1>2, <1>5, <2>2, NotDone DEF WriteStart
<1> QED BY <1>8, <1>9

LEMMA BlockKeeps ==
  ASSUME IInv, NEW p \in Procs, WriteBlocked(p)
  PROVE  IInv'
<1>1. TypeOK /\ item \in Item /\ job[p].cmd = "block" /\ job[p].stamp = 0
  BY DEF IInv, TypeOK, WriteBlocked, Commands, Placed
<1>2. /\ item' \in Item /\ excused' = FALSE /\ item'.status = "blocked"
      /\ item'.notes = item.notes
  BY <1>1, TransitionTyped DEF WriteBlocked
<1>3. /\ pc' \in [Procs -> PCs] /\ job' \in [Procs -> Job]
      /\ pc'[p] = "persist" /\ job'[p] = job[p] /\ Quiet(p)
  BY <1>1, StepTyped DEF WriteBlocked, PCs
<1>4. TypeOK'
  BY <1>1, <1>2, <1>3 DEF TypeOK, WriteBlocked, git, world
<1>5. Placed(p)' /\ Knows(p)'
  BY <1>1, <1>3 DEF Placed, Knows, Completing, Gating, Gates
<1>6. Commands'
  BY <1>2, <1>3, <1>5, OthersKeep DEF IInv, WriteBlocked, Keeps
<1> QED BY <1>2, <1>4, <1>6, NotDone DEF WriteBlocked

LEMMA ResetKeeps ==
  ASSUME IInv, NEW p \in Procs, WriteReset(p)
  PROVE  IInv'
<1>1. TypeOK /\ job[p].node \in Item
  BY DEF IInv, TypeOK, Job
<1>2. /\ item' \in Item /\ excused' = FALSE /\ item'.status = "todo"
      /\ item'.notes = job[p].node.notes
  BY <1>1, TransitionTyped DEF WriteReset
<1> DEFINE others == IF item = job[p].node THEN job ELSE Outdated
<1>3. others \in [Procs -> Job] /\ pc' = [pc EXCEPT ![p] = "idle"]
      /\ job' = [others EXCEPT ![p] = NoJob]
  BY <1>1, Started DEF WriteReset, GoTo, TypeOK
<1>4. /\ job' \in [Procs -> Job] /\ pc' \in [Procs -> PCs] /\ pc'[p] = "idle"
      /\ job'[p] = NoJob
      /\ \A q \in Procs \ {p} : pc'[q] = pc[q] /\ job'[q] = others[q]
  BY <1>1, <1>3, Started DEF TypeOK, PCs
<1>5. TypeOK'
  BY <1>1, <1>2, <1>4 DEF TypeOK, WriteReset, git, world
<1>6. Placed(p)' /\ Knows(p)'
  BY <1>4, IdleKnows
<1>7. CASE item = job[p].node
  <2>1. Quiet(p) /\ Keeps
    BY <1>2, <1>4, <1>7 DEF Quiet, Keeps, WriteReset
  <2>2. Commands'
    BY <1>6, <2>1, OthersKeep DEF IInv
  <2> QED BY <1>2, <1>5, <2>2, NotDone DEF WriteReset
<1>8. CASE item # job[p].node
  <2>1. Commands'
    BY <1>4, <1>6, <1>8, NobodyKnows DEF IInv
  <2> QED BY <1>2, <1>5, <2>1, NotDone DEF WriteReset
<1> QED BY <1>7, <1>8

-----------------------------------------------------------------------------
(* Steps that leave the item, git and the evidence alone *)

\* A command that ends where it owes its transition nothing.
LEMMA EndKeeps ==
  ASSUME IInv, NEW p \in Procs, Finish(p), UNCHANGED <<item, head, world>>,
         queued' \in BOOLEAN, excused' \in BOOLEAN, faults' \in 0 .. MaxFaults,
         excused => excused', queued => queued',
         \/ job[p].stamp = 0
         \/ item.status = "done" =>
              \/ job[p].stamp # item.stamp
              \/ head.stamp = item.stamp \/ queued' \/ excused'
  PROVE  IInv'
<1>1. TypeOK
  BY DEF IInv
<1>2. /\ pc' \in [Procs -> PCs] /\ job' \in [Procs -> Job]
      /\ pc'[p] = "idle" /\ job'[p] = NoJob /\ Quiet(p)
  BY <1>1, FinishTyped
<1>3. TypeOK'
  BY <1>1, <1>2 DEF TypeOK, world
<1>4. Commands'
  BY <1>2, IdleKnows, OthersKeep DEF IInv, Keeps
<1>5. Stamped' /\ Accounted(item)' /\ Accounted(head)'
  BY DEF IInv, Stamped, Accounted
<1>6. DoneIsDurable'
  BY <1>2 DEF IInv, DoneIsDurable, Stamped, Quiet
<1> QED BY <1>3, <1>4, <1>5, <1>6 DEF IInv

\* A command goes on, with what it has read.
LEMMA GoesOn ==
  ASSUME IInv, NEW p \in Procs, NEW step \in PCs, NEW new \in Job,
         GoTo(p, step), job' = [job EXCEPT ![p] = new], new.stamp = job[p].stamp,
         UNCHANGED <<item, git, world, excused, faults>>,
         Placed(p)', Knows(p)'
  PROVE  IInv'
<1>1. TypeOK
  BY DEF IInv
<1>2. /\ pc' \in [Procs -> PCs] /\ job' \in [Procs -> Job]
      /\ pc'[p] = step /\ job'[p] = new /\ Quiet(p)
  BY <1>1, Moves DEF GoTo
<1>3. TypeOK'
  BY <1>1, <1>2 DEF TypeOK, git, world
<1>4. Commands'
  BY <1>2, OthersKeep DEF IInv, Keeps
<1>5. \A q \in Procs : job'[q].stamp = job[q].stamp
  BY <1>2 DEF Quiet
<1> QED BY <1>3, <1>4, <1>5, SameItem DEF git

\* The gates read the evidence one after the other.
LEMMA GatesKeep ==
  ASSUME IInv, NEW p \in Procs,
         \/ ScanTree(p) \/ OwnFiles(p) \/ RefuseDirty(p) \/ FindPaths(p)
         \/ \E gate \in Gates : PassGate(p, gate) \/ Refuse(p, gate)
  PROVE  IInv'
<1>1. TypeOK /\ job[p] \in Job /\ Placed(p) /\ Knows(p) /\ p \in DOMAIN job
  BY DEF IInv, TypeOK, Commands
<1>2. job = [job EXCEPT ![p] = job[p]]
  BY <1>1 DEF TypeOK
<1>3. Linked \in {"none", "some"} /\ Seen(p) \in {"unread", "none", "some"}
      /\ CodeBearing(p) \in BOOLEAN
  BY <1>1 DEF Linked, Seen, CodeBearing, TypeOK, Job
<1>4. pc \in [Procs -> PCs]
  BY <1>1 DEF TypeOK
<1>5. CASE ScanTree(p)
  <2> DEFINE step == IF code.dirty THEN "own" ELSE "paths"
  <2>1. step \in PCs /\ GoTo(p, step) /\ pc'[p] = step
    BY <1>4, <1>5 DEF ScanTree, PCs, GoTo
  <2>2. Placed(p)'
    BY <1>1, <1>5, <2>1 DEF ScanTree, Placed, Gating, Completing
  <2>3. Knows(p)'
    BY <1>1, <1>5, <2>1 DEF ScanTree, Knows, Certain, Completing, world, Linked, Past, Gates
  <2> QED BY <1>1, <1>2, <1>5, <2>1, <2>2, <2>3, GoesOn DEF ScanTree
<1>6. CASE OwnFiles(p)
  <2> DEFINE new == [job[p] EXCEPT !.seen = Linked]
  <2>1. /\ new \in Job /\ new.stamp = job[p].stamp /\ new.cmd = job[p].cmd
        /\ new.flags = job[p].flags /\ new.moved = job[p].moved /\ new.seen = Linked
    BY <1>1, <1>3 DEF Job
  <2>2. job' = [job EXCEPT ![p] = new] /\ GoTo(p, "paths") /\ "paths" \in PCs
    BY <1>6 DEF OwnFiles, PCs
  <2>3. pc'[p] = "paths" /\ job'[p] = new
    BY <1>1, <1>4, <2>2 DEF GoTo
  <2> HIDE DEF new
  <2>4. Placed(p)'
    BY <1>1, <1>6, <2>1, <2>3 DEF OwnFiles, Placed, Gating, Completing
  <2>5. Knows(p)'
    BY <1>1, <1>6, <2>1, <2>3 DEF OwnFiles, Knows, Certain, Completing, world, Linked, Past, Gates
  <2> QED BY <1>6, <2>1, <2>2, <2>4, <2>5, GoesOn DEF OwnFiles
<1>7. CASE RefuseDirty(p)
  <2>1. job[p].stamp = 0
    BY <1>1, <1>7 DEF RefuseDirty, Placed, Gating
  <2> QED BY <1>1, <1>7, <2>1, EndKeeps DEF RefuseDirty, git, TypeOK
<1>8. CASE FindPaths(p)
  <2> DEFINE new == [job[p] EXCEPT !.seen = Seen(p), !.bearing = CodeBearing(p)]
  <2>1. /\ new \in Job /\ new.stamp = job[p].stamp /\ new.cmd = job[p].cmd
        /\ new.flags = job[p].flags /\ new.moved = job[p].moved /\ new.seen = Seen(p)
        /\ new.bearing = CodeBearing(p)
    BY <1>1, <1>3 DEF Job
  <2>2. job' = [job EXCEPT ![p] = new] /\ GoTo(p, "provenance") /\ "provenance" \in PCs
    BY <1>1, <1>8 DEF FindPaths, PCs, Gates
  <2>3. pc'[p] = "provenance" /\ job'[p] = new
    BY <1>1, <1>4, <2>2 DEF GoTo
  <2> HIDE DEF new
  <2>4. Placed(p)'
    BY <1>1, <1>8, <2>1, <2>3 DEF FindPaths, Placed, Gating, Completing
  <2>5. Knows(p)'
    BY <1>1, <1>8, <2>1, <2>3
       DEF FindPaths, Knows, Certain, Completing, world, Linked, Past, Gates, Seen, CodeBearing
  <2> QED BY <1>8, <2>1, <2>2, <2>4, <2>5, GoesOn DEF FindPaths
<1>9. ASSUME NEW gate \in Gates, PassGate(p, gate) PROVE IInv'
  <2>1. After(gate) \in PCs /\ GoTo(p, After(gate)) /\ pc'[p] = After(gate) /\ job' = job
    BY <1>4, <1>9 DEF PassGate, PCs, GoTo, After, Gates
  <2>2. Placed(p)'
    BY <1>1, <1>9, <2>1 DEF PassGate, Placed, Gating, Completing, After, Gates
  <2>3. Knows(p)'
    BY <1>1, <1>9, <2>1
       DEF PassGate, Knows, Certain, Completing, world, Linked, Past, Gates, After, Objects
  <2> QED BY <1>1, <1>2, <1>9, <2>1, <2>2, <2>3, GoesOn DEF PassGate
<1>10. ASSUME NEW gate \in Gates, Refuse(p, gate) PROVE IInv'
  <2>1. job[p].stamp = 0
    BY <1>1, <1>10 DEF Refuse, Placed, Gating
  <2> QED BY <1>1, <1>10, <2>1, EndKeeps DEF Refuse, git, TypeOK
<1> QED BY <1>5, <1>6, <1>7, <1>8, <1>9, <1>10

-----------------------------------------------------------------------------
(* Writes of the artifact *)

LEMMA RelateKeeps ==
  ASSUME IInv, NEW p \in Procs, Relate(p)
  PROVE  IInv'
<1>1. TypeOK /\ item \in Item /\ Placed(p)
  BY DEF IInv, TypeOK, Commands
<1>2. /\ item' \in Item /\ item'.status = item.status /\ item'.stamp = item.stamp
      /\ item'.owed = item.owed /\ item'.notes = item.notes
  <2>1. CASE Save(item)
    <3>1. item' \in Item /\ item' = [item EXCEPT !.rev = item.rev + 1]
      BY <1>1, <2>1, SaveTyped
    <3> QED BY <1>1, <3>1 DEF Item
  <2> QED BY <1>1, <2>1 DEF Relate
<1>3. /\ pc' \in [Procs -> PCs] /\ job' \in [Procs -> Job]
      /\ pc'[p] = "persist" /\ job'[p] = job[p] /\ Quiet(p)
  BY <1>1, StepTyped DEF Relate, PCs
<1>4. TypeOK'
  BY <1>1, <1>2, <1>3 DEF TypeOK, Relate, git, world
<1>5. Placed(p)' /\ Knows(p)'
  <2>1. Placed(p)'
    BY <1>1, <1>3 DEF Relate, Placed, Completing, Gating, Gates
  <2>2. Knows(p)'
    BY <1>1, <1>3
       DEF Relate, Knows, Certain, Completing, Gates, Past, IInv, Commands, world, Linked
  <2> QED BY <2>1, <2>2
<1>6. Commands'
  BY <1>2, <1>3, <1>5, OthersKeep DEF IInv, Relate, Keeps
<1> QED BY <1>2, <1>4, <1>6, SameTransition DEF Relate

LEMMA OverrideKeeps ==
  ASSUME IInv, NEW p \in Procs, NEW gate \in Gates, Override(p, gate)
  PROVE  IInv'
<1>1. TypeOK /\ item \in Item /\ Placed(p) /\ Knows(p)
  BY DEF IInv, TypeOK, Commands
<1> DEFINE new == [item EXCEPT !.notes = item.notes \cup {gate}]
<1>2. Save(new)
  BY DEF Override
<1>3. /\ new \in Item /\ new.status = item.status /\ new.stamp = item.stamp
      /\ new.owed = item.owed /\ new.notes = item.notes \cup {gate}
  BY <1>1 DEF Item
<1> HIDE DEF new
<1>4. /\ item' \in Item /\ item'.status = item.status /\ item'.stamp = item.stamp
      /\ item'.owed = item.owed /\ item'.notes = item.notes \cup {gate}
  <2>1. item' \in Item /\ item' = [new EXCEPT !.rev = item.rev + 1]
    BY <1>1, <1>2, <1>3, SaveTyped
  <2> QED BY <1>3, <2>1 DEF Item
<1>5. After(gate) \in PCs
  BY DEF After, PCs, Gates
<1>6. /\ pc' \in [Procs -> PCs] /\ job' \in [Procs -> Job]
      /\ pc'[p] = After(gate) /\ job'[p] = job[p] /\ Quiet(p)
  BY <1>1, <1>5, StepTyped DEF Override
<1>7. TypeOK'
  BY <1>1, <1>4, <1>6 DEF TypeOK, Override, git, world
<1>8. Placed(p)'
  BY <1>1, <1>6 DEF Override, Placed, Gating, Completing, After, Gates
<1>9. Knows(p)'
  BY <1>1, <1>4, <1>6
     DEF Override, Knows, Certain, Completing, world, Linked, Past, Gates, After, Objects
<1>10. Commands'
  BY <1>4, <1>6, <1>8, <1>9, OthersKeep DEF IInv, Override, Keeps
<1> QED BY <1>4, <1>6, <1>7, <1>10, SameTransition DEF Override, Quiet

\* What the gates found covers what the code takes at the status write.
LEMMA OwedNoted ==
  ASSUME TypeOK, NEW p \in Procs, pc[p] = "complete", Certain(p)
  PROVE  Owed(job[p].flags) \subseteq item.notes
<1>1. \A gate \in Gates : Objects(p, gate) => gate \in item.notes
  BY DEF Certain, Past, Gates
<1>2. /\ job[p].seen = Linked
      /\ job[p].bearing = (Linked = "some" \/ (claimed /\ code.dirty))
      /\ ~code.dirty \/ Linked = "none" \/ "dirty" \in job[p].flags
  BY DEF Certain
<1>3. code.linked \in {"none", "branch", "merged"}
  BY DEF TypeOK
<1>4. "dirty" \notin Owed(job[p].flags)
  BY <1>2, <1>3 DEF Owed, Linked, Gates
<1>5. "provenance" \in Owed(job[p].flags) => Objects(p, "provenance")
  BY <1>2, <1>3 DEF Owed, Objects, Linked, Gates
<1>6. "merged" \in Owed(job[p].flags) => Objects(p, "merged")
  BY <1>2, <1>3 DEF Owed, Objects, Linked, Gates
<1>7. "research" \in Owed(job[p].flags) => Objects(p, "research")
  BY <1>2, <1>3 DEF Owed, Objects, Linked, Gates
<1>8. Owed(job[p].flags) \subseteq Gates \cup {"dirty"}
  BY DEF Owed
<1> QED BY <1>1, <1>4, <1>5, <1>6, <1>7, <1>8 DEF Gates

LEMMA DoneKeeps ==
  ASSUME IInv, NEW p \in Procs, WriteDone(p)
  PROVE  IInv'
<1>1. TypeOK /\ item \in Item /\ job[p] \in Job /\ Placed(p) /\ Knows(p)
  BY DEF IInv, TypeOK, Commands
<1>2. Completing(p) /\ job[p].stamp = 0
  BY <1>1 DEF WriteDone, Placed, Gating
<1> DEFINE owes == IF job[p].moved THEN {} ELSE Owed(job[p].flags)
           made == [item EXCEPT !.owed = owes]
<1>3. owes \subseteq item.notes /\ item.notes \subseteq Gates
  BY <1>1, <1>2, OwedNoted DEF Knows, WriteDone, Item
<1> HIDE DEF owes
<1>4. Transition(made, "done")
  BY DEF WriteDone, owes
<1>5. made \in Item /\ made.notes = item.notes /\ made.owed = owes
  BY <1>1, <1>3 DEF Item
<1> HIDE DEF made
<1>6. /\ item' \in Item /\ excused' = FALSE /\ item'.status = "done"
      /\ item'.notes = item.notes /\ item'.owed = owes
      /\ item'.stamp = item.rev + 1 /\ item.rev + 1 \in Revs /\ item.rev + 1 # 0
  BY <1>1, <1>4, <1>5, TransitionTyped
<1> DEFINE new == [job[p] EXCEPT !.stamp = item.rev + 1, !.flags = {},
                                !.bearing = FALSE, !.moved = FALSE]
<1>7. new \in Job /\ new.stamp = item.rev + 1 /\ new.cmd = job[p].cmd
  BY <1>1, <1>6 DEF Job
<1>8. job' = [job EXCEPT ![p] = new] /\ pc' = [pc EXCEPT ![p] = "link"] /\ "link" \in PCs
  BY DEF WriteDone, GoTo, PCs
<1> HIDE DEF new
<1>9. /\ pc' \in [Procs -> PCs] /\ job' \in [Procs -> Job]
      /\ pc'[p] = "link" /\ job'[p] = new /\ Quiet(p)
  BY <1>1, <1>7, <1>8, Moves
<1>10. TypeOK'
  BY <1>1, <1>6, <1>9 DEF TypeOK, WriteDone, git, world
<1>11. Placed(p)' /\ Knows(p)'
  BY <1>2, <1>6, <1>7, <1>9 DEF Placed, Knows, Completing, Gating, Gates
<1>12. Commands'
  BY <1>6, <1>9, <1>11, OthersKeep DEF IInv, WriteDone, Keeps
<1>13. Stamped' /\ Accounted(item)' /\ Accounted(head)'
  BY <1>3, <1>6 DEF IInv, Stamped, Accounted, WriteDone, git
<1>14. DoneIsDurable'
  BY <1>6, <1>7, <1>9 DEF DoneIsDurable
<1> QED BY <1>10, <1>12, <1>13, <1>14 DEF IInv

LEMMA LinkKeeps ==
  ASSUME IInv, NEW p \in Procs, Link(p)
  PROVE  IInv'
<1>1. TypeOK /\ item \in Item /\ job[p] \in Job /\ Placed(p) /\ Knows(p)
  BY DEF IInv, TypeOK, Commands
<1>2. /\ item' \in Item /\ item'.status = item.status /\ item'.stamp = item.stamp
      /\ item'.owed = item.owed /\ item'.notes = item.notes
  <2> DEFINE linked == [item EXCEPT !.linked = TRUE]
  <2>1. /\ linked \in Item /\ linked.status = item.status /\ linked.stamp = item.stamp
        /\ linked.owed = item.owed /\ linked.notes = item.notes
    BY <1>1 DEF Item
  <2>2. Save(linked) \/ UNCHANGED item
    BY DEF Link
  <2> HIDE DEF linked
  <2>3. CASE Save(linked)
    <3>1. item' \in Item /\ item' = [linked EXCEPT !.rev = item.rev + 1]
      BY <1>1, <2>1, <2>3, SaveTyped
    <3> QED BY <2>1, <3>1 DEF Item
  <2> QED BY <1>1, <2>2, <2>3
<1> DEFINE new == [job[p] EXCEPT !.seen = "unread"]
<1>3. /\ new \in Job /\ new.stamp = job[p].stamp /\ new.cmd = job[p].cmd
      /\ new.moved = job[p].moved /\ new.seen = "unread"
  BY <1>1 DEF Job
<1>4. job' = [job EXCEPT ![p] = new] /\ pc' = [pc EXCEPT ![p] = "persist"] /\ "persist" \in PCs
  BY DEF Link, GoTo, PCs
<1> HIDE DEF new
<1>5. /\ pc' \in [Procs -> PCs] /\ job' \in [Procs -> Job]
      /\ pc'[p] = "persist" /\ job'[p] = new /\ Quiet(p)
  BY <1>1, <1>3, <1>4, Moves
<1>6. TypeOK'
  BY <1>1, <1>2, <1>5 DEF TypeOK, Link, git, world
<1>7. Placed(p)' /\ Knows(p)'
  BY <1>1, <1>3, <1>5 DEF Placed, Knows, Certain, Completing, Gating, Gates, Past
<1>8. Commands'
  BY <1>2, <1>5, <1>7, OthersKeep DEF IInv, Link, Keeps
<1> QED BY <1>2, <1>3, <1>5, <1>6, <1>8, SameTransition DEF Link, Quiet

-----------------------------------------------------------------------------
(* The commit of the artifact, and the rest of the world *)

LEMMA FaultTyped == ASSUME TypeOK, Fault PROVE faults' \in 0 .. MaxFaults
BY CompletionConstants DEF TypeOK, Fault

\* What git gets is what is on disk.
LEMMA CommitKeeps ==
  ASSUME IInv, head' = item, UNCHANGED <<item, code, claimed, excused, faults>>,
         queued' \in BOOLEAN, Commands', TypeOK'
  PROVE  IInv'
BY DEF IInv, Stamped, Accounted, DoneIsDurable

\* A command goes on to its next step.
LEMMA StepKeeps ==
  ASSUME IInv, NEW p \in Procs, NEW step \in {"verify", "reopen"}, GoTo(p, step),
         pc[p] \in {"persist", "verify"},
         UNCHANGED <<item, git, world, job, excused>>, faults' \in 0 .. MaxFaults
  PROVE  IInv'
<1>1. TypeOK /\ Placed(p) /\ Knows(p)
  BY DEF IInv, Commands
<1>2. /\ pc' \in [Procs -> PCs] /\ job' \in [Procs -> Job]
      /\ pc'[p] = step /\ job'[p] = job[p] /\ Quiet(p)
  BY <1>1, StepTyped DEF PCs
<1>3. TypeOK'
  BY <1>1, <1>2 DEF TypeOK, git, world
<1>4. Placed(p)' /\ Knows(p)'
  BY <1>1, <1>2 DEF Placed, Knows, Certain, Completing, Gating, Gates, Past, world, Linked
<1>5. Commands'
  BY <1>2, <1>4, OthersKeep DEF IInv, Keeps
<1> QED BY <1>3, <1>5, SameItem DEF git

LEMMA PersistKeeps ==
  ASSUME IInv, NEW p \in Procs, Persist(p)
  PROVE  IInv'
<1>1. TypeOK /\ item \in Item /\ Placed(p) /\ Knows(p)
  BY DEF IInv, TypeOK, Commands
<1>2. /\ faults \in 0 .. MaxFaults /\ excused \in BOOLEAN /\ queued \in BOOLEAN
      /\ Fault => faults' \in 0 .. MaxFaults
      /\ Excuse(p) => excused' \in BOOLEAN /\ (excused => excused')
                      /\ (job[p].stamp = item.stamp => excused')
  BY <1>1, FaultTyped DEF TypeOK, Excuse
<1>3. ~Completing(p) => job[p].stamp = 0
  BY <1>1 DEF Placed
<1>4. CASE StrictCommit(p)
  <2>1. CASE Completing(p)
    <3>1. /\ pc' \in [Procs -> PCs] /\ job' \in [Procs -> Job]
          /\ pc'[p] = "verify" /\ job'[p] = job[p] /\ Quiet(p)
      BY <1>1, <1>4, <2>1, StepTyped DEF StrictCommit, PCs
    <3>2. Placed(p)' /\ Knows(p)'
      BY <1>1, <1>4, <3>1
         DEF StrictCommit, Placed, Knows, Certain, Completing, Gating, Gates, Past, world, Linked
    <3>3. Commands'
      BY <1>4, <3>1, <3>2, OthersKeep DEF IInv, StrictCommit, Keeps
    <3>4. TypeOK'
      BY <1>1, <1>4, <3>1 DEF TypeOK, StrictCommit, world
    <3> QED BY <1>2, <1>4, <3>3, <3>4, CommitKeeps DEF StrictCommit, world
  <2>2. CASE ~Completing(p)
    <3>1. /\ pc' \in [Procs -> PCs] /\ job' \in [Procs -> Job]
          /\ pc'[p] = "idle" /\ job'[p] = NoJob /\ Quiet(p)
      BY <1>1, <1>4, <2>2, FinishTyped DEF StrictCommit
    <3>2. Commands'
      BY <1>4, <3>1, IdleKnows, OthersKeep DEF IInv, StrictCommit, Keeps
    <3>3. TypeOK'
      BY <1>1, <1>4, <3>1 DEF TypeOK, StrictCommit, world
    <3> QED BY <1>2, <1>4, <3>2, <3>3, CommitKeeps DEF StrictCommit, world
  <2> QED BY <2>1, <2>2
<1>5. CASE CommitRefused(p) \/ EnqueueFails(p)
  <2>1. CASE Completing(p)
    BY <1>2, <1>5, <2>1, StepKeeps DEF CommitRefused, EnqueueFails
  <2>2. CASE ~Completing(p)
    BY <1>2, <1>3, <1>5, <2>2, EndKeeps DEF CommitRefused, EnqueueFails, git
  <2> QED BY <2>1, <2>2
<1>6. CASE CommitReadOnly(p) \/ EnqueueUnavailable(p) \/ ReopenFails(p)
  BY <1>2, <1>6, EndKeeps DEF CommitReadOnly, EnqueueUnavailable, ReopenFails, git
<1>7. CASE Verify(p)
  <2>1. CASE item = head
    BY <1>2, <1>7, <2>1, EndKeeps DEF Verify, git
  <2>2. CASE item # head
    BY <1>2, <1>7, <2>2, StepKeeps DEF Verify
  <2> QED BY <2>1, <2>2
<1>8. CASE Enqueue(p)
  BY <1>2, <1>8, EndKeeps DEF Enqueue
<1>9. CASE SkipCommit(p)
  BY <1>2, <1>9, EndKeeps DEF SkipCommit, git
<1>10. CASE Reopen(p)
  <2>1. /\ item' \in Item /\ excused' = FALSE /\ item'.status = "in-progress"
        /\ item'.notes = item.notes
    BY <1>1, <1>10, TransitionTyped DEF Reopen
  <2>2. /\ pc' \in [Procs -> PCs] /\ job' \in [Procs -> Job]
        /\ pc'[p] = "idle" /\ job'[p] = NoJob /\ Quiet(p)
    BY <1>1, <1>10, FinishTyped DEF Reopen
  <2>3. TypeOK'
    BY <1>1, <1>10, <2>1, <2>2 DEF TypeOK, Reopen, git, world
  <2>4. Commands'
    BY <1>10, <2>1, <2>2, IdleKnows, OthersKeep DEF IInv, Reopen, Keeps
  <2> QED BY <1>10, <2>1, <2>3, <2>4, NotDone DEF Reopen
<1> QED BY <1>4, <1>5, <1>6, <1>7, <1>8, <1>9, <1>10 DEF Persist

LEMMA CrashKeeps ==
  ASSUME IInv, NEW p \in Procs, Crash(p)
  PROVE  IInv'
<1>1. TypeOK /\ queued \in BOOLEAN /\ excused \in BOOLEAN
  BY DEF IInv, TypeOK
<1>2. /\ faults' \in 0 .. MaxFaults /\ excused' \in BOOLEAN /\ (excused => excused')
      /\ (job[p].stamp = item.stamp => excused')
  BY <1>1, FaultTyped DEF Crash, Excuse
<1> QED BY <1>1, <1>2, EndKeeps DEF Crash, git

LEMMA FlushKeeps ==
  ASSUME IInv, Flush
  PROVE  IInv'
<1>1. TypeOK'
  BY DEF IInv, TypeOK, Flush, world
<1>2. Commands'
  BY DEF IInv, Flush, world, Commands, Placed, Knows, Certain, Completing, Linked, Objects
<1> QED BY <1>1, <1>2, CommitKeeps DEF Flush, world, IInv, TypeOK

\* Whatever happens to the source, the completions under way are unsure of it.
LEMMA DevelopKeeps ==
  ASSUME IInv, Develop
  PROVE  IInv'
<1>1. TypeOK
  BY DEF IInv
<1>2. code' \in [linked : {"none", "branch", "merged"}, dirty : BOOLEAN]
  <2>1. /\ code \in [linked : {"none", "branch", "merged"}, dirty : BOOLEAN]
        /\ code.linked \in {"none", "branch", "merged"}
    BY <1>1 DEF TypeOK
  <2>2. CASE Edit
    BY <2>1, <2>2 DEF Edit
  <2>3. CASE CommitSource
    <3>1. PICK linked \in {"none", "branch", "merged"} :
            code' = [linked |-> linked, dirty |-> FALSE]
      BY <2>1, <2>3 DEF CommitSource
    <3> QED BY <3>1
  <2>4. CASE Merge
    BY <2>1, <2>4 DEF Merge
  <2> QED BY <2>2, <2>3, <2>4 DEF Develop
<1>3. TypeOK'
  BY <1>1, <1>2, Started DEF TypeOK, Develop, git
<1>4. ASSUME NEW q \in Procs
      PROVE  /\ pc'[q] = pc[q] /\ job'[q].cmd = job[q].cmd /\ job'[q].stamp = job[q].stamp
             /\ job'[q].moved = (job[q].moved \/ (Completing(q) /\ job[q].stamp = 0))
  <2>1. job'[q] = [job[q] EXCEPT !.moved =
                     job[q].moved \/ (Completing(q) /\ job[q].stamp = 0)]
    BY DEF Outdated, Develop
  <2>2. job[q] \in Job
    BY <1>1 DEF TypeOK
  <2> QED BY <2>1, <2>2 DEF Job, Develop
<1>5. Commands'
  BY <1>4 DEF IInv, Commands, Placed, Knows, Completing
<1> QED BY <1>3, <1>4, <1>5, SameTransition DEF Develop, IInv, TypeOK, Item

-----------------------------------------------------------------------------
(* Theorems *)

LEMMA InitInv == Init => IInv
<1> SUFFICES ASSUME Init PROVE IInv
  OBVIOUS
<1>1. 0 \in Revs /\ 0 \in 0 .. MaxFaults
  BY CompletionConstants DEF Revs
<1>2. /\ item \in Item /\ item.status # "done" /\ item.stamp = 0
  BY <1>1 DEF Init, NewItem, Item
<1>3. NoJob \in Job /\ NoJob.stamp = 0 /\ NoJob.cmd = "none"
  BY <1>1 DEF NoJob, Job, NewItem, Item
<1>4. TypeOK
  BY <1>1, <1>2, <1>3 DEF Init, TypeOK, PCs
<1>5. Commands
  BY <1>3 DEF Init, Commands, Placed, Knows, Completing, Gating, Gates
<1> QED BY <1>2, <1>4, <1>5 DEF Init, IInv, Stamped, Accounted, DoneIsDurable

LEMMA Inductive == IInv /\ [Next]_vars => IInv'
<1> SUFFICES ASSUME IInv, [Next]_vars PROVE IInv'
  OBVIOUS
<1>1. CASE UNCHANGED vars
  BY <1>1 DEF vars, git, world, IInv, TypeOK, Commands, Placed, Knows, Certain, Completing,
     Linked, Objects, Stamped, Accounted, DoneIsDurable
<1>2. ASSUME NEW p \in Procs,
             \/ BeginTransition(p) \/ WriteStart(p) \/ Relate(p) \/ WriteBlocked(p)
             \/ BeginComplete(p) \/ Gate(p)
             \/ WriteDone(p) \/ Link(p) \/ Persist(p)
             \/ BeginReset(p) \/ WriteReset(p) \/ Crash(p)
      PROVE  IInv'
  <2>1. CASE BeginTransition(p) \/ BeginComplete(p) \/ BeginReset(p)
    BY <2>1, BeginKeeps DEF BeginTransition, BeginComplete, BeginReset, PCs
  <2>2. CASE Gate(p)
    BY <2>2, GatesKeep, OverrideKeeps DEF Gate
  <2> QED BY <1>2, <2>1, <2>2, StartKeeps, RelateKeeps, BlockKeeps, DoneKeeps, LinkKeeps,
          PersistKeeps, ResetKeeps, CrashKeeps
<1> QED BY <1>1, <1>2, FlushKeeps, DevelopKeeps DEF Next

LEMMA Invariant == Spec => []IInv
BY InitInv, Inductive, PTL DEF Spec

\* A done item carries the rationale of every override its code took, on disk
\* and in git, for any number of commands that interleave with their gates.
THEOREM DoneStaysAccounted == Spec => []DoneIsAccounted
<1>1. IInv => DoneIsAccounted
  BY DEF IInv, DoneIsAccounted
<1> QED BY <1>1, Invariant, PTL

\* No item is silently done: the transition that made it done reaches git or the
\* outbox, or somebody still works on it or was told, for any number of commands,
\* failures of a commit and deaths.
THEOREM DoneStaysDurable == Spec => []DoneIsDurable
<1>1. IInv => DoneIsDurable
  BY DEF IInv
<1> QED BY <1>1, Invariant, PTL

-----------------------------------------------------------------------------
(* PlanPromotion: what its callers know, and the invariant *)

\* What one caller knows of its command.
AtWork(p) ==
  /\ proc[p].at # "idle" /\ proc[p].cmd \notin Lockless
       /\ ~(proc[p].cmd = "set-status" /\ proc[p].at \in {"read", "write", "patch"})
       => lock = p
  /\ proc[p].at = "make" => proc[p].todo # {} /\ proc[p].cmd \in Finalizers \cup {"promote"}
  /\ proc[p].at = "link" => proc[p].cmd \in Finalizers
  /\ proc[p].made # {} => p \in Loaded

\* A name of a feature is of one that was made for the slice.
NamesTrue(copy) ==
  \A s \in Slices : copy.feat[s] # 0 =>
    copy.feat[s] \in DOMAIN feature /\ feature[copy.feat[s]].slice = s

\* What a command made is what its copy names.
MadeNamed(p) ==
  \A f \in proc[p].made :
    proc[p].copy.feat[feature[f].slice] = f /\ feature[f].slice \notin proc[p].todo

\* The copy differs from the file only in what the command is about.
FeatsKept(p) ==
  p \in Loaded /\ proc[p].cmd \notin {"rewrite", "regenerate"} =>
    /\ \A s \in proc[p].todo : proc[p].copy.feat[s] = 0
    /\ ~proc[p].stale =>
         \A s \in Slices : plan.feat[s] # 0 => proc[p].copy.feat[s] = plan.feat[s]
VerdictsKept(p) ==
  p \in Loaded /\ ~upset /\ (proc[p].cmd \notin Lockless \/ ~proc[p].stale) =>
    \A s \in Slices \ Judged(proc[p]) : proc[p].copy.verdict[s] = plan.verdict[s]

\* What is to be made was approved.
Wanted(p) ==
  proc[p].at = "make" /\ proc[p].cmd # "finalize" =>
    \A s \in proc[p].todo :
      s \in Approved(proc[p].copy) \/ (proc[p].cmd = "promote" /\ s \in proc[p].copy.says)

\* The slices whose features are to wait for each other, and then do.
Batched(p) ==
  p \in Loaded =>
    /\ proc[p].cmd = "finalize" => proc[p].batch = Slices
    /\ proc[p].cmd = "finalize-yaml" =>
         \A s \in Approved(proc[p].copy) :
           s \in proc[p].batch \/ (proc[p].copy.feat[s] = 0 /\ s \notin proc[p].todo)
Wired(p) ==
  proc[p].at = "save" /\ proc[p].cmd \in Finalizers =>
    \A s \in proc[p].batch : \A d \in Deps[s] \cap proc[p].batch :
      proc[p].copy.feat[s] # 0 /\ proc[p].copy.feat[d] # 0 =>
        proc[p].copy.feat[d] \in feature[proc[p].copy.feat[s]].waits

\* A drawing that did not see the edge which the page has by now is marked.
Drawn(p) == p \in Drawing /\ page /\ ~proc[p].seen => proc[p].stale

KnowsPlan(p) ==
  /\ AtWork(p) /\ NamesTrue(proc[p].copy) /\ MadeNamed(p) /\ FeatsKept(p) /\ VerdictsKept(p)
  /\ Wanted(p) /\ Batched(p) /\ Wired(p) /\ Drawn(p)

\* The edge of a plan that is, or is about to be, made final.
Edged ==
  (sealed \/ \E p \in Callers : proc[p].at = "save" /\ proc[p].cmd \in Finalizers) =>
    page \/ torn \/ \E p \in Callers : Patching(p)
RefusedStand == ~upset => \A s \in refused : plan.verdict[s] = "rejected"

PlanInv ==
  /\ PlanTyped /\ (\A p \in Callers : KnowsPlan(p))
  /\ NamesTrue(plan) /\ FeaturesNamed /\ RefusedStand /\ Edged

-----------------------------------------------------------------------------
\* A set of numbers that is not empty has a least one.
LEMMA MinIn == ASSUME NEW S \in SUBSET Nat, S # {} PROVE Min(S) \in S
<1>1. \E x \in S : \A y \in S : <<y, x>> \notin OpToRel(<, Nat)
  BY NatLessThanWellFounded, WFMin
<1>2. \A x, y \in Nat : <<x, y>> \notin OpToRel(<, Nat) => y <= x
  <2>1. \A x, y \in Nat : <<x, y>> \in OpToRel(<, Nat) <=> x < y
    BY DEF OpToRel
  <2>2. \A x, y \in Nat : ~(x < y) => y <= x
    OBVIOUS
  <2> QED BY <2>1, <2>2, Zenon
<1>3. PICK x \in S : \A y \in S : x <= y
  BY <1>1, <1>2, Zenon
<1> QED BY <1>3 DEF Min

-----------------------------------------------------------------------------
\* What the others keep, but for the mark that they were overtaken.
Stays(r) ==
  /\ proc'[r].cmd = proc[r].cmd /\ proc'[r].at = proc[r].at /\ proc'[r].copy = proc[r].copy
  /\ proc'[r].todo = proc[r].todo /\ proc'[r].batch = proc[r].batch
  /\ proc'[r].made = proc[r].made /\ proc'[r].seen = proc[r].seen
  /\ proc[r].stale => proc'[r].stale
Others(p) == \A r \in Callers \ {p} : Stays(r)
LockMoves(p) ==
  \/ lock' = lock
  \/ lock = None /\ lock' = p
  \/ lock = p /\ lock' = None

\* The job of one caller changes.
LEMMA JobMoves ==
  ASSUME PlanTyped, NEW p \in Callers, NEW q \in Jobs, proc' = [proc EXCEPT ![p] = q]
  PROVE  proc' \in [Callers -> Jobs] /\ proc'[p] = q /\ Others(p)
BY DEF PlanTyped, Others, Stays

LEMMA CrossedFits ==
  ASSUME PlanTyped, NEW p \in Callers, NEW others, NEW bare
  PROVE  /\ Crossed(p, others, bare) \in [Callers -> Jobs]
         /\ \A r \in Callers :
              LET x == Crossed(p, others, bare)[r] IN
              /\ x.cmd = proc[r].cmd /\ x.at = proc[r].at /\ x.copy = proc[r].copy
              /\ x.todo = proc[r].todo /\ x.batch = proc[r].batch
              /\ x.made = proc[r].made /\ x.seen = proc[r].seen
              /\ x.stale <=>
                   (proc[r].stale
                    \/ (r \in others \ {p} /\ {proc[p].cmd, proc[r].cmd} \cap bare # {}))
<1> SUFFICES ASSUME NEW r \in Callers
             PROVE  LET x == Crossed(p, others, bare)[r] IN
                    /\ x \in Jobs
                    /\ x.cmd = proc[r].cmd /\ x.at = proc[r].at /\ x.copy = proc[r].copy
                    /\ x.todo = proc[r].todo /\ x.batch = proc[r].batch
                    /\ x.made = proc[r].made /\ x.seen = proc[r].seen
                    /\ x.stale <=>
                         (proc[r].stale
                          \/ (r \in others \ {p} /\ {proc[p].cmd, proc[r].cmd} \cap bare # {}))
  BY DEF Crossed
<1> DEFINE b == proc[r].stale
                \/ (r \in others \ {p} /\ {proc[p].cmd, proc[r].cmd} \cap bare # {})
<1>1. Crossed(p, others, bare)[r] = [proc[r] EXCEPT !.stale = b]
  BY DEF Crossed
<1>2. proc[r] \in Jobs /\ b \in BOOLEAN
  BY DEF PlanTyped
<1> HIDE DEF b
<1>3. [proc[r] EXCEPT !.stale = b] \in Jobs
  BY <1>2 DEF Jobs
<1>4. /\ [proc[r] EXCEPT !.stale = b].stale = b
      /\ \A x : x = [proc[r] EXCEPT !.stale = b] =>
           /\ x.cmd = proc[r].cmd /\ x.at = proc[r].at /\ x.copy = proc[r].copy
           /\ x.todo = proc[r].todo /\ x.batch = proc[r].batch
           /\ x.made = proc[r].made /\ x.seen = proc[r].seen
  BY <1>2 DEF Jobs
<1> QED BY <1>1, <1>3, <1>4 DEF b

\* Others are overtaken, and the job of one caller changes.
LEMMA CrossingMoves ==
  ASSUME PlanTyped, NEW p \in Callers, NEW others, NEW bare, NEW q \in Jobs,
         proc' = [Crossed(p, others, bare) EXCEPT ![p] = q]
  PROVE  /\ proc' \in [Callers -> Jobs] /\ proc'[p] = q /\ Others(p)
         /\ \A r \in Callers \ {p} :
              r \in others /\ {proc[p].cmd, proc[r].cmd} \cap bare # {} => proc'[r].stale
<1> DEFINE x == Crossed(p, others, bare)
<1>1. /\ x \in [Callers -> Jobs]
      /\ \A r \in Callers :
           /\ x[r].cmd = proc[r].cmd /\ x[r].at = proc[r].at /\ x[r].copy = proc[r].copy
           /\ x[r].todo = proc[r].todo /\ x[r].batch = proc[r].batch
           /\ x[r].made = proc[r].made /\ x[r].seen = proc[r].seen
           /\ x[r].stale <=>
                (proc[r].stale
                 \/ (r \in others \ {p} /\ {proc[p].cmd, proc[r].cmd} \cap bare # {}))
  BY CrossedFits
<1> HIDE DEF x
<1>2. proc' = [x EXCEPT ![p] = q]
  BY DEF x
<1>3. proc' \in [Callers -> Jobs] /\ proc'[p] = q
  BY <1>1, <1>2
<1>4. \A r \in Callers \ {p} : proc'[r] = x[r]
  BY <1>1, <1>2
<1>5. Others(p)
  BY <1>1, <1>4 DEF Others, Stays
<1> QED BY <1>1, <1>3, <1>4, <1>5

LEMMA Fresh ==
  /\ NewPlan \in Plans /\ Idle \in Jobs
  /\ Idle.at = "idle" /\ Idle.made = {} /\ Idle.copy = NewPlan
  /\ \A s \in Slices : NewPlan.feat[s] = 0
<1>1. NewPlan \in Plans
  BY DEF NewPlan, Plans, Verdicts
<1> QED BY <1>1 DEF Idle, Jobs, NewPlan

-----------------------------------------------------------------------------
(* What a command loads. *)

Begins(p) ==
  \/ \E s \in Slices : Judge(p, s) \/ Promote(p, s)
  \/ FinalizeYAML(p) \/ Finalize(p) \/ ReopenPlan(p) \/ Rewrite(p) \/ SetStatus(p) \/ Elicit(p)

\* The changed copy of the plan that a command means to save.
Intends(cmd, copy, todo, batch) ==
  /\ cmd \in PlanCommands /\ copy \in Plans /\ todo \subseteq Slices /\ batch \subseteq Slices
  /\ copy.feat = plan.feat \/ (cmd = "rewrite" /\ copy.feat = NewPlan.feat)
  /\ \A s \in Slices \ (IF cmd \in {"approve", "reject", "rewrite"} THEN batch ELSE {}) :
       copy.verdict[s] = plan.verdict[s]
  /\ todo # {} => cmd \in Finalizers \cup {"promote"}
  /\ cmd # "finalize" =>
       \A s \in todo : s \in Approved(copy) \/ (cmd = "promote" /\ s \in copy.says)
  /\ cmd # "regenerate" => \A s \in todo : copy.feat[s] = 0
  /\ cmd = "finalize" => batch = Slices
  /\ cmd = "finalize-yaml" => Approved(copy) \subseteq batch
Locking(p, cmd) == IF cmd \in Lockless THEN lock' = lock ELSE lock = None /\ lock' = p

LEMMA BeginsLoad ==
  ASSUME PlanTyped, NEW p \in Callers, Begins(p)
  PROVE  \E cmd, copy, todo, batch :
           Intends(cmd, copy, todo, batch) /\ Loads(p, cmd, copy, todo, batch) /\ Locking(p, cmd)
<1>0. plan \in Plans
  BY DEF PlanTyped
<1>1. ASSUME NEW s \in Slices, Judge(p, s)
      PROVE  \E cmd, copy, todo, batch :
               Intends(cmd, copy, todo, batch) /\ Loads(p, cmd, copy, todo, batch) /\ Locking(p, cmd)
  <2> DEFINE yes == [plan EXCEPT !.verdict[s] = "approved", !.says = @ \cup {s}]
             no == [plan EXCEPT !.verdict[s] = "rejected", !.says = @ \ {s}]
  <2>1. Takes(p) /\ (Loads(p, "approve", yes, {}, {s}) \/ Loads(p, "reject", no, {}, {s}))
    BY <1>1 DEF Judge
  <2>2. Intends("approve", yes, {}, {s})
    <3>1. yes \in Plans /\ yes.feat = plan.feat /\ \A t \in Slices \ {s} : yes.verdict[t] = plan.verdict[t]
      BY <1>0 DEF Plans, Verdicts
    <3> HIDE DEF yes
    <3> QED BY <3>1 DEF Intends, PlanCommands, Finalizers
  <2>3. Intends("reject", no, {}, {s})
    <3>1. no \in Plans /\ no.feat = plan.feat /\ \A t \in Slices \ {s} : no.verdict[t] = plan.verdict[t]
      BY <1>0 DEF Plans, Verdicts
    <3> HIDE DEF no
    <3> QED BY <3>1 DEF Intends, PlanCommands, Finalizers
  <2> HIDE DEF yes, no
  <2> QED BY <2>1, <2>2, <2>3 DEF Locking, Takes, Lockless
<1>2. ASSUME NEW s \in Slices, Promote(p, s)
      PROVE  \E cmd, copy, todo, batch :
               Intends(cmd, copy, todo, batch) /\ Loads(p, cmd, copy, todo, batch) /\ Locking(p, cmd)
  <2> DEFINE todo == {s} \cap Unmade(plan)
  <2>1. Takes(p) /\ s \in Approved(plan) \cup plan.says /\ Loads(p, "promote", plan, todo, {})
    BY <1>2 DEF Promote
  <2>2. todo \subseteq {s} /\ \A t \in todo : plan.feat[t] = 0
    BY DEF Unmade
  <2> HIDE DEF todo
  <2>3. Intends("promote", plan, todo, {})
    BY <1>0, <2>1, <2>2 DEF Intends, PlanCommands, Finalizers
  <2> QED BY <2>1, <2>3 DEF Locking, Takes, Lockless
<1>3. CASE FinalizeYAML(p)
  <2> DEFINE copy == [plan EXCEPT !.final = FALSE, !.track = TRUE]
             yes == Approved(plan)
             todo == yes \cap Unmade(plan)
  <2>1. Takes(p) /\ (Loads(p, "finalize-yaml", copy, todo, yes) \/ Loads(p, "regenerate", copy, yes, yes))
    BY <1>3 DEF FinalizeYAML
  <2>2. /\ copy \in Plans /\ copy.feat = plan.feat /\ copy.verdict = plan.verdict
        /\ copy.says = plan.says
    BY <1>0 DEF Plans
  <2>3. Approved(copy) = yes /\ yes \subseteq Slices /\ \A t \in todo : plan.feat[t] = 0
    BY <2>2 DEF Approved, Unmade
  <2>4. todo \subseteq yes
    OBVIOUS
  <2> HIDE DEF copy, yes, todo
  <2>5. Intends("finalize-yaml", copy, todo, yes)
    BY <2>2, <2>3, <2>4 DEF Intends, PlanCommands, Finalizers
  <2>6. Intends("regenerate", copy, yes, yes)
    BY <2>2, <2>3 DEF Intends, PlanCommands, Finalizers
  <2> QED BY <2>1, <2>5, <2>6 DEF Locking, Takes, Lockless
<1>4. CASE Finalize(p)
  <2>1. Loads(p, "finalize", plan, Unmade(plan), Slices) /\ lock' = lock
    BY <1>4 DEF Finalize
  <2>2. Unmade(plan) \subseteq Slices /\ \A t \in Unmade(plan) : plan.feat[t] = 0
    BY DEF Unmade
  <2>3. Intends("finalize", plan, Unmade(plan), Slices)
    BY <1>0, <2>2 DEF Intends, PlanCommands, Finalizers
  <2> QED BY <2>1, <2>3 DEF Locking, Lockless
<1>5. CASE ReopenPlan(p)
  <2> DEFINE copy == [plan EXCEPT !.final = FALSE]
  <2>1. Takes(p) /\ Loads(p, "reopen", copy, {}, {})
    BY <1>5 DEF ReopenPlan
  <2>2. copy \in Plans /\ copy.feat = plan.feat /\ copy.verdict = plan.verdict
    BY <1>0 DEF Plans
  <2> HIDE DEF copy
  <2>3. Intends("reopen", copy, {}, {})
    BY <2>2 DEF Intends, PlanCommands, Finalizers
  <2> QED BY <2>1, <2>3 DEF Locking, Takes, Lockless
<1>6. CASE Rewrite(p)
  <2>1. PICK final \in BOOLEAN, feat \in {plan.feat, NewPlan.feat}, says \in {plan.says, Slices} :
          LET copy == [plan EXCEPT !.final = final, !.feat = feat, !.says = says] IN
          /\ Takes(p)
          /\ \/ Loads(p, "rewrite", copy, {}, {})
             \/ \E verdict \in Drafts :
                  Loads(p, "rewrite", [copy EXCEPT !.verdict = verdict], {}, Slices)
    BY <1>6 DEF Rewrite
  <2> DEFINE copy == [plan EXCEPT !.final = final, !.feat = feat, !.says = says]
  <2>2. feat \in [Slices -> Nat] /\ says \subseteq Slices
    BY <1>0, Fresh DEF Plans
  <2>3. copy \in Plans /\ copy.feat = feat /\ copy.verdict = plan.verdict
    BY <1>0, <2>2 DEF Plans
  <2>4. /\ Takes(p)
        /\ \/ Loads(p, "rewrite", copy, {}, {})
           \/ \E verdict \in Drafts :
                Loads(p, "rewrite", [copy EXCEPT !.verdict = verdict], {}, Slices)
    BY <2>1
  <2> HIDE DEF copy
  <2>5. CASE Loads(p, "rewrite", copy, {}, {})
    <3>1. Intends("rewrite", copy, {}, {})
      BY <2>1, <2>3 DEF Intends, PlanCommands, Finalizers
    <3> QED BY <2>4, <2>5, <3>1 DEF Locking, Takes, Lockless
  <2>6. CASE \E verdict \in Drafts :
               Loads(p, "rewrite", [copy EXCEPT !.verdict = verdict], {}, Slices)
    <3>1. PICK verdict \in Drafts :
            Loads(p, "rewrite", [copy EXCEPT !.verdict = verdict], {}, Slices)
      BY <2>6
    <3> DEFINE own == [copy EXCEPT !.verdict = verdict]
    <3>2. own \in Plans /\ own.feat = feat
      BY <2>3, PlanConstants DEF Plans, Verdicts
    <3>3. Loads(p, "rewrite", own, {}, Slices)
      BY <3>1
    <3> HIDE DEF own
    <3>4. Intends("rewrite", own, {}, Slices)
      BY <2>1, <3>2 DEF Intends, PlanCommands, Finalizers
    <3> QED BY <2>4, <3>3, <3>4 DEF Locking, Takes, Lockless
  <2> QED BY <2>4, <2>5, <2>6
<1>7. CASE SetStatus(p)
  <2>1. PICK final \in BOOLEAN : Takes(p) /\ Loads(p, "set-status", [plan EXCEPT !.final = final], {}, {})
    BY <1>7 DEF SetStatus
  <2> DEFINE copy == [plan EXCEPT !.final = final]
  <2>2. copy \in Plans /\ copy.feat = plan.feat /\ copy.verdict = plan.verdict
    BY <1>0 DEF Plans
  <2>3. Loads(p, "set-status", copy, {}, {})
    BY <2>1
  <2> HIDE DEF copy
  <2>4. Intends("set-status", copy, {}, {})
    BY <2>2 DEF Intends, PlanCommands, Finalizers
  <2> QED BY <2>1, <2>3, <2>4 DEF Locking, Takes, Lockless
<1>8. CASE Elicit(p)
  <2>1. Loads(p, "elicit", plan, {}, {}) /\ lock' = lock
    BY <1>8 DEF Elicit
  <2>2. Intends("elicit", plan, {}, {})
    BY <1>0 DEF Intends, PlanCommands, Finalizers
  <2> QED BY <2>1, <2>2 DEF Locking, Lockless
<1> QED BY <1>1, <1>2, <1>3, <1>4, <1>5, <1>6, <1>7, <1>8 DEF Begins

\* The job of a command that has loaded the plan.
LEMMA LoadsMove ==
  ASSUME PlanTyped, NEW p \in Callers, NEW cmd, NEW copy, NEW todo, NEW batch,
         Intends(cmd, copy, todo, batch), Loads(p, cmd, copy, todo, batch)
  PROVE  /\ proc' \in [Callers -> Jobs] /\ Others(p) /\ proc[p].at = "idle"
         /\ proc'[p].cmd = cmd /\ proc'[p].at = NextStep(cmd, todo) /\ proc'[p].copy = copy
         /\ proc'[p].todo = todo /\ proc'[p].batch = batch /\ proc'[p].made = {}
         /\ proc'[p].stale = FALSE
<1> DEFINE q == [Idle EXCEPT !.cmd = cmd, !.at = NextStep(cmd, todo), !.copy = copy,
                             !.todo = todo, !.batch = batch]
<1>1. NextStep(cmd, todo) \in {"make", "link", "save"}
  BY DEF NextStep
<1>2. /\ q \in Jobs
      /\ q.cmd = cmd /\ q.at = NextStep(cmd, todo) /\ q.copy = copy /\ q.todo = todo
      /\ q.batch = batch /\ q.made = {} /\ q.stale = FALSE
  BY <1>1, Fresh DEF Intends, Idle, Jobs
<1>3. proc' = [proc EXCEPT ![p] = q] /\ proc[p].at = "idle"
  BY DEF Loads
<1> HIDE DEF q
<1> QED BY <1>2, <1>3, JobMoves

-----------------------------------------------------------------------------
(* What the other callers keep knowing. *)

Grown ==
  /\ DOMAIN feature \subseteq DOMAIN feature'
  /\ \A f \in DOMAIN feature : /\ feature'[f].slice = feature[f].slice
                               /\ feature[f].waits \subseteq feature'[f].waits

\* What does not depend on the plan.
KnowsOwn(p) ==
  /\ AtWork(p) /\ NamesTrue(proc[p].copy) /\ MadeNamed(p) /\ Wanted(p) /\ Batched(p) /\ Wired(p)

LEMMA FeaturesStay ==
  ASSUME PlanTyped, Grown, NEW copy, NamesTrue(copy)
  PROVE  NamesTrue(copy)'
BY DEF NamesTrue, Grown

LEMMA OthersKnowOwn ==
  ASSUME PlanTyped, NEW p \in Callers, NEW r \in Callers \ {p}, KnowsPlan(r),
         Others(p), LockMoves(p), Grown
  PROVE  KnowsOwn(r)'
<1>0. Stays(r)
  BY DEF Others
<1>1. AtWork(r)'
  BY <1>0, PlanConstants DEF KnowsPlan, AtWork, LockMoves, Stays, Loaded
<1>2. NamesTrue(proc[r].copy)'
  BY <1>0 DEF KnowsPlan, NamesTrue, Grown, Stays
<1>3. MadeNamed(r)'
  <2>1. \A f \in proc[r].made : f \in DOMAIN feature
    BY DEF PlanTyped
  <2> QED BY <1>0, <2>1 DEF KnowsPlan, MadeNamed, Grown, Stays
<1>4. Wanted(r)' /\ Batched(r)'
  BY <1>0 DEF KnowsPlan, Wanted, Batched, Stays, Loaded, Approved
<1>5. Wired(r)'
  <2> SUFFICES ASSUME proc[r].at = "save", proc[r].cmd \in Finalizers,
                      NEW s \in proc[r].batch, NEW d \in Deps[s] \cap proc[r].batch,
                      proc[r].copy.feat[s] # 0, proc[r].copy.feat[d] # 0
               PROVE  proc[r].copy.feat[d] \in feature'[proc[r].copy.feat[s]].waits
    BY <1>0 DEF Wired, Stays
  <2>1. s \in Slices
    BY DEF PlanTyped, Jobs
  <2>2. proc[r].copy.feat[s] \in DOMAIN feature
    BY <2>1 DEF KnowsPlan, NamesTrue
  <2>3. proc[r].copy.feat[d] \in feature[proc[r].copy.feat[s]].waits
    BY DEF KnowsPlan, Wired
  <2> QED BY <2>2, <2>3 DEF Grown
<1> QED BY <1>1, <1>2, <1>3, <1>4, <1>5 DEF KnowsOwn

LEMMA OthersKnowPlan ==
  ASSUME PlanTyped, NEW p \in Callers, NEW r \in Callers \ {p}, KnowsPlan(r),
         Others(p), UNCHANGED <<plan, upset>>
  PROVE  FeatsKept(r)' /\ VerdictsKept(r)'
<1>0. Stays(r) /\ (r \in Loaded' <=> r \in Loaded)
  BY DEF Others, Stays, Loaded
<1>1. FeatsKept(r)'
  BY <1>0 DEF KnowsPlan, FeatsKept, Stays
<1>2. Judged(proc'[r]) = Judged(proc[r])
  BY <1>0 DEF Judged, Stays
<1>3. VerdictsKept(r)'
  BY <1>0, <1>2 DEF KnowsPlan, VerdictsKept, Stays
<1> QED BY <1>1, <1>3

LEMMA OthersDraw ==
  ASSUME NEW p \in Callers, NEW r \in Callers \ {p}, KnowsPlan(r), Others(p), page' = page
  PROVE  Drawn(r)'
BY DEF KnowsPlan, Others, Stays, Drawn, Drawing

\* A step that changes the plan in no file leaves what the others know.
LEMMA OthersKnow ==
  ASSUME PlanTyped, NEW p \in Callers, \A r \in Callers : KnowsPlan(r), KnowsPlan(p)',
         Others(p), LockMoves(p), Grown, UNCHANGED <<plan, upset>>,
         \A r \in Callers \ {p} : Drawn(r)'
  PROVE  \A r \in Callers : KnowsPlan(r)'
<1> SUFFICES ASSUME NEW r \in Callers \ {p} PROVE KnowsPlan(r)'
  OBVIOUS
<1> QED BY OthersKnowOwn, OthersKnowPlan DEF KnowsPlan, KnowsOwn

\* Who holds the lock is alone with it: of two that work at the same time, one
\* takes no lock.
LEMMA OneLocks ==
  ASSUME NEW p \in Callers, NEW r \in Callers \ {p}, AtWork(p), AtWork(r),
         proc[p].at # "idle", proc[r].at # "idle"
  PROVE  /\ p \in Loaded /\ r \in Loaded =>
              proc[p].cmd \in Lockless \/ proc[r].cmd \in Lockless
         /\ {proc[p].cmd, proc[r].cmd} \cap Bare # {}
BY DEF AtWork, Loaded, Lockless, Bare

\* A caller that does nothing knows all there is to know.
LEMMA IdleKnowsPlan ==
  ASSUME PlanTyped, NEW p \in Callers, proc'[p] = Idle, LockMoves(p)
  PROVE  KnowsPlan(p)'
<1>1. proc'[p].at = "idle" /\ proc'[p].made = {} /\ proc'[p].copy = NewPlan
  BY Fresh
<1>2. \A s \in Slices : NewPlan.feat[s] = 0
  BY Fresh
<1> QED BY <1>1, <1>2 DEF KnowsPlan, AtWork, NamesTrue, MadeNamed, FeatsKept, VerdictsKept, Wanted,
           Batched, Wired, Drawn, Loaded, Drawing

LEMMA LoadsKnow ==
  ASSUME PlanInv, NEW p \in Callers, NEW cmd, NEW copy, NEW todo, NEW batch,
         Intends(cmd, copy, todo, batch), Loads(p, cmd, copy, todo, batch), Locking(p, cmd)
  PROVE  KnowsPlan(p)'
<1>0. /\ proc'[p].cmd = cmd /\ proc'[p].at = NextStep(cmd, todo) /\ proc'[p].copy = copy
      /\ proc'[p].todo = todo /\ proc'[p].batch = batch /\ proc'[p].made = {}
      /\ proc'[p].stale = FALSE
      /\ UNCHANGED <<plan, feature, upset, page>>
  <2>1. PlanTyped
    BY DEF PlanInv
  <2>2. UNCHANGED <<plan, feature, upset, page>>
    BY DEF Loads, files, history
  <2> QED BY <2>1, <2>2, LoadsMove
<1>1. /\ NextStep(cmd, todo) \in {"make", "link", "save"}
      /\ NextStep(cmd, todo) = "make" <=> todo # {}
      /\ NextStep(cmd, todo) = "link" => cmd \in Finalizers
      /\ NextStep(cmd, todo) = "save" => cmd \notin Finalizers
  BY DEF NextStep
<1>2. AtWork(p)'
  BY <1>0, <1>1 DEF AtWork, Locking, Intends
<1>3. NamesTrue(proc[p].copy)'
  <2>1. copy.feat = plan.feat \/ \A s \in Slices : copy.feat[s] = 0
    BY Fresh DEF Intends
  <2> QED BY <1>0, <2>1 DEF NamesTrue, PlanInv
<1>4. MadeNamed(p)'
  BY <1>0 DEF MadeNamed
<1>5. FeatsKept(p)'
  BY <1>0 DEF FeatsKept, Intends
<1>6. VerdictsKept(p)'
  BY <1>0 DEF VerdictsKept, Judged, Intends
<1>7. Wanted(p)'
  BY <1>0 DEF Wanted, Intends, Approved
<1>8. Batched(p)'
  BY <1>0 DEF Batched, Intends, Approved
<1>9. Wired(p)' /\ Drawn(p)'
  BY <1>0, <1>1 DEF Wired, Drawn, Drawing
<1> QED BY <1>2, <1>3, <1>4, <1>5, <1>6, <1>7, <1>8, <1>9 DEF KnowsPlan

-----------------------------------------------------------------------------
(* What every step keeps of the features and of the edge. *)

LEMMA NamesStay ==
  ASSUME PlanTyped, NEW p \in Callers, FeaturesNamed, Others(p), Grown, UNCHANGED <<plan, upset>>,
         lost \subseteq lost',
         p \in Loaded =>
           proc[p].made \subseteq lost' \/ (p \in Loaded' /\ proc[p].made \subseteq proc'[p].made),
         \A f \in DOMAIN feature' \ DOMAIN feature : p \in Loaded' /\ f \in proc'[p].made
  PROVE  FeaturesNamed'
<1> SUFFICES ASSUME NEW f \in DOMAIN feature, f \notin lost', ~upset,
                    plan.feat[feature[f].slice] # f
             PROVE  \E r \in Loaded' : f \in proc'[r].made
  BY DEF FeaturesNamed, Grown
<1>1. PICK r \in Loaded : f \in proc[r].made
  BY DEF FeaturesNamed
<1>2. CASE r = p
  BY <1>1, <1>2
<1>3. CASE r # p
  BY <1>1, <1>3 DEF Others, Stays, Loaded
<1> QED BY <1>2, <1>3

LEMMA EdgeStays ==
  ASSUME NEW p \in Callers, Edged, Others(p),
         page \/ torn \/ Patching(p) => page' \/ torn' \/ Patching(p)',
         torn => torn',
         sealed' => sealed \/ (proc[p].at = "save" /\ proc[p].cmd \in Finalizers),
         proc'[p].at = "save" /\ proc'[p].cmd \in Finalizers =>
           page' \/ (proc[p].at = "save" /\ proc[p].cmd \in Finalizers)
  PROVE  Edged'
<1>1. ASSUME NEW r \in Callers, r # p
      PROVE  /\ proc'[r].at = proc[r].at /\ proc'[r].cmd = proc[r].cmd
             /\ Patching(r)' <=> Patching(r)
  BY <1>1 DEF Others, Stays, Patching
<1> SUFFICES ASSUME ~page', ~torn', \A r \in Callers : ~Patching(r)',
                    sealed' \/ \E r \in Callers : proc'[r].at = "save" /\ proc'[r].cmd \in Finalizers
             PROVE  FALSE
  BY DEF Edged
<1>2. sealed \/ \E r \in Callers : proc[r].at = "save" /\ proc[r].cmd \in Finalizers
  BY <1>1
<1>3. page \/ torn \/ \E r \in Callers : Patching(r)
  BY <1>2 DEF Edged
<1> QED BY <1>1, <1>3

\* A command is given.
LEMMA PlanBeginKeeps ==
  ASSUME PlanInv, NEW p \in Callers, Begins(p)
  PROVE  PlanInv'
<1>0. PlanTyped /\ \A r \in Callers : KnowsPlan(r)
  BY DEF PlanInv
<1>1. PICK cmd, copy, todo, batch :
        Intends(cmd, copy, todo, batch) /\ Loads(p, cmd, copy, todo, batch) /\ Locking(p, cmd)
  BY <1>0, BeginsLoad
<1>2. /\ proc' \in [Callers -> Jobs] /\ Others(p) /\ proc[p].at = "idle"
      /\ proc'[p].cmd = cmd /\ proc'[p].at = NextStep(cmd, todo) /\ proc'[p].made = {}
      /\ cmd \in PlanCommands
  <2>1. cmd \in PlanCommands
    BY <1>1 DEF Intends
  <2> QED BY <1>0, <1>1, <2>1, LoadsMove
<1>3. UNCHANGED <<files, history, failures>> /\ calls < MaxCalls /\ calls' = calls + 1
  BY <1>1 DEF Loads
<1>4. UNCHANGED <<plan, page, feature, refused, lost, sealed, upset, torn>>
  BY <1>3 DEF files, history
<1>5. /\ NextStep(cmd, todo) \in {"make", "link", "save"}
      /\ NextStep(cmd, todo) = "save" => cmd \notin Finalizers
  BY DEF NextStep
<1>6. LockMoves(p)
  BY <1>1 DEF Locking, LockMoves
<1>7. PlanTyped'
  <2>1. \A r \in Callers : proc'[r].made \subseteq DOMAIN feature'
    BY <1>0, <1>2, <1>4 DEF PlanTyped, Others, Stays
  <2>2. \A r \in Callers : lock' = r => proc'[r].at # "idle" /\ proc'[r].cmd \notin Lockless
    <3>1. ASSUME NEW r \in Callers, r # p, lock' = r
          PROVE  proc'[r].at # "idle" /\ proc'[r].cmd \notin Lockless
      BY <1>0, <1>2, <1>6, <3>1 DEF PlanTyped, Others, Stays, LockMoves
    <3>2. ASSUME lock' = p PROVE cmd \notin Lockless
      BY <1>0, <1>1, <1>2, <3>2 DEF PlanTyped, Locking, Lockless
    <3> QED BY <1>2, <1>5, <3>1, <3>2
  <2>3. lock' \in Callers \cup {None} /\ calls' \in 0 .. MaxCalls
    BY <1>0, <1>3, <1>6, PlanConstants DEF PlanTyped, LockMoves
  <2> QED BY <1>0, <1>2, <1>3, <1>4, <2>1, <2>2, <2>3 DEF PlanTyped
<1>8. Grown /\ \A r \in Callers \ {p} : Drawn(r)'
  BY <1>0, <1>2, <1>4, OthersDraw DEF Grown
<1>9. \A r \in Callers : KnowsPlan(r)'
  <2>1. KnowsPlan(p)'
    BY <1>1, LoadsKnow
  <2> QED BY <1>0, <1>2, <1>4, <1>6, <1>8, <2>1, OthersKnow
<1>10. NamesTrue(plan)' /\ RefusedStand'
  BY <1>4 DEF PlanInv, NamesTrue, RefusedStand
<1>11. FeaturesNamed'
  BY <1>0, <1>2, <1>4, <1>8, NamesStay DEF PlanInv, Loaded
<1>12. Edged'
  BY <1>2, <1>4, <1>5, EdgeStays DEF PlanInv, Patching
<1> QED BY <1>7, <1>9, <1>10, <1>11, <1>12 DEF PlanInv

-----------------------------------------------------------------------------
(* Features are made. *)

LEMMA Appended ==
  ASSUME PlanTyped, NEW s \in Slices, NEW waits \in SUBSET (DOMAIN feature),
         feature' = Append(feature, [slice |-> s, waits |-> waits])
  PROVE  /\ feature' \in Seq([slice : Slices, waits : SUBSET Nat])
         /\ DOMAIN feature' = DOMAIN feature \cup {Len(feature) + 1} /\ Grown
         /\ Len(feature) + 1 \in Nat \ {0} /\ Len(feature) + 1 \notin DOMAIN feature
         /\ feature'[Len(feature) + 1].slice = s /\ feature'[Len(feature')].slice = s
         /\ \A f \in DOMAIN feature' : feature'[f].waits \subseteq DOMAIN feature'
<1> DEFINE F == [slice : Slices, waits : SUBSET Nat]
           x == [slice |-> s, waits |-> waits]
<1>1. feature \in Seq(F) /\ Len(feature) \in Nat /\ DOMAIN feature = 1 .. Len(feature)
  BY DEF PlanTyped
<1>2. x \in F /\ x.slice = s /\ x.waits = waits
  BY <1>1
<1> HIDE DEF F, x
<1>3. feature' = Append(feature, x)
  BY DEF x
<1>4. /\ feature' \in Seq(F) /\ Len(feature') = Len(feature) + 1
      /\ DOMAIN feature' = 1 .. Len(feature) + 1 /\ feature'[Len(feature) + 1] = x
      /\ \A f \in DOMAIN feature : feature'[f] = feature[f]
  BY <1>1, <1>2, <1>3
<1>5. DOMAIN feature' = DOMAIN feature \cup {Len(feature) + 1} /\ Len(feature) + 1 \notin DOMAIN feature
  BY <1>1, <1>4
<1>6. Grown
  BY <1>4, <1>5 DEF Grown
<1>7. \A f \in DOMAIN feature' : feature'[f].waits \subseteq DOMAIN feature'
  BY <1>2, <1>4, <1>5 DEF PlanTyped
<1> QED BY <1>1, <1>2, <1>4, <1>5, <1>6, <1>7 DEF F

\* What Make does to its job and to the features.
LEMMA MakeMoves ==
  ASSUME PlanTyped, NEW p \in Callers, KnowsPlan(p), Make(p)
  PROVE  LET s == Min(proc[p].todo)  f == Len(feature) + 1  todo == proc[p].todo \ {s} IN
         /\ s \in proc[p].todo /\ s \in Slices /\ proc[p].at = "make" /\ p \in Loaded
         /\ proc' \in [Callers -> Jobs] /\ Others(p)
         /\ proc'[p].cmd = proc[p].cmd /\ proc'[p].at = NextStep(proc[p].cmd, todo)
         /\ proc'[p].copy \in Plans
         /\ proc'[p].copy.verdict = proc[p].copy.verdict /\ proc'[p].copy.says = proc[p].copy.says
         /\ proc'[p].copy.feat[s] = f
         /\ \A t \in Slices \ {s} : proc'[p].copy.feat[t] = proc[p].copy.feat[t]
         /\ proc'[p].todo = todo /\ proc'[p].batch = proc[p].batch
         /\ proc'[p].made = proc[p].made \cup {f} /\ proc'[p].stale = proc[p].stale
         /\ \E waits \in SUBSET (DOMAIN feature) :
              feature' = Append(feature, [slice |-> s, waits |-> waits])
<1> DEFINE q == proc[p]  s == Min(q.todo)  f == Len(feature) + 1  todo == q.todo \ {s}
           at == NextStep(q.cmd, todo)
           waits == IF q.cmd = "promote" THEN Named(q.copy, Deps[s]) ELSE {}
           new == [q EXCEPT !.copy.feat[s] = f, !.made = @ \cup {f}, !.todo = todo, !.at = at]
<1>0. q \in Jobs /\ q.todo \subseteq Slices /\ q.at = "make" /\ q.todo # {} /\ NamesTrue(q.copy)
  BY DEF PlanTyped, Jobs, Make, KnowsPlan, AtWork
<1>1. s \in q.todo /\ s \in Slices
  BY <1>0, MinIn, PlanConstants
<1>2. at \in {"make", "link", "save"}
  BY DEF NextStep
<1>3. f \in Nat
  BY DEF PlanTyped
<1>4. waits \subseteq DOMAIN feature
  <2>1. Deps[s] \subseteq Slices
    BY <1>1, PlanConstants
  <2> HIDE DEF q, s
  <2> QED BY <1>0, <2>1 DEF Named, NamesTrue
<1>5. feature' = Append(feature, [slice |-> s, waits |-> waits])
  BY DEF Make
<1> HIDE DEF s, f, at
<1>6. proc' = [proc EXCEPT ![p] = new]
  BY DEF Make, PlanTyped, s, f, at
<1>7. /\ new \in Jobs /\ new.cmd = q.cmd /\ new.at = at
      /\ new.copy = [q.copy EXCEPT !.feat[s] = f]
      /\ new.todo = todo /\ new.batch = q.batch /\ new.made = q.made \cup {f} /\ new.stale = q.stale
  <2>1. [q.copy EXCEPT !.feat[s] = f] \in Plans
    BY <1>0, <1>1, <1>3 DEF Jobs, Plans
  <2> QED BY <1>0, <1>2, <1>3, <2>1 DEF Jobs
<1>8. LET c == [q.copy EXCEPT !.feat[s] = f] IN
        /\ c \in Plans /\ c.verdict = q.copy.verdict /\ c.says = q.copy.says /\ c.feat[s] = f
        /\ \A t \in Slices \ {s} : c.feat[t] = q.copy.feat[t]
  BY <1>0, <1>1, <1>3 DEF Jobs, Plans
<1> HIDE DEF new
<1>9. proc' \in [Callers -> Jobs] /\ proc'[p] = new /\ Others(p)
  BY <1>6, <1>7, JobMoves
<1> QED BY <1>0, <1>1, <1>4, <1>5, <1>7, <1>8, <1>9 DEF s, f, at, Loaded

LEMMA FeaturesFit ==
  ASSUME PlanTyped, NEW f \in DOMAIN feature
  PROVE  f \in Nat \ {0} /\ feature[f].slice \in Slices /\ feature[f].waits \in SUBSET (DOMAIN feature)
         /\ feature[f] \in [slice : Slices, waits : SUBSET Nat]
<1> DEFINE F == [slice : Slices, waits : SUBSET Nat]
<1>1. feature \in Seq(F)
  BY DEF PlanTyped
<1> HIDE DEF F
<1>2. f \in 1 .. Len(feature) /\ Len(feature) \in Nat /\ feature[f] \in F
  BY <1>1
<1>3. feature[f].slice \in Slices
  BY <1>2 DEF F
<1> QED BY <1>2, <1>3 DEF PlanTyped, F

LEMMA MakeKnows ==
  ASSUME PlanTyped, NEW p \in Callers, KnowsPlan(p), Make(p)
  PROVE  KnowsPlan(p)'
<1> DEFINE s == Min(proc[p].todo)  f == Len(feature) + 1  cmd == proc[p].cmd
           todo == proc[p].todo \ {s}
<1>0. /\ s \in proc[p].todo /\ s \in Slices /\ proc[p].at = "make" /\ p \in Loaded
      /\ proc'[p].cmd = cmd /\ proc'[p].at = NextStep(cmd, todo)
      /\ proc'[p].copy.verdict = proc[p].copy.verdict /\ proc'[p].copy.says = proc[p].copy.says
      /\ proc'[p].copy.feat[s] = f
      /\ \A t \in Slices \ {s} : proc'[p].copy.feat[t] = proc[p].copy.feat[t]
      /\ proc'[p].todo = todo /\ proc'[p].batch = proc[p].batch
      /\ proc'[p].made = proc[p].made \cup {f} /\ proc'[p].stale = proc[p].stale
  BY MakeMoves
<1>1. /\ Grown /\ f \in DOMAIN feature' /\ feature'[f].slice = s
      /\ DOMAIN feature' = DOMAIN feature \cup {f}
  BY MakeMoves, Appended
<1> HIDE DEF s, f, cmd, todo
<1>2. UNCHANGED <<plan, page, lock, upset>>
  BY DEF Make, history
<1>3. /\ NextStep(cmd, todo) \in {"make", "link", "save"}
      /\ NextStep(cmd, todo) = "make" <=> todo # {}
      /\ NextStep(cmd, todo) = "link" => cmd \in Finalizers
      /\ NextStep(cmd, todo) = "save" => cmd \notin Finalizers
  BY DEF NextStep
<1>4. AtWork(p)'
  BY <1>0, <1>2, <1>3 DEF KnowsPlan, AtWork, Loaded, cmd
<1>5. NamesTrue(proc[p].copy)'
  <2> SUFFICES ASSUME NEW t \in Slices, proc'[p].copy.feat[t] # 0
               PROVE  /\ proc'[p].copy.feat[t] \in DOMAIN feature'
                      /\ feature'[proc'[p].copy.feat[t]].slice = t
    BY DEF NamesTrue
  <2>1. CASE t = s
    BY <1>0, <1>1, <2>1
  <2>2. CASE t # s
    BY <1>0, <1>1, <2>2 DEF KnowsPlan, NamesTrue, Grown
  <2> QED BY <2>1, <2>2
<1>6. MadeNamed(p)'
  <2> SUFFICES ASSUME NEW g \in proc'[p].made
               PROVE  /\ proc'[p].copy.feat[feature'[g].slice] = g
                      /\ feature'[g].slice \notin proc'[p].todo
    BY DEF MadeNamed
  <2>1. CASE g = f
    BY <1>0, <1>1, <2>1 DEF todo
  <2>2. CASE g # f
    <3>0. g \in proc[p].made
      BY <1>0, <2>2
    <3>1. g \in DOMAIN feature /\ feature'[g].slice = feature[g].slice
      BY <1>1, <3>0 DEF PlanTyped, Grown
    <3>2. proc[p].copy.feat[feature[g].slice] = g /\ feature[g].slice \notin proc[p].todo
      BY <3>0 DEF KnowsPlan, MadeNamed
    <3>3. feature[g].slice \in Slices
      BY <3>1, FeaturesFit
    <3> QED BY <1>0, <3>1, <3>2, <3>3 DEF todo
  <2> QED BY <2>1, <2>2
<1>7. FeatsKept(p)'
  <2>1. proc[p].todo \subseteq Slices
    BY DEF PlanTyped, Jobs
  <2> QED BY <1>0, <1>2, <2>1 DEF KnowsPlan, FeatsKept, todo, cmd
<1>8. VerdictsKept(p)'
  <2>1. Judged(proc'[p]) = Judged(proc[p])
    BY <1>0 DEF Judged, cmd
  <2> QED BY <1>0, <1>2, <2>1 DEF KnowsPlan, VerdictsKept, cmd
<1>9. Approved(proc'[p].copy) = Approved(proc[p].copy)
  BY <1>0 DEF Approved
<1>10. Wanted(p)'
  BY <1>0, <1>9 DEF KnowsPlan, Wanted, todo, cmd
<1>11. Batched(p)'
  <2>1. Approved(proc[p].copy) \subseteq Slices
    BY DEF Approved
  <2> QED BY <1>0, <1>9, <2>1 DEF KnowsPlan, Batched, todo, cmd
<1>12. Wired(p)' /\ Drawn(p)'
  BY <1>0, <1>3 DEF Wired, Drawn, Drawing
<1> QED BY <1>4, <1>5, <1>6, <1>7, <1>8, <1>10, <1>11, <1>12 DEF KnowsPlan

LEMMA MakeKeeps ==
  ASSUME PlanInv, NEW p \in Callers, Make(p)
  PROVE  PlanInv'
<1> DEFINE f == Len(feature) + 1
<1>0. PlanTyped /\ (\A r \in Callers : KnowsPlan(r)) /\ NamesTrue(plan) /\ Edged
  BY DEF PlanInv
<1>1. /\ proc[p].at = "make" /\ p \in Loaded /\ proc' \in [Callers -> Jobs] /\ Others(p)
      /\ proc'[p].cmd = proc[p].cmd
      /\ proc'[p].at = NextStep(proc[p].cmd, proc[p].todo \ {Min(proc[p].todo)})
      /\ proc'[p].made = proc[p].made \cup {f}
  BY <1>0, MakeMoves
<1>2. /\ feature' \in Seq([slice : Slices, waits : SUBSET Nat]) /\ Grown
      /\ DOMAIN feature' = DOMAIN feature \cup {f}
      /\ \A g \in DOMAIN feature' : feature'[g].waits \subseteq DOMAIN feature'
  BY <1>0, MakeMoves, Appended
<1> HIDE DEF f
<1>3. proc'[p].at \in {"make", "link", "save"} /\ (proc'[p].at = "save" => proc'[p].cmd \notin Finalizers)
  BY <1>1 DEF NextStep
<1>4. UNCHANGED <<plan, page, lock, refused, lost, sealed, upset, torn, calls, failures>>
  BY DEF Make, history, counts
<1>5. PlanTyped'
  <2>1. \A r \in Callers : proc'[r].made \subseteq DOMAIN feature'
    BY <1>0, <1>1, <1>2 DEF PlanTyped, Others, Stays
  <2>2. \A r \in Callers : lock' = r => proc'[r].at # "idle" /\ proc'[r].cmd \notin Lockless
    BY <1>0, <1>1, <1>3, <1>4 DEF PlanTyped, Others, Stays
  <2>3. lost' \subseteq DOMAIN feature'
    BY <1>0, <1>2, <1>4 DEF PlanTyped
  <2> QED BY <1>0, <1>1, <1>2, <1>4, <2>1, <2>2, <2>3 DEF PlanTyped
<1>6. \A r \in Callers : KnowsPlan(r)'
  <2>1. KnowsPlan(p)'
    BY <1>0, MakeKnows
  <2>2. LockMoves(p) /\ \A r \in Callers \ {p} : Drawn(r)'
    BY <1>0, <1>1, <1>4, OthersDraw DEF LockMoves
  <2> QED BY <1>0, <1>1, <1>2, <1>4, <2>1, <2>2, OthersKnow
<1>7. NamesTrue(plan)'
  BY <1>0, <1>2, <1>4 DEF NamesTrue, Grown
<1>8. RefusedStand'
  BY <1>4 DEF PlanInv, RefusedStand
<1>9. FeaturesNamed'
  BY <1>0, <1>1, <1>2, <1>3, <1>4, NamesStay DEF PlanInv, Loaded
<1>10. Edged'
  BY <1>0, <1>1, <1>3, <1>4, EdgeStays DEF Patching
<1> QED BY <1>5, <1>6, <1>7, <1>8, <1>9, <1>10 DEF PlanInv

-----------------------------------------------------------------------------
\* A step that touches no file and lets its command go on or end keeps the
\* invariant, when what a command that ends has made counts as lost.
LEMMA NoFile ==
  ASSUME PlanInv, NEW p \in Callers, UNCHANGED <<plan, page, feature, refused, sealed, upset, calls>>,
         proc' \in [Callers -> Jobs], Others(p), LockMoves(p), KnowsPlan(p)',
         proc'[p].made \subseteq DOMAIN feature,
         lock' = p => proc'[p].at # "idle" /\ proc'[p].cmd \notin Lockless,
         torn => torn', torn' \in BOOLEAN, failures' \in 0 .. MaxFailures,
         lost \subseteq lost', lost' \subseteq DOMAIN feature,
         p \in Loaded =>
           proc[p].made \subseteq lost' \/ (p \in Loaded' /\ proc[p].made \subseteq proc'[p].made),
         Patching(p) => torn' \/ Patching(p)',
         proc'[p].at = "save" => proc'[p].cmd \notin Finalizers
  PROVE  PlanInv'
<1>0. PlanTyped /\ (\A r \in Callers : KnowsPlan(r)) /\ NamesTrue(plan) /\ Edged
  BY DEF PlanInv
<1>1. Grown /\ \A r \in Callers \ {p} : Drawn(r)'
  BY <1>0, OthersDraw DEF Grown
<1>2. PlanTyped'
  <2>1. \A r \in Callers : proc'[r].made \subseteq DOMAIN feature'
    BY <1>0 DEF PlanTyped, Others, Stays
  <2>2. \A r \in Callers : lock' = r => proc'[r].at # "idle" /\ proc'[r].cmd \notin Lockless
    BY <1>0, PlanConstants DEF PlanTyped, Others, Stays, LockMoves
  <2>3. lock' \in Callers \cup {None}
    BY <1>0 DEF PlanTyped, LockMoves
  <2> QED BY <1>0, <2>1, <2>2, <2>3 DEF PlanTyped
<1>3. \A r \in Callers : KnowsPlan(r)'
  BY <1>0, <1>1, OthersKnow
<1>4. NamesTrue(plan)' /\ RefusedStand'
  BY DEF PlanInv, NamesTrue, RefusedStand
<1>5. FeaturesNamed'
  BY <1>0, <1>1, NamesStay DEF PlanInv
<1>6. Edged'
  BY <1>0, EdgeStays
<1> QED BY <1>2, <1>3, <1>4, <1>5, <1>6 DEF PlanInv

LEMMA UnlockMoves ==
  ASSUME NEW p, Unlock(p)
  PROVE  LockMoves(p) /\ (p # None => lock' # p)
BY DEF Unlock, LockMoves

LEMMA FailureFits ==
  ASSUME PlanTyped, Failure PROVE failures' \in 0 .. MaxFailures /\ calls' = calls
BY PlanConstants DEF PlanTyped, Failure

LEMMA DieKeeps ==
  ASSUME PlanInv, NEW p \in Callers, Die(p)
  PROVE  PlanInv'
<1>0. PlanTyped /\ (\A r \in Callers : KnowsPlan(r))
  BY DEF PlanInv
<1>1. /\ proc' = [proc EXCEPT ![p] = Idle] /\ Unlock(p) /\ Failure
      /\ UNCHANGED <<plan, page, feature, refused, sealed, upset>>
      /\ torn' = (torn \/ Patching(p))
      /\ lost' = IF p \in Loaded THEN lost \cup proc[p].made ELSE lost
  BY DEF Die, files
<1>2. proc' \in [Callers -> Jobs] /\ proc'[p] = Idle /\ Others(p)
  BY <1>0, <1>1, Fresh, JobMoves
<1>3. LockMoves(p) /\ lock' # p
  BY <1>1, UnlockMoves, PlanConstants
<1>4. failures' \in 0 .. MaxFailures /\ calls' = calls
  BY <1>0, <1>1, FailureFits
<1>5. KnowsPlan(p)'
  BY <1>0, <1>2, <1>3, IdleKnowsPlan
<1>6. /\ lost \subseteq lost' /\ lost' \subseteq DOMAIN feature
      /\ p \in Loaded => proc[p].made \subseteq lost'
  BY <1>0, <1>1 DEF PlanTyped
<1>7. torn' \in BOOLEAN /\ (torn => torn') /\ (Patching(p) => torn')
  BY <1>0, <1>1 DEF PlanTyped
<1>8. proc'[p].at = "idle" /\ proc'[p].made = {}
  BY <1>2, Fresh
<1> QED BY <1>1, <1>2, <1>3, <1>4, <1>5, <1>6, <1>7, <1>8, NoFile

LEMMA MakeFailsKeeps ==
  ASSUME PlanInv, NEW p \in Callers, MakeFails(p)
  PROVE  PlanInv'
<1> DEFINE s == Min(proc[p].todo)  todo == proc[p].todo \ {s}
<1>0. PlanTyped /\ (\A r \in Callers : KnowsPlan(r)) /\ proc[p].at = "make" /\ p \in Loaded
  BY DEF PlanInv, MakeFails, Loaded
<1>1. /\ Failure /\ UNCHANGED <<plan, page, feature, refused, sealed, upset, torn>>
      /\ ~Patching(p)
  BY <1>0 DEF MakeFails, files, Patching
<1>2. failures' \in 0 .. MaxFailures /\ calls' = calls
  BY <1>0, <1>1, FailureFits
<1>3. lost \subseteq DOMAIN feature /\ proc[p].made \subseteq DOMAIN feature /\ torn \in BOOLEAN
  BY <1>0 DEF PlanTyped
<1>4. CASE proc[p].cmd \in {"promote", "finalize"}
  <2>1. proc' = [proc EXCEPT ![p] = Idle] /\ Unlock(p) /\ lost' = lost \cup proc[p].made
    BY <1>4 DEF MakeFails
  <2>2. proc' \in [Callers -> Jobs] /\ proc'[p] = Idle /\ Others(p)
    BY <1>0, <2>1, Fresh, JobMoves
  <2>3. LockMoves(p) /\ lock' # p
    BY <2>1, UnlockMoves, PlanConstants
  <2>4. KnowsPlan(p)'
    BY <1>0, <2>2, <2>3, IdleKnowsPlan
  <2>5. proc'[p].at = "idle" /\ proc'[p].made = {}
    BY <2>2, Fresh
  <2> QED BY <1>0, <1>1, <1>2, <1>3, <2>1, <2>2, <2>3, <2>4, <2>5, NoFile
<1>5. CASE proc[p].cmd \notin {"promote", "finalize"}
  <2> DEFINE at == NextStep(proc[p].cmd, todo)
             new == [proc[p] EXCEPT !.todo = todo, !.batch = @ \ {s}, !.at = at]
  <2>0. /\ proc[p] \in Jobs /\ proc[p].todo \subseteq Slices /\ proc[p].todo # {}
        /\ proc[p].cmd \in Finalizers /\ proc[p].cmd \notin {"promote", "approve", "reject", "finalize"}
    BY <1>0, <1>5 DEF PlanTyped, Jobs, KnowsPlan, AtWork, Finalizers
  <2>1. s \in proc[p].todo /\ s \in Slices
    BY <2>0, MinIn, PlanConstants
  <2>2. at \in {"make", "link"} /\ (at = "make" => todo # {})
    BY <2>0 DEF NextStep
  <2>3. UNCHANGED <<lock, lost>>
    BY <1>5 DEF MakeFails
  <2> HIDE DEF s, at
  <2>4. proc' = [proc EXCEPT ![p] = new]
    BY <1>0, <1>5 DEF MakeFails, PlanTyped, s, at
  <2>5. /\ new \in Jobs /\ new.cmd = proc[p].cmd /\ new.at = at /\ new.copy = proc[p].copy
        /\ new.todo = todo /\ new.batch = proc[p].batch \ {s} /\ new.made = proc[p].made
        /\ new.stale = proc[p].stale
    BY <2>0, <2>2 DEF Jobs
  <2> HIDE DEF new
  <2>6. proc' \in [Callers -> Jobs] /\ proc'[p] = new /\ Others(p)
    BY <1>0, <2>4, <2>5, JobMoves
  <2>7. /\ proc'[p].cmd = proc[p].cmd /\ proc'[p].at = at /\ proc'[p].copy = proc[p].copy
        /\ proc'[p].todo = todo /\ proc'[p].batch = proc[p].batch \ {s}
        /\ proc'[p].made = proc[p].made /\ proc'[p].stale = proc[p].stale
    BY <2>5, <2>6
  <2> HIDE DEF todo
  <2>8. AtWork(p)' /\ p \in Loaded'
    BY <1>0, <2>0, <2>2, <2>3, <2>7 DEF KnowsPlan, AtWork, Loaded
  <2>9. NamesTrue(proc[p].copy)'
    BY <1>0, <1>1, <2>7 DEF KnowsPlan, NamesTrue
  <2>10. MadeNamed(p)'
    BY <1>0, <1>1, <2>7 DEF KnowsPlan, MadeNamed, todo
  <2>11. FeatsKept(p)'
    BY <1>0, <1>1, <2>7 DEF KnowsPlan, FeatsKept, todo
  <2>12. VerdictsKept(p)'
    <3>1. Judged(proc[p]) = {} /\ Judged(proc'[p]) = {}
      BY <2>0, <2>7 DEF Judged, Finalizers
    <3> QED BY <1>0, <1>1, <2>7, <3>1 DEF KnowsPlan, VerdictsKept
  <2>13. Wanted(p)'
    BY <1>0, <2>7 DEF KnowsPlan, Wanted, Approved, todo
  <2>14. Batched(p)'
    <3>1. proc[p].cmd = "finalize-yaml" => proc[p].copy.feat[s] = 0
      BY <1>0, <2>1 DEF KnowsPlan, FeatsKept
    <3> QED BY <1>0, <2>0, <2>7, <3>1 DEF KnowsPlan, Batched, Approved, todo
  <2>15. Wired(p)' /\ Drawn(p)'
    BY <2>2, <2>7 DEF Wired, Drawn, Drawing
  <2>16. KnowsPlan(p)'
    BY <2>8, <2>9, <2>10, <2>11, <2>12, <2>13, <2>14, <2>15 DEF KnowsPlan
  <2>17. lock' = p => proc'[p].at # "idle" /\ proc'[p].cmd \notin Lockless
    BY <1>0, <2>2, <2>3, <2>7 DEF PlanTyped
  <2> QED BY <1>0, <1>1, <1>2, <1>3, <2>2, <2>3, <2>6, <2>7, <2>8, <2>16, <2>17, NoFile DEF LockMoves
<1> QED BY <1>4, <1>5

-----------------------------------------------------------------------------
(* Features are linked. *)

\* A drawing that a step of p overtakes is marked, for one of the two is bare.
LEMMA Overtaken ==
  ASSUME NEW p \in Callers, NEW r \in Callers \ {p}, KnowsPlan(p), KnowsPlan(r), Others(p),
         proc[p].at # "idle",
         r \in Drawing /\ {proc[p].cmd, proc[r].cmd} \cap Bare # {} => proc'[r].stale
  PROVE  Drawn(r)'
<1>1. Stays(r)
  BY DEF Others
<1>2. r \in Drawing => {proc[p].cmd, proc[r].cmd} \cap Bare # {}
  BY OneLocks DEF KnowsPlan, Drawing
<1> QED BY <1>1, <1>2 DEF Drawn, Drawing, Stays

LEMMA LinkMoves ==
  ASSUME PlanTyped, NEW p \in Callers, KnowsPlan(p), LinkFeatures(p)
  PROVE  /\ proc[p].at = "link" /\ p \in Loaded /\ proc[p].cmd \in Finalizers
         /\ proc' \in [Callers -> Jobs] /\ Others(p)
         /\ proc'[p].cmd = proc[p].cmd /\ proc'[p].at = "save"
         /\ proc'[p].copy = proc[p].copy
         /\ proc'[p].todo = proc[p].todo /\ proc'[p].batch = proc[p].batch
         /\ proc'[p].made = proc[p].made /\ proc'[p].stale = proc[p].stale
         /\ \A r \in Callers \ {p} :
              r \in Drawing /\ {proc[p].cmd, proc[r].cmd} \cap Bare # {} => proc'[r].stale
<1> DEFINE x == Crossed(p, Drawing, Bare)
           new == [x[p] EXCEPT !.at = "save"]
<1>1. proc[p].at = "link" /\ p \in Loaded /\ proc[p].cmd \in Finalizers
  BY DEF LinkFeatures, KnowsPlan, AtWork, Loaded
<1>2. /\ x \in [Callers -> Jobs]
      /\ x[p].cmd = proc[p].cmd /\ x[p].at = proc[p].at /\ x[p].copy = proc[p].copy
      /\ x[p].todo = proc[p].todo /\ x[p].batch = proc[p].batch
      /\ x[p].made = proc[p].made
      /\ x[p].stale <=> proc[p].stale
  BY CrossedFits
<1>3. x[p].stale = proc[p].stale
  <2>1. x[p].stale \in BOOLEAN /\ proc[p].stale \in BOOLEAN
    BY <1>2 DEF PlanTyped, Jobs
  <2> QED BY <1>2, <2>1
<1>4. proc' = [x EXCEPT ![p].at = "save"]
  BY DEF LinkFeatures
<1> HIDE DEF x
<1>5. proc' = [x EXCEPT ![p] = new]
  BY <1>2, <1>4
<1>6. /\ new \in Jobs /\ new.cmd = proc[p].cmd /\ new.at = "save" /\ new.copy = proc[p].copy
      /\ new.todo = proc[p].todo /\ new.batch = proc[p].batch
      /\ new.made = proc[p].made /\ new.stale = proc[p].stale
  BY <1>2, <1>3 DEF Jobs
<1> HIDE DEF new
<1>7. /\ proc' \in [Callers -> Jobs] /\ proc'[p] = new /\ Others(p)
      /\ \A r \in Callers \ {p} :
           r \in Drawing /\ {proc[p].cmd, proc[r].cmd} \cap Bare # {} => proc'[r].stale
  BY <1>5, <1>6, CrossingMoves DEF x
<1> QED BY <1>1, <1>6, <1>7

LEMMA LinkWires ==
  ASSUME PlanTyped, NEW p \in Callers, KnowsPlan(p), LinkFeatures(p)
  PROVE  /\ feature' \in Seq([slice : Slices, waits : SUBSET Nat]) /\ Grown
         /\ DOMAIN feature' = DOMAIN feature
         /\ \A f \in DOMAIN feature' : feature'[f].waits \subseteq DOMAIN feature'
         /\ \A s \in proc[p].batch :
              LET f == proc[p].copy.feat[s] IN
              f # 0 => Named(proc[p].copy, Deps[s] \cap proc[p].batch) \subseteq feature'[f].waits
<1> DEFINE F == [slice : Slices, waits : SUBSET Nat]
           copy == proc[p].copy  batch == proc[p].batch
           more(f) == Named(copy, Deps[feature[f].slice] \cap batch)
           new(f) == IF feature[f].slice \in batch /\ copy.feat[feature[f].slice] = f
                     THEN [feature[f] EXCEPT !.waits = @ \cup more(f)] ELSE feature[f]
<1>1. feature \in Seq(F) /\ Len(feature) \in Nat /\ DOMAIN feature = 1 .. Len(feature)
  BY DEF PlanTyped
<1>2. batch \subseteq Slices /\ NamesTrue(copy)
  BY DEF PlanTyped, Jobs, KnowsPlan
<1>3. feature' = [f \in DOMAIN feature |-> new(f)]
  BY DEF LinkFeatures
<1>4. ASSUME NEW f \in DOMAIN feature
      PROVE  more(f) \subseteq DOMAIN feature /\ more(f) \subseteq Nat
  <2>1. Deps[feature[f].slice] \subseteq Slices
    BY FeaturesFit, PlanConstants
  <2> QED BY <1>1, <1>2, <2>1 DEF Named, NamesTrue
<1> HIDE DEF more, copy, batch
<1>5. ASSUME NEW f \in DOMAIN feature
      PROVE  /\ new(f) \in F /\ new(f).slice = feature[f].slice
             /\ feature[f].waits \subseteq new(f).waits /\ new(f).waits \subseteq DOMAIN feature
             /\ feature[f].slice \in batch /\ copy.feat[feature[f].slice] = f =>
                  more(f) \subseteq new(f).waits
  <2>1. /\ feature[f] \in F /\ feature[f].waits \subseteq DOMAIN feature
        /\ feature[f].slice \in Slices /\ feature[f].waits \subseteq Nat
    BY FeaturesFit
  <2>2. LET g == [feature[f] EXCEPT !.waits = @ \cup more(f)] IN
          g \in F /\ g.slice = feature[f].slice /\ g.waits = feature[f].waits \cup more(f)
    BY <1>4, <2>1
  <2> QED BY <1>4, <2>1, <2>2
<1> HIDE DEF new, F
<1>6. feature' \in Seq(F) /\ DOMAIN feature' = DOMAIN feature
  BY <1>1, <1>3, <1>5
<1>7. \A f \in DOMAIN feature : feature'[f] = new(f)
  BY <1>3
<1>8. Grown
  BY <1>5, <1>6, <1>7 DEF Grown
<1>9. \A f \in DOMAIN feature' : feature'[f].waits \subseteq DOMAIN feature'
  BY <1>5, <1>6, <1>7
<1>10. ASSUME NEW s \in batch, copy.feat[s] # 0
       PROVE  Named(copy, Deps[s] \cap batch) \subseteq feature'[copy.feat[s]].waits
  <2>1. copy.feat[s] \in DOMAIN feature /\ feature[copy.feat[s]].slice = s
    BY <1>2, <1>10 DEF NamesTrue
  <2>2. more(copy.feat[s]) = Named(copy, Deps[s] \cap batch)
    BY <2>1 DEF more
  <2> QED BY <1>5, <1>7, <2>1, <2>2
<1> QED BY <1>6, <1>8, <1>9, <1>10 DEF F, copy, batch

LEMMA LinkKnows ==
  ASSUME PlanTyped, NEW p \in Callers, KnowsPlan(p), LinkFeatures(p)
  PROVE  KnowsPlan(p)'
<1>0. /\ proc[p].at = "link" /\ p \in Loaded /\ proc[p].cmd \in Finalizers
      /\ proc'[p].cmd = proc[p].cmd /\ proc'[p].at = "save"
      /\ proc'[p].copy = proc[p].copy
      /\ proc'[p].todo = proc[p].todo /\ proc'[p].batch = proc[p].batch
      /\ proc'[p].made = proc[p].made /\ proc'[p].stale = proc[p].stale
  BY LinkMoves
<1>1. Grown /\ \A s \in proc[p].batch :
        LET f == proc[p].copy.feat[s] IN
        f # 0 => Named(proc[p].copy, Deps[s] \cap proc[p].batch) \subseteq feature'[f].waits
  BY LinkWires
<1>2. UNCHANGED <<plan, lock, upset>>
  BY DEF LinkFeatures, history
<1>3. AtWork(p)' /\ p \in Loaded'
  BY <1>0, <1>2 DEF KnowsPlan, AtWork, Loaded
<1>4. NamesTrue(proc[p].copy)'
  BY <1>0, <1>1 DEF KnowsPlan, NamesTrue, Grown
<1>5. MadeNamed(p)'
  <2>1. \A f \in proc[p].made : f \in DOMAIN feature
    BY DEF PlanTyped
  <2> QED BY <1>0, <1>1, <2>1 DEF KnowsPlan, MadeNamed, Grown
<1>6. FeatsKept(p)'
  BY <1>0, <1>2 DEF KnowsPlan, FeatsKept
<1>7. VerdictsKept(p)'
  <2>1. Judged(proc'[p]) = Judged(proc[p])
    BY <1>0 DEF Judged
  <2> QED BY <1>0, <1>2, <2>1 DEF KnowsPlan, VerdictsKept
<1>8. Wanted(p)' /\ Drawn(p)'
  BY <1>0 DEF Wanted, Drawn, Drawing
<1>9. Batched(p)'
  BY <1>0 DEF KnowsPlan, Batched, Approved
<1>10. Wired(p)'
  BY <1>0, <1>1 DEF Wired, Named
<1> QED BY <1>3, <1>4, <1>5, <1>6, <1>7, <1>8, <1>9, <1>10 DEF KnowsPlan

LEMMA LinkFeaturesKeeps ==
  ASSUME PlanInv, NEW p \in Callers, LinkFeatures(p)
  PROVE  PlanInv'
<1>0. PlanTyped /\ (\A r \in Callers : KnowsPlan(r)) /\ NamesTrue(plan) /\ Edged
  BY DEF PlanInv
<1>1. /\ proc[p].at = "link" /\ p \in Loaded /\ proc' \in [Callers -> Jobs] /\ Others(p)
      /\ proc'[p].cmd = proc[p].cmd /\ proc'[p].at = "save" /\ proc'[p].made = proc[p].made
      /\ \A r \in Callers \ {p} :
           r \in Drawing /\ {proc[p].cmd, proc[r].cmd} \cap Bare # {} => proc'[r].stale
  BY <1>0, LinkMoves
<1>2. /\ feature' \in Seq([slice : Slices, waits : SUBSET Nat]) /\ Grown
      /\ DOMAIN feature' = DOMAIN feature
      /\ \A f \in DOMAIN feature' : feature'[f].waits \subseteq DOMAIN feature'
  BY <1>0, LinkWires
<1>3. page' = TRUE /\ UNCHANGED <<plan, lock, refused, lost, sealed, upset, torn, calls, failures>>
  BY DEF LinkFeatures, history, counts
<1>4. PlanTyped'
  <2>1. \A r \in Callers : proc'[r].made \subseteq DOMAIN feature'
    BY <1>0, <1>1, <1>2 DEF PlanTyped, Others, Stays
  <2>2. \A r \in Callers : lock' = r => proc'[r].at # "idle" /\ proc'[r].cmd \notin Lockless
    BY <1>0, <1>1, <1>3 DEF PlanTyped, Others, Stays
  <2> QED BY <1>0, <1>1, <1>2, <1>3, <2>1, <2>2 DEF PlanTyped
<1>5. \A r \in Callers : KnowsPlan(r)'
  <2>1. KnowsPlan(p)'
    BY <1>0, LinkKnows
  <2>2. \A r \in Callers \ {p} : Drawn(r)'
    BY <1>0, <1>1, Overtaken
  <2>3. LockMoves(p)
    BY <1>3 DEF LockMoves
  <2> QED BY <1>0, <1>1, <1>2, <1>3, <2>1, <2>2, <2>3, OthersKnow
<1>6. NamesTrue(plan)'
  BY <1>0, <1>2, <1>3 DEF NamesTrue, Grown
<1>7. RefusedStand'
  BY <1>3 DEF PlanInv, RefusedStand
<1>8. FeaturesNamed'
  BY <1>0, <1>1, <1>2, <1>3, NamesStay DEF PlanInv, Loaded
<1>9. Edged'
  BY <1>0, <1>1, <1>3, EdgeStays DEF Patching
<1> QED BY <1>4, <1>5, <1>6, <1>7, <1>8, <1>9 DEF PlanInv

-----------------------------------------------------------------------------
(* The copy becomes the plan. *)

LEMMA SaveMoves ==
  ASSUME PlanTyped, NEW p \in Callers, KnowsPlan(p), SavePlan(p)
  PROVE  /\ proc[p].at = "save" /\ p \in Loaded
         /\ plan' \in Plans /\ plan'.feat = proc[p].copy.feat
         /\ plan'.verdict = proc[p].copy.verdict /\ plan'.says = proc[p].copy.says
         /\ proc' \in [Callers -> Jobs] /\ Others(p) /\ LockMoves(p)
         /\ proc'[p].made = {} /\ proc'[p].copy = NewPlan
         /\ proc'[p].at \in {"read", "idle"}
         /\ proc'[p].at = "read" => proc'[p].cmd = proc[p].cmd
         /\ lock' = p => proc'[p].at = "read"
         /\ proc'[p].at = "read" /\ proc[p].cmd # "set-status" => lock' = lock
         /\ \A r \in Callers \ {p} :
              r \in Loaded /\ {proc[p].cmd, proc[r].cmd} \cap Lockless # {} => proc'[r].stale
<1> DEFINE q == proc[p]
           final == q.copy.final \/ q.cmd \in Finalizers
           copy == [q.copy EXCEPT !.final = final]
           read == [Idle EXCEPT !.cmd = q.cmd, !.at = "read"]
           next == IF Draws(q) THEN read ELSE Idle
<1>0. q \in Jobs /\ q.copy \in Plans /\ q.cmd \in PlanCommands \cup {"none"}
  BY DEF PlanTyped, Jobs
<1>1. q.at = "save" /\ p \in Loaded
  BY DEF SavePlan, Loaded
<1>2. copy \in Plans /\ copy.feat = q.copy.feat /\ copy.verdict = q.copy.verdict /\ copy.says = q.copy.says
  <2>1. final \in BOOLEAN
    BY <1>0 DEF Plans
  <2> HIDE DEF final, q
  <2> QED BY <1>0, <2>1 DEF Plans
<1>3. plan' = copy /\ proc' = [Crossed(p, Loaded, Lockless) EXCEPT ![p] = next]
  BY DEF SavePlan
<1>4. IF Draws(q) /\ q.cmd # "set-status" THEN lock' = lock ELSE Unlock(p)
  BY DEF SavePlan
<1> HIDE DEF copy
<1>5. read \in Jobs /\ read.at = "read" /\ read.cmd = q.cmd /\ read.made = {} /\ read.copy = NewPlan
  BY <1>0, Fresh DEF Idle, Jobs
<1> HIDE DEF read, q
<1>6. /\ next \in Jobs /\ next.made = {} /\ next.copy = NewPlan /\ next.at \in {"read", "idle"}
      /\ next.at = "read" => next.cmd = q.cmd
      /\ next.at = "read" <=> Draws(q)
  BY <1>5, Fresh DEF Draws
<1> HIDE DEF next
<1>7. /\ proc' \in [Callers -> Jobs] /\ proc'[p] = next /\ Others(p)
      /\ \A r \in Callers \ {p} :
           r \in Loaded /\ {proc[p].cmd, proc[r].cmd} \cap Lockless # {} => proc'[r].stale
  BY <1>3, <1>6, CrossingMoves
<1>8. LockMoves(p) /\ (lock' = p => Draws(q))
  BY <1>4, UnlockMoves, PlanConstants DEF LockMoves
<1> QED BY <1>1, <1>2, <1>3, <1>4, <1>6, <1>7, <1>8 DEF q

LEMMA SaveOvertakes ==
  ASSUME PlanTyped, NEW p \in Callers, KnowsPlan(p), SavePlan(p), upset' = (upset \/ proc[p].stale),
         NEW r \in Callers \ {p}, KnowsPlan(r)
  PROVE  FeatsKept(r)' /\ VerdictsKept(r)'
<1>1. /\ p \in Loaded /\ proc[p].at = "save" /\ Others(p)
      /\ plan'.verdict = proc[p].copy.verdict
      /\ r \in Loaded /\ {proc[p].cmd, proc[r].cmd} \cap Lockless # {} => proc'[r].stale
  BY SaveMoves
<1>2. Stays(r) /\ (r \in Loaded' <=> r \in Loaded) /\ Judged(proc'[r]) = Judged(proc[r])
  BY <1>1 DEF Others, Stays, Loaded, Judged
<1>3. r \in Loaded => proc'[r].stale /\ (proc[r].cmd \notin Lockless => proc[p].cmd \in Lockless)
  <2>1. r \in Loaded => proc[p].cmd \in Lockless \/ proc[r].cmd \in Lockless
    BY <1>1, OneLocks DEF KnowsPlan, Loaded
  <2> QED BY <1>1, <2>1
<1>4. FeatsKept(r)'
  BY <1>2, <1>3 DEF KnowsPlan, FeatsKept, Stays
<1>5. ASSUME r \in Loaded, ~upset', proc[r].cmd \notin Lockless
      PROVE  \A s \in Slices : plan'.verdict[s] = plan.verdict[s]
  <2>1. proc[p].cmd \in Lockless /\ ~upset /\ ~proc[p].stale
    BY <1>3, <1>5
  <2>2. Judged(proc[p]) = {}
    BY <2>1 DEF Judged, Lockless
  <2>3. \A s \in Slices : proc[p].copy.verdict[s] = plan.verdict[s]
    BY <1>1, <2>1, <2>2 DEF KnowsPlan, VerdictsKept
  <2> QED BY <1>1, <2>3
<1>6. VerdictsKept(r)'
  <2> SUFFICES ASSUME r \in Loaded, ~upset' PROVE VerdictsKept(r)'
    BY <1>2 DEF VerdictsKept
  <2>1. ~upset
    OBVIOUS
  <2>2. proc[r].cmd \notin Lockless =>
          \A s \in Slices \ Judged(proc[r]) : proc[r].copy.verdict[s] = plan.verdict[s]
    BY <2>1 DEF KnowsPlan, VerdictsKept
  <2>3. proc'[r].cmd = proc[r].cmd /\ proc'[r].copy = proc[r].copy /\ proc'[r].batch = proc[r].batch
    BY <1>2 DEF Stays
  <2>4. proc[r].cmd \notin Lockless =>
          \A s \in Slices \ Judged(proc[r]) : proc[r].copy.verdict[s] = plan'.verdict[s]
    BY <1>5, <2>2
  <2> QED BY <1>2, <1>3, <2>2, <2>3, <2>4 DEF VerdictsKept
<1> QED BY <1>4, <1>6

\* No name of a feature is dropped unnoticed.
LEMMA SaveNames ==
  ASSUME PlanTyped, NEW p \in Callers, KnowsPlan(p), SavePlan(p), FeaturesNamed, UNCHANGED feature,
         upset' = (upset \/ proc[p].stale)
  PROVE  FeaturesNamed'
<1> DEFINE q == proc[p]
<1>1. /\ p \in Loaded /\ Others(p) /\ plan'.feat = q.copy.feat
  BY SaveMoves
<1>2. /\ lost \subseteq lost'
      /\ q.cmd \in {"rewrite", "regenerate"} =>
           Named(plan, Slices) \ Named(q.copy, Slices) \subseteq lost'
  <2> DEFINE copy == [q.copy EXCEPT !.final = @ \/ q.cmd \in Finalizers]
  <2>1. lost' = IF q.cmd \in {"rewrite", "regenerate"}
                THEN lost \cup (Named(plan, Slices) \ Named(copy, Slices)) ELSE lost
    BY DEF SavePlan
  <2>2. copy.feat = q.copy.feat
    BY DEF PlanTyped, Jobs, Plans
  <2> HIDE DEF copy, q
  <2>3. Named(copy, Slices) = Named(q.copy, Slices)
    BY <2>2 DEF Named
  <2> QED BY <2>1, <2>3
<1> SUFFICES ASSUME NEW f \in DOMAIN feature, f \notin lost', ~upset',
                    ~\E r \in Loaded' : f \in proc'[r].made
             PROVE  q.copy.feat[feature[f].slice] = f
  BY <1>1 DEF FeaturesNamed
<1>3. ~upset /\ ~q.stale /\ f \notin lost
  BY <1>2
<1>4. f \in Nat \ {0} /\ feature[f].slice \in Slices
  BY FeaturesFit
<1>5. CASE plan.feat[feature[f].slice] = f
  <2>1. CASE q.cmd \notin {"rewrite", "regenerate"}
    BY <1>1, <1>3, <1>4, <1>5, <2>1 DEF KnowsPlan, FeatsKept
  <2>2. CASE q.cmd \in {"rewrite", "regenerate"}
    <3>1. f \in Named(plan, Slices)
      BY <1>4, <1>5 DEF Named
    <3>2. f \in Named(q.copy, Slices)
      BY <1>2, <2>2, <3>1
    <3>3. PICK t \in Slices : q.copy.feat[t] = f
      BY <3>2 DEF Named
    <3>4. feature[f].slice = t
      BY <1>4, <3>3 DEF KnowsPlan, NamesTrue
    <3> QED BY <3>3, <3>4
  <2> QED BY <2>1, <2>2
<1>6. ASSUME NEW r \in Loaded, f \in proc[r].made PROVE r = p
  BY <1>1, <1>6 DEF Others, Stays, Loaded
<1>7. CASE f \in q.made
  BY <1>7 DEF KnowsPlan, MadeNamed
<1> QED BY <1>3, <1>5, <1>6, <1>7 DEF FeaturesNamed

LEMMA SaveKeeps ==
  ASSUME PlanInv, NEW p \in Callers, SavePlan(p)
  PROVE  PlanInv'
<1> DEFINE q == proc[p]
<1>0. PlanTyped /\ (\A r \in Callers : KnowsPlan(r)) /\ NamesTrue(plan) /\ Edged
  BY DEF PlanInv
<1>1. /\ q.at = "save" /\ p \in Loaded
      /\ plan' \in Plans /\ plan'.feat = q.copy.feat /\ plan'.verdict = q.copy.verdict
      /\ proc' \in [Callers -> Jobs] /\ Others(p) /\ LockMoves(p)
      /\ proc'[p].made = {} /\ proc'[p].copy = NewPlan
      /\ proc'[p].at \in {"read", "idle"}
      /\ proc'[p].at = "read" => proc'[p].cmd = q.cmd
      /\ lock' = p => proc'[p].at = "read"
      /\ proc'[p].at = "read" /\ q.cmd # "set-status" => lock' = lock
  BY <1>0, SaveMoves
<1>2. UNCHANGED <<page, feature, torn, calls, failures>> /\ upset' = (upset \/ q.stale)
  BY DEF SavePlan, counts
<1>3. refused' = (refused \ Judged(q)) \cup {s \in Judged(q) : q.copy.verdict[s] = "rejected"}
  <2> DEFINE copy == [q.copy EXCEPT !.final = @ \/ q.cmd \in Finalizers]
  <2>1. refused' = (refused \ Judged(q)) \cup {s \in Judged(q) : copy.verdict[s] = "rejected"}
    BY DEF SavePlan
  <2>2. copy.verdict = q.copy.verdict
    BY <1>0 DEF PlanTyped, Jobs, Plans
  <2> QED BY <2>1, <2>2
<1>4. sealed' \in BOOLEAN /\ (sealed' => sealed \/ q.cmd \in Finalizers)
  BY DEF SavePlan
<1>5. lost \subseteq lost' /\ lost' \subseteq DOMAIN feature
  <2>1. Named(plan, Slices) \subseteq DOMAIN feature
    BY <1>0 DEF Named, NamesTrue
  <2>2. \E X : lost' = (IF q.cmd \in {"rewrite", "regenerate"}
                        THEN lost \cup (Named(plan, Slices) \ X) ELSE lost)
    BY DEF SavePlan
  <2> QED BY <1>0, <2>1, <2>2 DEF PlanTyped
<1>6. q.batch \subseteq Slices /\ q.stale \in BOOLEAN
  BY <1>0 DEF PlanTyped, Jobs
<1>7. PlanTyped'
  <2>1. \A r \in Callers : proc'[r].made \subseteq DOMAIN feature'
    BY <1>0, <1>1, <1>2 DEF PlanTyped, Others, Stays
  <2>2. \A r \in Callers : lock' = r => proc'[r].at # "idle" /\ proc'[r].cmd \notin Lockless
    <3>1. ASSUME lock' = p PROVE proc'[p].at # "idle" /\ proc'[p].cmd \notin Lockless
      <4>1. lock = p
        BY <1>0, <1>1, <3>1 DEF LockMoves, KnowsPlan, AtWork, Lockless, PlanTyped
      <4> QED BY <1>0, <1>1, <3>1, <4>1 DEF PlanTyped
    <3>2. ASSUME NEW r \in Callers, r # p, lock' = r
          PROVE  proc'[r].at # "idle" /\ proc'[r].cmd \notin Lockless
      BY <1>0, <1>1, <3>2, PlanConstants DEF PlanTyped, Others, Stays, LockMoves
    <3> QED BY <3>1, <3>2
  <2>3. lock' \in Callers \cup {None} /\ refused' \subseteq Slices
    BY <1>0, <1>1, <1>3, <1>6 DEF PlanTyped, LockMoves, Judged
  <2>4. {sealed', upset', torn'} \subseteq BOOLEAN /\ page' \in BOOLEAN
    BY <1>0, <1>2, <1>4, <1>6 DEF PlanTyped
  <2> QED BY <1>0, <1>1, <1>2, <1>5, <2>1, <2>2, <2>3, <2>4 DEF PlanTyped
<1>8. KnowsPlan(p)'
  <2>1. AtWork(p)'
    BY <1>0, <1>1 DEF KnowsPlan, AtWork, LockMoves
  <2>2. \A s \in Slices : NewPlan.feat[s] = 0
    BY Fresh
  <2> QED BY <1>1, <2>1, <2>2 DEF KnowsPlan, NamesTrue, MadeNamed, FeatsKept, VerdictsKept, Wanted,
             Batched, Wired, Drawn, Loaded, Drawing
<1>9. ASSUME NEW r \in Callers \ {p} PROVE KnowsPlan(r)'
  <2>1. Grown
    BY <1>2 DEF Grown
  <2>2. KnowsOwn(r)'
    BY <1>0, <1>1, <2>1, OthersKnowOwn
  <2>3. FeatsKept(r)' /\ VerdictsKept(r)'
    BY <1>0, <1>2, SaveOvertakes
  <2>4. Drawn(r)'
    BY <1>0, <1>1, <1>2, OthersDraw
  <2> QED BY <2>2, <2>3, <2>4 DEF KnowsPlan, KnowsOwn
<1>10. NamesTrue(plan)'
  BY <1>0, <1>1, <1>2 DEF KnowsPlan, NamesTrue
<1>11. RefusedStand'
  <2> SUFFICES ASSUME ~upset', NEW s \in refused' PROVE q.copy.verdict[s] = "rejected"
    BY <1>1 DEF RefusedStand
  <2>1. ~upset /\ ~q.stale /\ refused \subseteq Slices
    BY <1>0, <1>2 DEF PlanTyped
  <2>2. \A t \in Slices \ Judged(q) : q.copy.verdict[t] = plan.verdict[t]
    BY <1>0, <1>1, <2>1 DEF KnowsPlan, VerdictsKept
  <2>3. s \in refused \ Judged(q) \/ q.copy.verdict[s] = "rejected"
    BY <1>3
  <2> QED BY <2>1, <2>2, <2>3 DEF PlanInv, RefusedStand
<1>12. FeaturesNamed'
  BY <1>0, <1>2, SaveNames DEF PlanInv
<1>13. Edged'
  BY <1>0, <1>1, <1>2, <1>4, EdgeStays DEF Patching
<1> QED BY <1>7, <1>8, <1>9, <1>10, <1>11, <1>12, <1>13 DEF PlanInv

-----------------------------------------------------------------------------
(* The page is drawn. *)

\* A step of a drawing: its job goes on or ends, and only the page changes.
LEMMA DrawKeeps ==
  ASSUME PlanInv, NEW p \in Callers, proc[p].at \in {"read", "write", "patch"},
         UNCHANGED <<plan, feature, refused, lost, sealed, upset, counts>>,
         page' \in BOOLEAN, torn' \in BOOLEAN, torn => torn',
         proc' \in [Callers -> Jobs], Others(p), LockMoves(p), KnowsPlan(p)',
         proc'[p].at \in {"write", "patch", "idle"}, proc'[p].made \subseteq DOMAIN feature,
         lock' = p => proc'[p].at # "idle" /\ proc'[p].cmd \notin Lockless,
         page \/ torn \/ Patching(p) => page' \/ torn' \/ Patching(p)',
         \A r \in Callers \ {p} : Drawn(r)'
  PROVE  PlanInv'
<1>0. PlanTyped /\ (\A r \in Callers : KnowsPlan(r)) /\ NamesTrue(plan) /\ Edged
  BY DEF PlanInv
<1>1. Grown /\ UNCHANGED <<calls, failures>>
  BY DEF Grown, counts
<1>2. PlanTyped'
  <2>1. \A r \in Callers : proc'[r].made \subseteq DOMAIN feature'
    BY <1>0 DEF PlanTyped, Others, Stays
  <2>2. \A r \in Callers : lock' = r => proc'[r].at # "idle" /\ proc'[r].cmd \notin Lockless
    BY <1>0, PlanConstants DEF PlanTyped, Others, Stays, LockMoves
  <2>3. lock' \in Callers \cup {None}
    BY <1>0 DEF PlanTyped, LockMoves
  <2> QED BY <1>0, <1>1, <2>1, <2>2, <2>3 DEF PlanTyped
<1>3. \A r \in Callers : KnowsPlan(r)'
  BY <1>0, <1>1, OthersKnow
<1>4. NamesTrue(plan)' /\ RefusedStand'
  BY DEF PlanInv, NamesTrue, RefusedStand
<1>5. proc[p].made = {} /\ p \notin Loaded
  BY <1>0 DEF KnowsPlan, AtWork, Loaded
<1>6. FeaturesNamed'
  BY <1>0, <1>1, <1>5, NamesStay DEF PlanInv
<1>7. Edged'
  BY <1>0, EdgeStays
<1> QED BY <1>2, <1>3, <1>4, <1>6, <1>7 DEF PlanInv

\* A drawing that goes on knows what it knew.
LEMMA DrawKnows ==
  ASSUME PlanTyped, NEW p \in Callers, KnowsPlan(p), proc[p].at \in {"read", "write"},
         UNCHANGED <<feature, lock>>,
         proc'[p].cmd = proc[p].cmd, proc'[p].copy = proc[p].copy,
         proc'[p].made = proc[p].made, proc'[p].at \in {"write", "patch"}, Drawn(p)'
  PROVE  KnowsPlan(p)'
<1>1. AtWork(p)' /\ proc'[p].made = {}
  BY DEF KnowsPlan, AtWork, Loaded
<1>2. NamesTrue(proc[p].copy)'
  BY DEF KnowsPlan, NamesTrue
<1> QED BY <1>1, <1>2 DEF KnowsPlan, MadeNamed, FeatsKept, VerdictsKept, Wanted, Batched, Wired, Loaded

LEMMA ReadKeeps ==
  ASSUME PlanInv, NEW p \in Callers, DrawReads(p)
  PROVE  PlanInv'
<1> DEFINE new == [proc[p] EXCEPT !.at = "write", !.seen = page]
<1>0. PlanTyped /\ (\A r \in Callers : KnowsPlan(r)) /\ proc[p].at = "read" /\ ~Patching(p)
  BY DEF PlanInv, DrawReads, Patching
<1>1. UNCHANGED <<plan, page, feature, refused, lost, sealed, upset, torn, counts, lock>>
  BY DEF DrawReads, files, history
<1>2. proc' = [proc EXCEPT ![p] = new]
  BY <1>0 DEF DrawReads, PlanTyped
<1>3. /\ new \in Jobs /\ new.at = "write" /\ new.seen = page
      /\ new.cmd = proc[p].cmd /\ new.copy = proc[p].copy /\ new.made = proc[p].made
  BY <1>0 DEF PlanTyped, Jobs
<1> HIDE DEF new
<1>4. proc' \in [Callers -> Jobs] /\ proc'[p] = new /\ Others(p)
  BY <1>0, <1>2, <1>3, JobMoves
<1>5. Drawn(p)' /\ \A r \in Callers \ {p} : Drawn(r)'
  BY <1>0, <1>1, <1>3, <1>4, OthersDraw DEF Drawn
<1>6. KnowsPlan(p)'
  BY <1>0, <1>1, <1>3, <1>4, <1>5, DrawKnows
<1>7. /\ page' \in BOOLEAN /\ torn' \in BOOLEAN /\ proc'[p].made \subseteq DOMAIN feature
      /\ lock' = p => proc'[p].at # "idle" /\ proc'[p].cmd \notin Lockless
  BY <1>0, <1>1, <1>3, <1>4 DEF PlanTyped
<1> QED BY <1>0, <1>1, <1>3, <1>4, <1>5, <1>6, <1>7, DrawKeeps DEF LockMoves

LEMMA WriteKeeps ==
  ASSUME PlanInv, NEW p \in Callers, DrawWrites(p)
  PROVE  PlanInv'
<1> DEFINE others == IF page THEN Drawing ELSE {}
           x == Crossed(p, others, Bare)
           new == [x[p] EXCEPT !.at = "patch"]
<1>0. PlanTyped /\ (\A r \in Callers : KnowsPlan(r)) /\ proc[p].at = "write" /\ ~Patching(p)
  BY DEF PlanInv, DrawWrites, Patching
<1>1. /\ UNCHANGED <<plan, feature, refused, lost, sealed, upset, counts, lock>>
      /\ page' = FALSE /\ torn' = (torn \/ proc[p].stale)
  BY DEF DrawWrites
<1>2. /\ x \in [Callers -> Jobs]
      /\ x[p].cmd = proc[p].cmd /\ x[p].copy = proc[p].copy /\ x[p].made = proc[p].made
      /\ x[p].seen = proc[p].seen
  BY <1>0, CrossedFits
<1>3. proc' = [x EXCEPT ![p].at = "patch"]
  BY DEF DrawWrites
<1> HIDE DEF x
<1>4. proc' = [x EXCEPT ![p] = new]
  BY <1>2, <1>3
<1>5. /\ new \in Jobs /\ new.at = "patch" /\ new.seen = proc[p].seen
      /\ new.cmd = proc[p].cmd /\ new.copy = proc[p].copy /\ new.made = proc[p].made
  BY <1>2 DEF Jobs
<1> HIDE DEF new, others
<1>6. proc' \in [Callers -> Jobs] /\ proc'[p] = new /\ Others(p)
  BY <1>0, <1>4, <1>5, CrossingMoves DEF x
<1>7. Drawn(p)' /\ \A r \in Callers \ {p} : Drawn(r)'
  BY <1>1 DEF Drawn
<1>8. KnowsPlan(p)'
  BY <1>0, <1>1, <1>5, <1>6, <1>7, DrawKnows
<1>9. /\ torn' \in BOOLEAN /\ proc'[p].made \subseteq DOMAIN feature
      /\ lock' = p => proc'[p].at # "idle" /\ proc'[p].cmd \notin Lockless
  <2>1. proc[p].stale \in BOOLEAN
    BY <1>0 DEF PlanTyped, Jobs
  <2> QED BY <1>0, <1>1, <1>5, <1>6, <2>1 DEF PlanTyped
<1>10. page \/ torn => torn' \/ Patching(p)'
  <2>1. page => proc[p].seen \/ proc[p].stale
    BY <1>0 DEF KnowsPlan, Drawn, Drawing
  <2> QED BY <1>1, <1>5, <1>6, <2>1 DEF Patching
<1> QED BY <1>0, <1>1, <1>5, <1>6, <1>7, <1>8, <1>9, <1>10, DrawKeeps DEF LockMoves

LEMMA PatchKeeps ==
  ASSUME PlanInv, NEW p \in Callers, DrawPatches(p)
  PROVE  PlanInv'
<1> DEFINE others == IF proc[p].seen THEN Drawing ELSE {}
<1>0. PlanTyped /\ (\A r \in Callers : KnowsPlan(r)) /\ proc[p].at = "patch"
  BY DEF PlanInv, DrawPatches
<1>1. /\ UNCHANGED <<plan, feature, refused, lost, sealed, upset, torn, counts>>
      /\ page' = (page \/ proc[p].seen) /\ Unlock(p)
      /\ proc' = [Crossed(p, others, Bare) EXCEPT ![p] = Idle]
  BY DEF DrawPatches, history
<1>2. others \subseteq Drawing /\ (proc[p].seen => others = Drawing)
  OBVIOUS
<1> HIDE DEF others
<1>3. /\ proc' \in [Callers -> Jobs] /\ proc'[p] = Idle /\ Others(p)
      /\ \A r \in Callers \ {p} :
           r \in others /\ {proc[p].cmd, proc[r].cmd} \cap Bare # {} => proc'[r].stale
  BY <1>0, <1>1, Fresh, CrossingMoves
<1>4. LockMoves(p) /\ lock' # p
  BY <1>1, UnlockMoves, PlanConstants
<1>5. KnowsPlan(p)'
  BY <1>0, <1>3, <1>4, IdleKnowsPlan
<1>6. ASSUME NEW r \in Callers \ {p} PROVE Drawn(r)'
  <2>1. CASE proc[p].seen
    BY <1>0, <1>2, <1>3, <2>1, Overtaken
  <2>2. CASE ~proc[p].seen
    <3>1. page' = page
      BY <1>0, <1>1, <2>2 DEF PlanTyped
    <3> QED BY <1>0, <1>3, <3>1, OthersDraw
  <2> QED BY <2>1, <2>2
<1>7. page' \in BOOLEAN /\ torn' \in BOOLEAN
  <2>1. proc[p].seen \in BOOLEAN
    BY <1>0 DEF PlanTyped, Jobs
  <2> QED BY <1>0, <1>1, <2>1 DEF PlanTyped
<1>8. proc'[p].at = "idle" /\ proc'[p].made = {}
  BY <1>3, Fresh
<1>9. page \/ torn \/ Patching(p) => page' \/ torn'
  BY <1>1 DEF Patching
<1> QED BY <1>0, <1>1, <1>3, <1>4, <1>5, <1>6, <1>7, <1>8, <1>9, DrawKeeps

-----------------------------------------------------------------------------
LEMMA PlanInitInv == PlanInit => PlanInv
<1> SUFFICES ASSUME PlanInit PROVE PlanInv
  OBVIOUS
<1>1. PICK track \in BOOLEAN, verdict \in [Slices -> {"pending", "approved"}] :
        plan = [NewPlan EXCEPT !.track = track, !.verdict = verdict,
                               !.says = {s \in Slices : verdict[s] = "approved"}]
  BY DEF PlanInit
<1>2. plan \in Plans /\ plan.feat = NewPlan.feat
  BY <1>1, Fresh DEF Plans, Verdicts
<1>3. /\ refused = {} /\ page = FALSE /\ feature = <<>> /\ lock = None
      /\ proc = [p \in Callers |-> Idle] /\ lost = {} /\ sealed = FALSE /\ upset = FALSE
      /\ torn = FALSE /\ calls = 0 /\ failures = 0
  BY DEF PlanInit
<1>4. DOMAIN feature = {} /\ feature \in Seq([slice : Slices, waits : SUBSET Nat])
  BY <1>3
<1>5. PlanTyped
  <2>1. proc \in [Callers -> Jobs] /\ \A p \in Callers : proc[p].made = {} /\ lock # p
    BY <1>3, Fresh, PlanConstants
  <2>2. calls \in 0 .. MaxCalls /\ failures \in 0 .. MaxFailures
    BY <1>3, PlanConstants
  <2> QED BY <1>2, <1>3, <1>4, <2>1, <2>2 DEF PlanTyped
<1>6. \A s \in Slices : NewPlan.feat[s] = 0
  BY Fresh
<1>7. ASSUME NEW p \in Callers PROVE KnowsPlan(p)
  <2>1. proc[p].at = "idle" /\ proc[p].made = {} /\ proc[p].copy = NewPlan
    BY <1>3, Fresh
  <2> QED BY <1>6, <2>1 DEF KnowsPlan, AtWork, NamesTrue, MadeNamed, FeatsKept, VerdictsKept, Wanted,
             Batched, Wired, Drawn, Loaded, Drawing
<1>8. NamesTrue(plan) /\ FeaturesNamed /\ RefusedStand
  BY <1>2, <1>3, <1>4, <1>6 DEF NamesTrue, FeaturesNamed, RefusedStand
<1>9. Edged
  BY <1>3, Fresh DEF Edged
<1> QED BY <1>5, <1>7, <1>8, <1>9 DEF PlanInv

LEMMA PlanStutters == PlanInv /\ UNCHANGED planVars => PlanInv'
<1> SUFFICES ASSUME PlanInv, UNCHANGED planVars PROVE PlanInv'
  OBVIOUS
<1>1. UNCHANGED <<plan, page, feature, lock, proc, refused, lost, sealed, upset, torn, calls, failures>>
  BY DEF planVars, files, history, counts
<1>2. PlanTyped' /\ NamesTrue(plan)' /\ RefusedStand'
  BY <1>1 DEF PlanInv, PlanTyped, NamesTrue, RefusedStand
<1>3. FeaturesNamed' /\ Edged'
  BY <1>1 DEF PlanInv, FeaturesNamed, Loaded, Edged, Patching
<1>4. ASSUME NEW p \in Callers PROVE KnowsPlan(p)'
  <2>1. AtWork(p)' /\ NamesTrue(proc[p].copy)' /\ MadeNamed(p)'
    BY <1>1 DEF PlanInv, KnowsPlan, AtWork, NamesTrue, MadeNamed, Loaded
  <2>2. FeatsKept(p)' /\ VerdictsKept(p)'
    BY <1>1 DEF PlanInv, KnowsPlan, FeatsKept, VerdictsKept, Loaded, Judged
  <2>3. Wanted(p)' /\ Batched(p)' /\ Wired(p)' /\ Drawn(p)'
    BY <1>1 DEF PlanInv, KnowsPlan, Wanted, Batched, Wired, Drawn, Drawing, Loaded, Approved
  <2> QED BY <2>1, <2>2, <2>3 DEF KnowsPlan
<1> QED BY <1>2, <1>3, <1>4 DEF PlanInv

LEMMA PlanNextKeeps == PlanInv /\ [PlanNext]_planVars => PlanInv'
<1> SUFFICES ASSUME PlanInv, [PlanNext]_planVars PROVE PlanInv'
  OBVIOUS
<1>1. CASE UNCHANGED planVars
  BY <1>1, PlanStutters
<1>2. CASE PlanNext
  <2>1. PICK p \in Callers :
          \/ Begins(p) \/ Make(p) \/ MakeFails(p) \/ LinkFeatures(p) \/ SavePlan(p)
          \/ DrawReads(p) \/ DrawWrites(p) \/ DrawPatches(p) \/ Die(p)
    BY <1>2 DEF PlanNext, Begins
  <2> QED BY <2>1, PlanBeginKeeps, MakeKeeps, MakeFailsKeeps, LinkFeaturesKeeps, SaveKeeps, ReadKeeps,
             WriteKeeps, PatchKeeps, DieKeeps
<1> QED BY <1>1, <1>2

LEMMA PlanInvHolds == PlanSpec => []PlanInv
<1>1. PlanInit => PlanInv
  BY PlanInitInv
<1>2. PlanInv /\ [PlanNext]_planVars => PlanInv'
  BY PlanNextKeeps
<1> QED BY <1>1, <1>2, PTL DEF PlanSpec

\* Every state of the plan is sound: the features a plan's commands made are the
\* ones that its slices name, and the page of a final plan has its edge, but for
\* those who died, failed or did without the lock.
THEOREM PlanStaysSound == PlanSpec => []PlanSound
<1>1. PlanInv => PlanSound
  BY DEF PlanInv, PlanSound, Edged, PageKept
<1> QED BY <1>1, PlanInvHolds, PTL

\* The steps of one caller.
Steps(p) ==
  \/ Begins(p) \/ Make(p) \/ MakeFails(p) \/ LinkFeatures(p) \/ SavePlan(p)
  \/ DrawReads(p) \/ DrawWrites(p) \/ DrawPatches(p) \/ Die(p)

\* A step is of one caller, and leaves the jobs of the others but for the mark.
LEMMA OneMoves ==
  ASSUME PlanInv, PlanNext
  PROVE  \E p \in Callers : Steps(p) /\ Others(p)
<1>0. PlanTyped /\ \A r \in Callers : KnowsPlan(r)
  BY DEF PlanInv
<1>1. PICK p \in Callers : Steps(p)
  BY DEF PlanNext, Begins, Steps
<1> SUFFICES Others(p)
  BY <1>1
<1>2. CASE Begins(p)
  <2>1. PICK cmd, copy, todo, batch :
          Intends(cmd, copy, todo, batch) /\ Loads(p, cmd, copy, todo, batch) /\ Locking(p, cmd)
    BY <1>0, <1>2, BeginsLoad
  <2> QED BY <1>0, <2>1, LoadsMove
<1>3. CASE Make(p) \/ LinkFeatures(p) \/ SavePlan(p)
  BY <1>0, <1>3, MakeMoves, LinkMoves, SaveMoves
<1>4. CASE MakeFails(p) \/ DrawReads(p) \/ Die(p)
  <2>1. \A r \in Callers \ {p} : proc'[r] = proc[r]
    BY <1>0, <1>4 DEF MakeFails, DrawReads, Die, PlanTyped
  <2> QED BY <2>1 DEF Others, Stays
<1>5. CASE DrawWrites(p) \/ DrawPatches(p)
  <2>1. PICK others : \A r \in Callers \ {p} : proc'[r] = Crossed(p, others, Bare)[r]
    <3>1. \A others : Crossed(p, others, Bare) \in [Callers -> Jobs]
      BY <1>0, CrossedFits
    <3> QED BY <1>5, <3>1 DEF DrawWrites, DrawPatches
  <2>2. \A r \in Callers \ {p} :
          LET x == Crossed(p, others, Bare)[r] IN
          /\ x.cmd = proc[r].cmd /\ x.at = proc[r].at /\ x.copy = proc[r].copy
          /\ x.todo = proc[r].todo /\ x.batch = proc[r].batch
          /\ x.made = proc[r].made /\ x.seen = proc[r].seen
          /\ proc[r].stale => x.stale
    BY <1>0, CrossedFits
  <2> QED BY <2>1, <2>2 DEF Others, Stays
<1> QED BY <1>1, <1>2, <1>3, <1>4, <1>5 DEF Steps

\* Features are made by Make.
LEMMA OnlyMakeMakes ==
  ASSUME PlanInv, PlanNext, NEW p \in Callers, proc'[p].made \ proc[p].made # {}
  PROVE  Make(p)
<1>0. PlanTyped /\ \A r \in Callers : KnowsPlan(r)
  BY DEF PlanInv
<1>1. Steps(p)
  BY OneMoves DEF Others, Stays
<1>2. ASSUME Begins(p) PROVE FALSE
  <2>1. PICK cmd, copy, todo, batch :
          Intends(cmd, copy, todo, batch) /\ Loads(p, cmd, copy, todo, batch) /\ Locking(p, cmd)
    BY <1>0, <1>2, BeginsLoad
  <2>2. proc'[p].made = {}
    BY <1>0, <2>1, LoadsMove
  <2> QED BY <2>2
<1>3. ~(LinkFeatures(p) \/ SavePlan(p))
  BY <1>0, LinkMoves, SaveMoves
<1>4. proc'[p] # Idle
  BY Fresh
<1>5. ~DrawPatches(p) /\ ~Die(p)
  <2>1. \A others : Crossed(p, others, Bare) \in [Callers -> Jobs]
    BY <1>0, CrossedFits
  <2> QED BY <1>0, <1>4, <2>1 DEF DrawPatches, Die, PlanTyped
<1>6. ~MakeFails(p) /\ ~DrawReads(p)
  BY <1>0, <1>4 DEF MakeFails, DrawReads, PlanTyped, Jobs
<1>7. ~DrawWrites(p)
  <2>1. \A others : LET x == Crossed(p, others, Bare) IN
                    x \in [Callers -> Jobs] /\ x[p].made = proc[p].made
    BY <1>0, CrossedFits
  <2> QED BY <2>1 DEF DrawWrites, Jobs
<1> QED BY <1>1, <1>2, <1>3, <1>5, <1>6, <1>7 DEF Steps

\* Whoever was about to save and then draws has saved.
LEMMA OnlySaveDraws ==
  ASSUME PlanInv, PlanNext, NEW p \in Callers, proc[p].at = "save", proc'[p].at = "read"
  PROVE  SavePlan(p)
<1>0. PlanTyped
  BY DEF PlanInv
<1>1. Steps(p)
  BY OneMoves DEF Others, Stays
<1>2. ~Begins(p)
  BY DEF Begins, Judge, Promote, FinalizeYAML, Finalize, ReopenPlan, Rewrite, SetStatus, Elicit, Loads
<1>3. ~Die(p)
  BY <1>0, Fresh DEF Die, PlanTyped
<1> QED BY <1>1, <1>2, <1>3 DEF Steps, Make, MakeFails, LinkFeatures, DrawReads, DrawWrites, DrawPatches

\* promote-slice and finalize-yaml make no feature for a slice whose last verdict
\* was a rejection, an entry of a rewritten file included: what they make for was
\* approved in the copy, the copy has the file's entries, and the file has the
\* rejection.
THEOREM VerdictsAreHeeded == PlanSpec => VerdictStands
<1>1. ASSUME PlanInv, [PlanNext]_planVars, NEW p \in Callers,
             proc'[p].made \ proc[p].made # {}, proc[p].cmd # "finalize"
      PROVE  LET s == feature'[Len(feature')].slice  copy == proc[p].copy IN
             \/ s \notin refused \/ upset
             \/ proc[p].cmd = "promote" /\ copy.verdict[s] = "rejected" /\ s \in copy.says
  <2>0. PlanTyped /\ KnowsPlan(p) /\ RefusedStand
    BY <1>1 DEF PlanInv
  <2>1. Make(p)
    BY <1>1, OnlyMakeMakes DEF planVars
  <2> DEFINE s == Min(proc[p].todo)
  <2>2. s \in proc[p].todo /\ s \in Slices /\ proc[p].at = "make" /\ p \in Loaded
    BY <2>0, <2>1, MakeMoves
  <2>3. feature'[Len(feature')].slice = s
    BY <2>0, <2>1, MakeMoves, Appended
  <2> HIDE DEF s
  <2>4. s \in Approved(proc[p].copy) \/ (proc[p].cmd = "promote" /\ s \in proc[p].copy.says)
    BY <1>1, <2>0, <2>2 DEF KnowsPlan, Wanted
  <2>5. proc[p].cmd \in {"promote", "finalize-yaml", "regenerate"}
    BY <1>1, <2>0, <2>2 DEF KnowsPlan, AtWork, Finalizers
  <2>6. ~upset => proc[p].copy.verdict[s] = plan.verdict[s]
    <3>1. proc[p].cmd \notin Lockless /\ Judged(proc[p]) = {}
      BY <2>5 DEF Lockless, Judged
    <3> QED BY <2>0, <2>2, <3>1 DEF KnowsPlan, VerdictsKept
  <2>7. s \in refused /\ ~upset => proc[p].copy.verdict[s] = "rejected"
    BY <2>0, <2>6 DEF RefusedStand
  <2> QED BY <2>3, <2>4, <2>7 DEF Approved
<1>2. PlanInv /\ [PlanNext]_planVars =>
        [\A p \in Callers :
           proc'[p].made \ proc[p].made # {} /\ proc[p].cmd # "finalize" =>
             LET s == feature'[Len(feature')].slice  copy == proc[p].copy IN
             \/ s \notin refused \/ upset
             \/ proc[p].cmd = "promote" /\ copy.verdict[s] = "rejected" /\ s \in copy.says]_planVars
  BY <1>1
<1> QED BY <1>2, PlanInvHolds, PTL DEF PlanSpec, VerdictStands

\* A plan is made final with its features waiting for each other as its slices do.
THEOREM DependenciesHold == PlanSpec => DependenciesWired
<1>1. ASSUME PlanInv, PlanNext, NEW p \in Callers,
             proc[p].at = "save", proc'[p].at = "read", proc[p].cmd \in Finalizers,
             proc[p].cmd = "regenerate" => proc[p].batch = Approved(proc[p].copy),
             NEW s \in (IF proc[p].cmd = "finalize" THEN Slices ELSE Approved(plan')),
             plan'.feat[s] # 0, NEW d \in Deps[s],
             d \in (IF proc[p].cmd = "finalize" THEN Slices ELSE Approved(plan')),
             plan'.feat[d] # 0
      PROVE  plan'.feat[d] \in feature'[plan'.feat[s]].waits
  <2>0. PlanTyped /\ KnowsPlan(p)
    BY <1>1 DEF PlanInv
  <2>1. SavePlan(p)
    BY <1>1, OnlySaveDraws
  <2>2. /\ p \in Loaded /\ plan'.feat = proc[p].copy.feat
        /\ plan'.verdict = proc[p].copy.verdict /\ plan'.says = proc[p].copy.says
        /\ feature' = feature
    <3>1. feature' = feature
      BY <2>1 DEF SavePlan
    <3> QED BY <2>0, <2>1, <3>1, SaveMoves
  <2>3. Approved(plan') = Approved(proc[p].copy)
    BY <2>2 DEF Approved
  <2>4. s \in proc[p].batch /\ d \in proc[p].batch
    BY <1>1, <2>0, <2>2, <2>3 DEF KnowsPlan, Batched, Finalizers
  <2> QED BY <1>1, <2>0, <2>2, <2>4 DEF KnowsPlan, Wired
<1> DEFINE W(p) ==
       LET q == proc[p] IN
       /\ q.at = "save" /\ proc'[p].at = "read" /\ q.cmd \in Finalizers
       /\ q.cmd = "regenerate" => q.batch = Approved(q.copy)
       => LET among == IF q.cmd = "finalize" THEN Slices ELSE Approved(plan')
              has == {s \in among : plan'.feat[s] # 0}
          IN \A s \in has : \A d \in Deps[s] \cap has :
               plan'.feat[d] \in feature'[plan'.feat[s]].waits
<1>2. PlanInv /\ [PlanNext]_planVars => [\A p \in Callers : W(p)]_planVars
  BY <1>1
<1> QED BY <1>2, PlanInvHolds, PTL DEF PlanSpec, DependenciesWired
=============================================================================

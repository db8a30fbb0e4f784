------------------------ MODULE CommitOutbox_proofs ------------------------
(* Machine-checked theorems about CommitOutbox, for any number of          *)
(* processes, paths, transitions, attempts and faults.                     *)
EXTENDS CommitOutbox, FiniteSetTheorems, TLAPS

-----------------------------------------------------------------------------
(* Lines of the two files *)

Mark(S, i) == Cardinality({j \in S : j.line <= i.line})

\* The number a line gets from a rewrite is a positive integer.
LEMMA MarkPositive ==
  ASSUME NEW S, IsFiniteSet(S), NEW i \in S, i.line \in Nat
  PROVE  Mark(S, i) \in Nat \ {0}
<1> DEFINE T == {j \in S : j.line <= i.line}
<1>1. IsFiniteSet(T)
  BY FS_Subset
<1>2. i \in T
  OBVIOUS
<1>3. Cardinality(T) \in Nat /\ Cardinality(T) # 0
  BY <1>1, <1>2, FS_CardinalityType, FS_EmptySet
<1> QED BY <1>3 DEF Mark

\* A renumbered file is finite, and its lines carry what the old lines carried.
LEMMA RenumberFinite ==
  ASSUME NEW S, IsFiniteSet(S)
  PROVE  IsFiniteSet(Renumber(S))
<1> DEFINE f == [i \in S |-> [i EXCEPT !.line = Mark(S, i)]]
<1>1. f \in Surjection(S, Renumber(S))
  BY DEF Surjection, Renumber, Mark
<1> QED BY <1>1, FS_Surjection

LEMMA RenumberIntents ==
  ASSUME NEW S, IsFiniteSet(S), S \subseteq Intent
  PROVE  /\ Renumber(S) \subseteq Intent
         /\ \A i \in S : \E j \in Renumber(S) : SameIntent(i, j) /\ j.attempts = i.attempts
         /\ \A j \in Renumber(S) : \E i \in S : SameIntent(j, i)
<1>1. \A i \in S : Mark(S, i) \in Nat \ {0}
  BY MarkPositive DEF Intent
<1>2. \A i \in S : [i EXCEPT !.line = Mark(S, i)] \in Intent
                   /\ SameIntent(i, [i EXCEPT !.line = Mark(S, i)])
                   /\ [i EXCEPT !.line = Mark(S, i)].attempts = i.attempts
  BY <1>1 DEF Intent, SameIntent
<1>3. Renumber(S) = {[i EXCEPT !.line = Mark(S, i)] : i \in S}
  BY DEF Renumber, Mark
<1> QED BY <1>2, <1>3 DEF SameIntent

LEMMA RenumberGraves ==
  ASSUME NEW S, IsFiniteSet(S), S \subseteq Grave
  PROVE  /\ Renumber(S) \subseteq Grave
         /\ \A i \in S : \E j \in Renumber(S) : SameIntent(i, j)
         /\ \A j \in Renumber(S) : \E i \in S : SameIntent(j, i)
<1>1. \A i \in S : Mark(S, i) \in Nat \ {0}
  BY MarkPositive DEF Grave
<1>2. \A i \in S : [i EXCEPT !.line = Mark(S, i)] \in Grave
                   /\ SameIntent(i, [i EXCEPT !.line = Mark(S, i)])
  BY <1>1 DEF Grave, SameIntent
<1>3. Renumber(S) = {[i EXCEPT !.line = Mark(S, i)] : i \in S}
  BY DEF Renumber, Mark
<1> QED BY <1>2, <1>3 DEF SameIntent

-----------------------------------------------------------------------------
(* Typing *)

LEMMA NewIntentTyped ==
  ASSUME NEW n \in Nat \ {0}, NEW q \in Paths, NEW v \in Nat, NEW a \in Nat
  PROVE  [line |-> n, path |-> q, ver |-> v, attempts |-> a] \in Intent
BY DEF Intent

LEMMA LetterTyped ==
  ASSUME TypeOK, NEW i \in Intent
  PROVE  LetterFor(i) \in Grave /\ SameIntent(i, LetterFor(i))
<1>1. Cardinality(dead) \in Nat
  BY FS_CardinalityType DEF TypeOK, Typed
<1> QED BY <1>1 DEF LetterFor, NextLine, Grave, Intent, SameIntent

LEMMA ReleaseTyped ==
  ASSUME Release
  PROVE  lock' \in Procs \cup {NoProc} /\ todo' \subseteq Intent /\ IsFiniteSet(todo')
         /\ kept' \subseteq Intent /\ IsFiniteSet(kept')
BY FS_EmptySet DEF Release

LEMMA FinishTyped ==
  ASSUME TypeOK, NEW p \in Procs, Finish(p)
  PROVE  pc' \in [Procs -> PCs] /\ job' \in [Procs -> Job]
BY DEF TypeOK, Typed, Finish, GoTo, PCs, NoJob, Job, AllCommands

LEMMA AfterFlushTyped ==
  ASSUME TypeOK, NEW p \in Procs, AfterFlush(p)
  PROVE  pc' \in [Procs -> PCs] /\ job' \in [Procs -> Job]
BY FinishTyped DEF AfterFlush, TypeOK, Typed, GoTo, PCs

\* The intents of the file a producer writes.
CoalescedWith(q, v) ==
  {i \in pending : i.path # q} \cup
    {[line |-> NextLine(pending), path |-> q, ver |-> v, attempts |-> 0]}

LEMMA CoalescedTyped ==
  ASSUME TypeOK, NEW q \in Paths, NEW v \in Nat
  PROVE  CoalescedWith(q, v) \subseteq Intent /\ IsFiniteSet(CoalescedWith(q, v))
<1>1. NextLine(pending) \in Nat \ {0}
  BY FS_CardinalityType DEF TypeOK, Typed, NextLine
<1>2. IsFiniteSet({i \in pending : i.path # q})
  BY FS_Subset DEF TypeOK, Typed
<1>3. IsFiniteSet(CoalescedWith(q, v))
  BY <1>2, FS_AddElement DEF CoalescedWith
<1> QED BY <1>1, <1>3, NewIntentTyped DEF TypeOK, Typed, CoalescedWith

\* What that file covers: every other path as before, and the producer's.
LEMMA CoalescedCovers ==
  ASSUME NEW q, NEW v
  PROVE  /\ \A i \in pending : i.path # q => i \in CoalescedWith(q, v)
         /\ \A i \in CoalescedWith(q, v) : i \in pending \/ (i.path = q /\ i.ver = v)
         /\ \E i \in CoalescedWith(q, v) : i.path = q
<1> DEFINE n == [line |-> NextLine(pending), path |-> q, ver |-> v, attempts |-> 0]
<1>1. CoalescedWith(q, v) = {i \in pending : i.path # q} \cup {n}
  BY DEF CoalescedWith
<1>2. n.path = q /\ n.ver = v
  OBVIOUS
<1>3. \A i \in CoalescedWith(q, v) : i \in pending \/ i = n
  BY <1>1
<1>4. \A i \in pending : i.path # q => i \in CoalescedWith(q, v)
  BY <1>1
<1>5. n \in CoalescedWith(q, v)
  BY <1>1
<1>6. \A i \in CoalescedWith(q, v) : i \in pending \/ (i.path = q /\ i.ver = v)
  BY <1>2, <1>3
<1>7. \E i \in CoalescedWith(q, v) : i.path = q
  BY <1>2, <1>5
<1> QED BY <1>4, <1>6, <1>7

\* The intents a retry appends, and the file it writes.
Revived(q) ==
  {[line |-> Cardinality(pending) + d.line, path |-> d.path, ver |-> d.ver, attempts |-> 0] :
     d \in Chosen(q)}

LEMMA RevivedTyped ==
  ASSUME TypeOK, NEW q
  PROVE  Revived(q) \subseteq Intent /\ IsFiniteSet(Revived(q))
<1> DEFINE new(d) == [line |-> Cardinality(pending) + d.line, path |-> d.path,
                      ver |-> d.ver, attempts |-> 0]
           f == [d \in Chosen(q) |-> new(d)]
<1>1. Cardinality(pending) \in Nat
  BY FS_CardinalityType DEF TypeOK, Typed
<1>2. Chosen(q) \subseteq dead
  BY DEF Chosen
<1>3. \A d \in Chosen(q) : new(d) \in Intent
  BY <1>1, <1>2 DEF TypeOK, Typed, Grave, Intent
<1>4. IsFiniteSet(Chosen(q))
  BY <1>2, FS_Subset DEF TypeOK, Typed
<1>5. f \in Surjection(Chosen(q), Revived(q))
  BY DEF Surjection, Revived
<1> QED BY <1>3, <1>4, <1>5, FS_Surjection DEF Revived

LEMMA TypeInit == Init => TypeOK
<1> SUFFICES ASSUME Init PROVE TypeOK
  OBVIOUS
<1>1. NoJob \in Job
  BY DEF NoJob, Job, AllCommands
<1>2. IsFiniteSet({})
  BY FS_EmptySet
<1>3. pc \in [Procs -> PCs] /\ job \in [Procs -> Job]
  BY <1>1 DEF Init, PCs
<1> QED BY <1>2, <1>3 DEF Init, TypeOK, Typed, ProducersNamed


LEMMA TypedStep == TypeOK /\ [Next]_vars => Typed'
<1> USE DEF disk, graves, memory, history
<1> SUFFICES ASSUME TypeOK, [Next]_vars PROVE Typed'
  OBVIOUS
<1> USE FinishTyped, AfterFlushTyped, ReleaseTyped
<1>1. ASSUME NEW p \in Procs, NEW cmd \in AllCommands, NEW q \in Paths, WriteArtifact(p, cmd, q)
      PROVE  Typed'
  <2>1. pc' \in [Procs -> PCs] /\ job' \in [Procs -> Job]
    BY <1>1 DEF TypeOK, Typed, WriteArtifact, GoTo, PCs, Job, AllCommands
  <2>2. artifact' \in [Paths -> Nat]
    BY <1>1 DEF TypeOK, Typed, WriteArtifact
  <2> QED BY <1>1, <2>1, <2>2 DEF TypeOK, Typed, WriteArtifact
<1>2. ASSUME NEW p \in Procs, RecordIntent(p) PROVE Typed'
  <2>0. job[p].path \in Paths
    BY <1>2 DEF TypeOK, ProducersNamed, RecordIntent
  <2>1. pending' = Renumber(CoalescedWith(job[p].path, job[p].ver)) /\ job[p].ver \in Nat
    BY <1>2 DEF TypeOK, Typed, RecordIntent, CoalescedWith, Job
  <2>2. pending' \subseteq Intent /\ IsFiniteSet(pending')
    BY <1>2, <2>0, <2>1, CoalescedTyped, RenumberIntents, RenumberFinite
  <2>3. pc' \in [Procs -> PCs] /\ job' \in [Procs -> Job]
    BY <1>2 DEF TypeOK, Typed, RecordIntent, GoTo, PCs
  <2> QED BY <1>2, <2>2, <2>3 DEF TypeOK, Typed, RecordIntent
<1>3. ASSUME NEW p \in Procs, RecordUnavailable(p) PROVE Typed'
  BY <1>3 DEF TypeOK, Typed, ProducersNamed, RecordUnavailable, Fault
<1>4. ASSUME NEW p \in Procs, AbortComplete(p) PROVE Typed'
  BY <1>4 DEF TypeOK, Typed, ProducersNamed, AbortComplete, Fault
<1>5. ASSUME NEW p \in Procs, StartFlush(p) PROVE Typed'
  <2>1. pc' \in [Procs -> PCs] /\ job' \in [Procs -> Job]
    BY <1>5 DEF TypeOK, Typed, StartFlush, GoTo, PCs, Job, NoJob, AllCommands
  <2> QED BY <1>5, <2>1 DEF TypeOK, Typed, StartFlush
<1>6. ASSUME NEW p \in Procs, NEW q \in Paths, StartGate(p, q) PROVE Typed'
  <2>1. pc' \in [Procs -> PCs] /\ job' \in [Procs -> Job]
    BY <1>6 DEF TypeOK, Typed, StartGate, GoTo, PCs, Job, NoJob, AllCommands
  <2> QED BY <1>6, <2>1 DEF TypeOK, Typed, StartGate
<1>7. ASSUME NEW p \in Procs, InlineCheck(p) PROVE Typed'
  <2>1. pc' \in [Procs -> PCs] /\ job' \in [Procs -> Job]
    BY <1>7 DEF TypeOK, Typed, InlineCheck, GoTo, PCs
  <2> QED BY <1>7, <2>1 DEF TypeOK, Typed, InlineCheck
<1>8. ASSUME NEW p \in Procs, BeginFlush(p) PROVE Typed'
  BY <1>8, FS_EmptySet DEF TypeOK, Typed, BeginFlush, Take, GoTo, PCs
<1>9. ASSUME NEW p \in Procs, NEW i \in todo, SkipStranger(p, i) PROVE Typed'
  <2>1. IsFiniteSet(todo \ {i}) /\ IsFiniteSet(kept \cup {i})
    BY FS_RemoveElement, FS_AddElement DEF TypeOK, Typed
  <2> QED BY <1>9, <2>1 DEF TypeOK, Typed, SkipStranger
<1>10. ASSUME NEW p \in Procs, NEW i \in todo, CommitIntent(p, i) PROVE Typed'
  <2>1. IsFiniteSet(todo \ {i})
    BY FS_RemoveElement DEF TypeOK, Typed
  <2>2. i.path \in Paths
    BY DEF TypeOK, Typed, Intent
  <2> QED BY <1>10, <2>1, <2>2 DEF TypeOK, Typed, CommitIntent
<1>11. ASSUME NEW p \in Procs, NEW i \in todo, RefuseIgnored(p, i) PROVE Typed'
  <2> DEFINE r == [i EXCEPT !.attempts = MaxAttempts]
  <2>1. IsFiniteSet((todo \ {i}) \cup {r})
    BY FS_RemoveElement, FS_AddElement DEF TypeOK, Typed
  <2>2. r \in Intent
    BY ConstantsOK DEF TypeOK, Typed, Intent
  <2>3. pc' \in [Procs -> PCs]
    BY <1>11 DEF TypeOK, Typed, RefuseIgnored, GoTo, PCs
  <2> QED BY <1>11, <2>1, <2>2, <2>3 DEF TypeOK, Typed, RefuseIgnored
<1>12. ASSUME NEW p \in Procs, NEW i \in todo, FailIntent(p, i) PROVE Typed'
  <2> DEFINE r == [i EXCEPT !.attempts = @ + 1]
  <2>1. IsFiniteSet((todo \ {i}) \cup {r}) /\ IsFiniteSet(todo \ {i}) /\ IsFiniteSet(kept \cup {r})
    BY FS_RemoveElement, FS_AddElement DEF TypeOK, Typed
  <2>2. r \in Intent
    BY DEF TypeOK, Typed, Intent
  <2>3. pc' \in [Procs -> PCs]
    BY <1>12 DEF TypeOK, Typed, FailIntent, GoTo, PCs
  <2>4. /\ todo' \in {(todo \ {i}) \cup {r}, todo \ {i}}
        /\ kept' \in {kept, kept \cup {r}}
    BY <1>12 DEF FailIntent
  <2>5. todo' \subseteq Intent /\ IsFiniteSet(todo') /\ kept' \subseteq Intent /\ IsFiniteSet(kept')
    BY <2>1, <2>2, <2>4 DEF TypeOK, Typed
  <2> QED BY <1>12, <2>3, <2>5 DEF TypeOK, Typed, FailIntent
<1>13. ASSUME NEW p \in Procs, NEW i \in todo, Bury(p, i) PROVE Typed'
  <2>1. IsFiniteSet(todo \ {i}) /\ IsFiniteSet(dead \cup {LetterFor(i)})
    BY FS_RemoveElement, FS_AddElement DEF TypeOK, Typed
  <2>2. LetterFor(i) \in Grave
    BY LetterTyped DEF TypeOK, Typed
  <2>3. pc' \in [Procs -> PCs]
    BY <1>13 DEF TypeOK, Typed, Bury, GoTo, PCs
  <2> QED BY <1>13, <2>1, <2>2, <2>3 DEF TypeOK, Typed, Bury, Appended
<1>30. ASSUME NEW i \in todo, HalfAppended(i)
       PROVE  dead' \subseteq Grave /\ IsFiniteSet(dead') /\ torn' \in BOOLEAN
  <2>1. IsFiniteSet(dead \cup {LetterFor(i)}) /\ LetterFor(i) \in Grave
    BY FS_AddElement, LetterTyped DEF TypeOK, Typed
  <2> QED BY <1>30, <2>1 DEF TypeOK, Typed, HalfAppended
<1>14. ASSUME NEW p \in Procs, NEW i \in todo, BuryFails(p, i) PROVE Typed'
  <2>1. IsFiniteSet(kept \cup todo) /\ kept \cup todo \subseteq Intent
    BY FS_Union DEF TypeOK, Typed
  <2>2. pending' \subseteq Intent /\ IsFiniteSet(pending')
    BY <1>14, <2>1, RenumberIntents, RenumberFinite DEF TypeOK, Typed, BuryFails
  <2> QED BY <1>14, <1>30, <2>2 DEF TypeOK, Typed, BuryFails, Fault
<1>15. ASSUME NEW p \in Procs, Rewrite(p) PROVE Typed'
  <2>1. pending' \subseteq Intent /\ IsFiniteSet(pending')
    BY <1>15, RenumberIntents, RenumberFinite DEF TypeOK, Typed, Rewrite
  <2> QED BY <1>15, <2>1 DEF TypeOK, Typed, Rewrite
<1>16. ASSUME NEW p \in Procs, RewriteFails(p) PROVE Typed'
  BY <1>16 DEF TypeOK, Typed, RewriteFails, Fault
<1>17. ASSUME NEW p \in Procs, GateReadPending(p) PROVE Typed'
  <2>1. {i.ver : i \in Own(pending, job[p].path) \cup Own(dead, job[p].path)} \subseteq Nat
    BY DEF TypeOK, Typed, Own, Intent, Grave
  <2>2. standing' \in [Procs -> SUBSET Nat]
    BY <1>17, <2>1 DEF TypeOK, Typed, GateReadPending
  <2>3. pc' \in [Procs -> PCs] /\ job' \in [Procs -> Job]
    BY <1>17 DEF TypeOK, Typed, GateReadPending, GoTo, PCs
  <2> QED BY <1>17, <2>2, <2>3 DEF TypeOK, Typed, GateReadPending
<1>18. ASSUME NEW p \in Procs, GateReadDead(p) PROVE Typed'
  <2>1. pc' \in [Procs -> PCs] /\ job' \in [Procs -> Job]
    BY <1>18 DEF TypeOK, Typed, GateReadDead, GoTo, PCs
  <2> QED BY <1>18, <2>1 DEF TypeOK, Typed, GateReadDead
<1>19. ASSUME NEW p \in Procs, GateReturn(p) PROVE Typed'
  <2>1. standing' \in [Procs -> SUBSET Nat]
    BY <1>19 DEF TypeOK, Typed, GateReturn
  <2> QED BY <1>19, <2>1 DEF TypeOK, Typed, GateReturn
<1>20. ASSUME NEW p \in Procs, NEW q \in Paths \cup {NoPath}, RetryRequeue(p, q) PROVE Typed'
  <2>1. pending' = Renumber(pending \cup Revived(q))
    BY <1>20 DEF RetryRequeue, Revived
  <2>2. pending \cup Revived(q) \subseteq Intent /\ IsFiniteSet(pending \cup Revived(q))
    BY RevivedTyped, FS_Union DEF TypeOK, Typed
  <2>3. pending' \subseteq Intent /\ IsFiniteSet(pending')
    BY <2>1, <2>2, RenumberIntents, RenumberFinite
  <2>4. pc' \in [Procs -> PCs] /\ job' \in [Procs -> Job]
    BY <1>20 DEF TypeOK, Typed, RetryRequeue, GoTo, PCs, Job, AllCommands
  <2> QED BY <1>20, <2>3, <2>4 DEF TypeOK, Typed, RetryRequeue, Take
<1>21. ASSUME NEW S, S \subseteq dead, RewriteDead(S)
       PROVE  dead' \subseteq Grave /\ IsFiniteSet(dead') /\ torn' \in BOOLEAN
  <2>1. IsFiniteSet(S) /\ S \subseteq Grave
    BY <1>21, FS_Subset DEF TypeOK, Typed
  <2> QED BY <1>21, <2>1, RenumberGraves, RenumberFinite DEF RewriteDead
<1>22. ASSUME NEW p \in Procs, RetryDrop(p) PROVE Typed'
  <2>1. dead' \subseteq Grave /\ IsFiniteSet(dead') /\ torn' \in BOOLEAN
    BY <1>21, <1>22 DEF RetryDrop
  <2> QED BY <1>22, <2>1 DEF TypeOK, Typed, RetryDrop
<1>23. ASSUME NEW p \in Procs, RetryDropFails(p) PROVE Typed'
  BY <1>23 DEF TypeOK, Typed, RetryDropFails, Fault
<1>24. ASSUME NEW p \in Procs, NEW q \in Paths \cup {NoPath}, ClearDead(p, q) PROVE Typed'
  <2>1. dead' \subseteq Grave /\ IsFiniteSet(dead') /\ torn' \in BOOLEAN
    BY <1>21, <1>24 DEF ClearDead
  <2>2. PathsOf(Chosen(q)) \subseteq Paths
    BY DEF TypeOK, Typed, PathsOf, Chosen, Grave
  <2> QED BY <1>24, <2>1, <2>2 DEF TypeOK, Typed, ClearDead
<1>25. ASSUME NEW q \in Paths, ManualCommit(q) PROVE Typed'
  BY <1>25 DEF TypeOK, Typed, ManualCommit
<1>26. ASSUME NEW p \in Procs, Die(p)
       PROVE  /\ faults' \in Nat /\ excused' \subseteq Paths /\ standing' \in [Procs -> SUBSET Nat]
              /\ pc' \in [Procs -> PCs] /\ job' \in [Procs -> Job]
              /\ lock' \in Procs \cup {NoProc} /\ todo' \subseteq Intent /\ IsFiniteSet(todo')
              /\ kept' \subseteq Intent /\ IsFiniteSet(kept')
  <2>1. standing' \in [Procs -> SUBSET Nat]
    BY <1>26 DEF TypeOK, Typed, Die
  <2> QED BY <1>26, <2>1 DEF TypeOK, Typed, ProducersNamed, Die, Fault
<1>27. ASSUME NEW p \in Procs, Crash(p) PROVE Typed'
  BY <1>26, <1>27 DEF TypeOK, Typed, Crash
<1>28. ASSUME NEW p \in Procs, NEW i \in todo, CrashWhileBurying(p, i) PROVE Typed'
  BY <1>26, <1>28, <1>30 DEF TypeOK, Typed, CrashWhileBurying
<1>29. CASE UNCHANGED vars
  BY <1>29 DEF TypeOK, Typed, vars
<1> QED
  BY <1>1, <1>2, <1>3, <1>4, <1>5, <1>6, <1>7, <1>8, <1>9, <1>10, <1>11, <1>12, <1>13, <1>14,
     <1>15, <1>16, <1>17, <1>18, <1>19, <1>20, <1>22, <1>23, <1>24, <1>25, <1>27, <1>28, <1>29
     DEF Next, Start, Continue, Fail, FlushStep, GateStep, RetryStep

\* Only WriteArtifact makes a process a producer; a producer's job does not
\* change while it is one.
LEMMA ProducersStay ==
  ASSUME TypeOK, [Next]_vars, NEW r \in Procs, pc'[r] = "wrote"
  PROVE  \/ \E cmd \in AllCommands, q \in Paths : WriteArtifact(r, cmd, q)
         \/ pc[r] = "wrote" /\ job'[r] = job[r]
<1> DEFINE Goal == \/ \E cmd \in AllCommands, q \in Paths : WriteArtifact(r, cmd, q)
                   \/ pc[r] = "wrote" /\ job'[r] = job[r]
<1>0. pc \in [Procs -> PCs] /\ job \in [Procs -> Job]
  BY DEF TypeOK, Typed
<1>1. ASSUME NEW p \in Procs, NEW cmd \in AllCommands, NEW q \in Paths, WriteArtifact(p, cmd, q)
      PROVE  Goal
  BY <1>0, <1>1 DEF GoTo, WriteArtifact
<1>2. ASSUME NEW p \in Procs, Finish(p) PROVE Goal
  BY <1>0, <1>2 DEF GoTo, Finish
<1>3. ASSUME NEW p \in Procs, AfterFlush(p) PROVE Goal
  BY <1>0, <1>2, <1>3 DEF GoTo, AfterFlush
<1>4. ASSUME NEW p \in Procs, NEW q,
             \/ StartFlush(p) \/ StartGate(p, q) \/ BeginFlush(p)
             \/ RetryRequeue(p, q) \/ ClearDead(p, q)
      PROVE  Goal
  BY <1>0, <1>4 DEF GoTo, StartFlush, StartGate, BeginFlush, RetryRequeue, ClearDead
<1>5. ASSUME NEW p \in Procs, NEW i \in todo,
             \/ SkipStranger(p, i) \/ CommitIntent(p, i) \/ RefuseIgnored(p, i)
             \/ FailIntent(p, i) \/ Bury(p, i) \/ BuryFails(p, i)
      PROVE  Goal
  BY <1>0, <1>3, <1>5
     DEF GoTo, SkipStranger, CommitIntent, RefuseIgnored, FailIntent, Bury, BuryFails
<1>6. ASSUME NEW p \in Procs,
             \/ RecordIntent(p) \/ RecordUnavailable(p) \/ AbortComplete(p)
             \/ InlineCheck(p) \/ GateStep(p)
      PROVE  Goal
  BY <1>0, <1>2, <1>3, <1>6
     DEF GoTo, RecordIntent, RecordUnavailable, AbortComplete, InlineCheck,
         GateStep, GateReadPending, GateReadDead, GateReturn
<1>7. ASSUME NEW p \in Procs,
             \/ Rewrite(p) \/ RewriteFails(p) \/ RetryStep(p)
      PROVE  Goal
  BY <1>0, <1>2, <1>3, <1>7 DEF GoTo, Rewrite, RewriteFails, RetryStep, RetryDrop, RetryDropFails
<1>8. ASSUME NEW p \in Procs, Fail(p) PROVE Goal
  BY <1>0, <1>2, <1>8 DEF GoTo, Fail, Crash, CrashWhileBurying, Die
<1>9. ASSUME NEW q \in Paths, ManualCommit(q) PROVE Goal
  BY <1>0, <1>9 DEF GoTo, ManualCommit
<1>10. ASSUME UNCHANGED vars PROVE Goal
  BY <1>0, <1>10 DEF GoTo, vars
<1> HIDE DEF Goal
<1>11. ASSUME NEW p \in Procs, Start(p) PROVE Goal
  BY <1>1, <1>4, <1>11 DEF Start
<1>12. ASSUME NEW p \in Procs, Continue(p) PROVE Goal
  BY <1>4, <1>5, <1>6, <1>7, <1>12 DEF Continue, FlushStep
<1>13. Goal
  BY <1>8, <1>9, <1>10, <1>11, <1>12 DEF Next
<1> QED BY <1>13 DEF Goal

LEMMA ProducersNamedStep == TypeOK /\ [Next]_vars => ProducersNamed'
<1> SUFFICES ASSUME TypeOK, [Next]_vars, NEW r \in Procs, pc'[r] = "wrote"
             PROVE  job'[r].path \in Paths
  BY DEF ProducersNamed
<1>1. ASSUME NEW cmd \in AllCommands, NEW q \in Paths, WriteArtifact(r, cmd, q)
      PROVE  job'[r].path \in Paths
  BY <1>1 DEF WriteArtifact, TypeOK, Typed
<1>2. CASE pc[r] = "wrote" /\ job'[r] = job[r]
  BY <1>2 DEF TypeOK, ProducersNamed
<1> QED BY <1>1, <1>2, ProducersStay

LEMMA TypeStep == TypeOK /\ [Next]_vars => TypeOK'
BY TypedStep, ProducersNamedStep DEF TypeOK

\* Every reachable state of the outbox is well typed.
THEOREM TypeCorrect == Spec => []TypeOK
<1>1. Init => TypeOK
  BY TypeInit
<1>2. TypeOK /\ [Next]_vars => TypeOK'
  BY TypeStep
<1> QED BY <1>1, <1>2, PTL DEF Spec

-----------------------------------------------------------------------------
(* The inductive invariant *)

Holding == {"flushing", "burying", "requeued"}

LEMMA LockHeldStep ==
  ASSUME TypeOK, LockHeld, [Next]_vars
  PROVE  LockHeld'
<1> DEFINE Goal == LockHeld'
<1>0. /\ pc \in [Procs -> PCs] /\ job \in [Procs -> Job]
      /\ lock \in Procs \cup {NoProc} /\ NoProc \notin Procs
      /\ \A p \in Procs : lock = p <=> pc[p] \in Holding
  BY ConstantsOK DEF TypeOK, Typed, LockHeld, Holding
<1>1. ASSUME NEW p \in Procs, NEW step \in PCs \ Holding, GoTo(p, step), UNCHANGED lock,
             pc[p] \notin Holding
      PROVE  Goal
  BY <1>0, <1>1 DEF GoTo, LockHeld, Holding
<1>2. ASSUME NEW p \in Procs, Finish(p), UNCHANGED lock, pc[p] \notin Holding PROVE Goal
  BY <1>1, <1>2 DEF Finish, PCs, Holding
<1>3. ASSUME NEW p \in Procs, NEW step \in PCs \ Holding, GoTo(p, step), lock' = NoProc,
             pc[p] \in Holding
      PROVE  Goal
  BY <1>0, <1>3 DEF GoTo, LockHeld, Holding
<1>4. ASSUME NEW p \in Procs, Finish(p) \/ AfterFlush(p), Release, pc[p] \in Holding PROVE Goal
  BY <1>3, <1>4 DEF Finish, AfterFlush, Release, PCs, Holding
<1>5. ASSUME NEW p \in Procs, NEW step \in Holding, GoTo(p, step), UNCHANGED lock,
             pc[p] \in Holding
      PROVE  Goal
  BY <1>0, <1>5 DEF GoTo, LockHeld, Holding
<1>6. ASSUME NEW p \in Procs, NEW step \in Holding, GoTo(p, step), Take(p) PROVE Goal
  BY <1>0, <1>6 DEF GoTo, Take, LockHeld, Holding
<1>7. ASSUME UNCHANGED <<pc, lock>> PROVE Goal
  BY <1>0, <1>7 DEF LockHeld, Holding
<1> HIDE DEF Goal
<1>10. ASSUME NEW p \in Procs, Start(p) PROVE Goal
  <2>1. ASSUME NEW q \in Paths, NEW cmd \in AllCommands, WriteArtifact(p, cmd, q) PROVE Goal
    BY <1>1, <2>1 DEF WriteArtifact, PCs, Holding
  <2>2. ASSUME StartFlush(p) PROVE Goal
    BY <1>1, <2>2 DEF StartFlush, PCs, Holding
  <2>3. ASSUME NEW q \in Paths, StartGate(p, q) PROVE Goal
    BY <1>1, <2>3 DEF StartGate, PCs, Holding
  <2>4. ASSUME NEW q, RetryRequeue(p, q) PROVE Goal
    BY <1>6, <2>4 DEF RetryRequeue, Holding
  <2>5. ASSUME NEW q, ClearDead(p, q) PROVE Goal
    BY <1>7, <2>5 DEF ClearDead
  <2> QED BY <1>10, <2>1, <2>2, <2>3, <2>4, <2>5 DEF Start
<1>11. ASSUME NEW p \in Procs, FlushStep(p) PROVE Goal
  <2>1. ASSUME BeginFlush(p) PROVE Goal
    BY <1>6, <2>1 DEF BeginFlush, Holding
  <2>2. ASSUME Rewrite(p) \/ RewriteFails(p) PROVE Goal
    BY <1>4, <2>2 DEF Rewrite, RewriteFails, Holding
  <2>3. ASSUME NEW i \in todo, SkipStranger(p, i) \/ CommitIntent(p, i) PROVE Goal
    BY <1>7, <2>3 DEF SkipStranger, CommitIntent
  <2>4. ASSUME NEW i \in todo, RefuseIgnored(p, i) \/ FailIntent(p, i) \/ Bury(p, i) PROVE Goal
    BY <1>5, <1>7, <2>4 DEF RefuseIgnored, FailIntent, Bury, Holding
  <2>5. ASSUME NEW i \in todo, BuryFails(p, i) PROVE Goal
    BY <1>4, <2>5 DEF BuryFails, Holding
  <2> QED BY <1>11, <2>1, <2>2, <2>3, <2>4, <2>5 DEF FlushStep
<1>12. ASSUME NEW p \in Procs, GateStep(p) PROVE Goal
  BY <1>1, <1>2, <1>12 DEF GateStep, GateReadPending, GateReadDead, GateReturn, PCs, Holding
<1>13. ASSUME NEW p \in Procs, RetryStep(p) PROVE Goal
  BY <1>4, <1>13 DEF RetryStep, RetryDrop, RetryDropFails, Holding
<1>14. ASSUME NEW p \in Procs, RecordIntent(p) \/ InlineCheck(p) PROVE Goal
  BY <1>1, <1>2, <1>14 DEF RecordIntent, InlineCheck, AfterFlush, PCs, Holding
<1>15. ASSUME NEW p \in Procs, RecordUnavailable(p) \/ AbortComplete(p) PROVE Goal
  BY <1>2, <1>15 DEF RecordUnavailable, AbortComplete, Holding
<1>16. ASSUME NEW p \in Procs, Die(p) PROVE Goal
  BY <1>0, <1>2, <1>4, <1>16 DEF Die
<1>17. ASSUME NEW p \in Procs, Fail(p) PROVE Goal
  BY <1>16, <1>17 DEF Fail, Crash, CrashWhileBurying
<1>18. ASSUME NEW q \in Paths, ManualCommit(q) PROVE Goal
  BY <1>7, <1>18 DEF ManualCommit
<1>19. ASSUME UNCHANGED vars PROVE Goal
  BY <1>7, <1>19 DEF vars
<1>20. ASSUME NEW p \in Procs, Continue(p) PROVE Goal
  BY <1>11, <1>12, <1>13, <1>14, <1>15, <1>20 DEF Continue
<1>21. Goal
  BY <1>10, <1>17, <1>18, <1>19, <1>20 DEF Next
<1> QED BY <1>21 DEF Goal


\* What the steps below must re-establish, typing and the lock aside.
Rest == VersionsReached /\ SnapshotQueued /\ RetryQueued /\ FlushAccounts /\ NoTransitionForgotten

Flushing(p) == pc[p] \in {"flushing", "burying"}

\* Steps that leave the files alone, keep the intents in the holder's memory
\* but for their counts and places, and at most end a flush, a retry or, with
\* an excuse, a producer.
LEMMA QuietStep ==
  ASSUME IInv,
         UNCHANGED <<artifact, head, pending, dead>>,
         \A j \in todo' \cup kept' : \E i \in todo \cup kept : SameIntent(i, j),
         excused \subseteq excused',
         \A r \in Procs : Flushing(r)' =>
           /\ Flushing(r)
           /\ \A i \in todo \cup kept : \E j \in todo' \cup kept' : SameIntent(i, j),
         \A r \in Procs : pc'[r] = "requeued" => pc[r] = "requeued" /\ job'[r] = job[r],
         \A r \in Procs : pc'[r] = "wrote" => pc[r] = "wrote" /\ job'[r] = job[r],
         \A r \in Procs : pc[r] = "wrote" =>
            pc'[r] = "wrote" \/ job[r].path \in excused'
  PROVE  Rest'
<1>1. \A q : InFlight(q) => InFlight(q)' \/ q \in excused'
  BY DEF InFlight
<1>2. VersionsReached'
  BY DEF IInv, VersionsReached, SameIntent
<1>3. SnapshotQueued'
  BY DEF IInv, SnapshotQueued, SameIntent, Flushing
<1>4. RetryQueued'
  BY DEF IInv, RetryQueued, Chosen, SameIntent
<1>5. FlushAccounts'
  <2> SUFFICES ASSUME NEW r \in Procs, Flushing(r)', NEW i \in pending PROVE Accounted(i)'
    BY DEF FlushAccounts, Flushing
  <2>1. Accounted(i)
    BY DEF IInv, FlushAccounts, Flushing
  <2>2. CASE \E j \in todo \cup kept : SameIntent(i, j)
    BY <2>2 DEF Accounted, SameIntent
  <2>3. CASE ~\E j \in todo \cup kept : SameIntent(i, j)
    BY <1>1, <2>1, <2>3 DEF Accounted, Dirty
  <2> QED BY <2>2, <2>3
<1>6. NoTransitionForgotten'
  BY <1>1 DEF IInv, NoTransitionForgotten, Covered, Dirty, PathsOf
<1> QED BY <1>2, <1>3, <1>4, <1>5, <1>6 DEF Rest

\* A producer's step on the artifact: it is in flight, or excused.
LEMMA WriteStep ==
  ASSUME IInv, NEW q \in Paths,
         artifact' = [artifact EXCEPT ![q] = @ + 1],
         UNCHANGED <<head, pending, dead, todo, kept>>,
         excused \subseteq excused',
         InFlight(q)' \/ q \in excused',
         \A r \in Procs : Flushing(r)' => Flushing(r),
         \A r \in Procs : pc'[r] = "requeued" => pc[r] = "requeued" /\ job'[r] = job[r],
         \A r \in Procs : pc'[r] = "wrote" =>
           \/ pc[r] = "wrote" /\ job'[r] = job[r]
           \/ job'[r].path = q /\ job'[r].ver = artifact[q] + 1,
         \A r \in Procs : pc[r] = "wrote" =>
           (pc'[r] = "wrote" /\ job'[r] = job[r]) \/ job[r].path \in excused'
  PROVE  Rest'
<1>1. \A x : InFlight(x) => InFlight(x)' \/ x \in excused'
  BY DEF InFlight
<1>2. /\ artifact \in [Paths -> Nat] /\ head \in [Paths -> Nat]
      /\ pending \cup todo \cup kept \subseteq Intent
      /\ dead \subseteq Grave /\ job \in [Procs -> Job]
  BY DEF IInv, TypeOK, Typed
<1>3. \A x \in Paths : artifact'[x] >= artifact[x] /\ (x # q => artifact'[x] = artifact[x])
  BY <1>2
<1>4. VersionsReached'
  <2>1. \A x \in Paths : head'[x] <= artifact'[x]
    BY <1>2, <1>3 DEF IInv, VersionsReached
  <2>2. \A i \in pending' \cup todo' \cup kept' : i.ver <= artifact'[i.path]
    BY <1>2, <1>3 DEF IInv, VersionsReached, Intent
  <2>4. \A d \in dead' : d.ver <= artifact'[d.path]
    BY <1>2, <1>3 DEF IInv, VersionsReached, Grave
  <2>3. ASSUME NEW r \in Procs, pc'[r] = "wrote"
        PROVE  job'[r].ver <= artifact'[job'[r].path]
    <3>1. CASE pc[r] = "wrote" /\ job'[r] = job[r]
      BY <1>2, <1>3, <3>1 DEF IInv, VersionsReached, TypeOK, ProducersNamed, Job
    <3>2. CASE job'[r].path = q /\ job'[r].ver = artifact[q] + 1
      BY <1>2, <3>2
    <3> QED BY <2>3, <3>1, <3>2
  <2> QED BY <2>1, <2>2, <2>3, <2>4 DEF VersionsReached
<1>5. SnapshotQueued'
  BY DEF IInv, SnapshotQueued, SameIntent, Flushing
<1>6. RetryQueued'
  BY DEF IInv, RetryQueued, Chosen, SameIntent
<1>7. \A x \in Paths : Dirty(x)' => Dirty(x) \/ x = q
  BY <1>3 DEF Dirty
<1>8. FlushAccounts'
  <2> SUFFICES ASSUME NEW r \in Procs, Flushing(r)', NEW i \in pending' PROVE Accounted(i)'
    BY DEF FlushAccounts, Flushing
  <2>1. Accounted(i) /\ i.path \in Paths
    BY <1>2 DEF IInv, FlushAccounts, Flushing, Intent
  <2> QED BY <1>1, <1>7, <2>1 DEF Accounted
<1>9. NoTransitionForgotten'
  BY <1>1, <1>7 DEF IInv, NoTransitionForgotten, Covered, PathsOf
<1> QED BY <1>4, <1>5, <1>6, <1>8, <1>9 DEF Rest

\* Nobody flushes or retries while the lock is free.
LEMMA FreeLock ==
  ASSUME IInv, lock = NoProc
  PROVE  \A r \in Procs : ~Flushing(r) /\ pc[r] # "requeued"
BY ConstantsOK DEF IInv, LockHeld, Flushing

\* The holder is alone.
LEMMA HolderAlone ==
  ASSUME IInv, NEW p \in Procs, lock = p, NEW r \in Procs, r # p
  PROVE  ~Flushing(r) /\ pc[r] # "requeued"
BY DEF IInv, LockHeld, Flushing


\* AppendCoalescingByRelPath: the new intent covers what it supersedes.
LEMMA RecordIntentStep ==
  ASSUME IInv, TypeOK', NEW p \in Procs, RecordIntent(p)
  PROVE  Rest'
<1> DEFINE q == job[p].path
           C == CoalescedWith(q, job[p].ver)
<1>0. /\ q \in Paths /\ job[p].ver \in Nat /\ pending \subseteq Intent
      /\ pc \in [Procs -> PCs] /\ job \in [Procs -> Job] /\ TypeOK
      /\ job[p].ver <= artifact[q]
  BY DEF IInv, TypeOK, Typed, ProducersNamed, RecordIntent, Job, VersionsReached
<1>1. pending' = Renumber(C)
  BY DEF RecordIntent, CoalescedWith
<1>2. C \subseteq Intent /\ IsFiniteSet(C)
  BY <1>0, CoalescedTyped
<1>3. /\ \A i \in C : \E j \in pending' : SameIntent(i, j)
      /\ \A j \in pending' : \E i \in C : SameIntent(j, i)
  BY <1>1, <1>2, RenumberIntents
<1>4. /\ \A i \in pending : i.path # q => i \in C
      /\ \A i \in C : i \in pending \/ (i.path = q /\ i.ver = job[p].ver)
      /\ \E i \in C : i.path = q
  BY CoalescedCovers
<1>5. UNCHANGED <<artifact, head, dead, todo, kept, lock>> /\ excused' = excused \ {q}
  BY DEF RecordIntent, disk, graves, memory
<1>6. \A r \in Procs : ~Flushing(r)' /\ pc'[r] # "requeued"
  BY <1>0, FreeLock DEF RecordIntent, GoTo, Finish, Flushing
<1>7. \A r \in Procs : pc'[r] = "wrote" => pc[r] = "wrote" /\ job'[r] = job[r]
  BY <1>0 DEF RecordIntent, GoTo, Finish
<1>8. \A x \in Paths : InFlight(x) => InFlight(x)' \/ x = q
  BY <1>0 DEF RecordIntent, GoTo, Finish, InFlight
<1>10. VersionsReached'
  BY <1>0, <1>3, <1>4, <1>5, <1>7 DEF IInv, VersionsReached, SameIntent
<1>12. SnapshotQueued' /\ RetryQueued' /\ FlushAccounts'
  BY <1>6 DEF SnapshotQueued, RetryQueued, FlushAccounts, Flushing
<1>13. NoTransitionForgotten'
  <2> SUFFICES ASSUME NEW x \in Paths, Dirty(x)' PROVE Covered(x)' \/ x \in excused'
    BY DEF NoTransitionForgotten
  <2>1. CASE x = q
    BY <1>3, <1>4, <2>1 DEF Covered, PathsOf, SameIntent
  <2>2. CASE x # q
    <3>1. Covered(x) \/ x \in excused
      BY <1>5 DEF IInv, NoTransitionForgotten, Dirty
    <3>2. x \in PathsOf(pending) => x \in PathsOf(pending')
      BY <1>3, <1>4, <2>2 DEF PathsOf, SameIntent
    <3> QED BY <1>5, <1>8, <2>2, <3>1, <3>2 DEF Covered
  <2> QED BY <2>1, <2>2
<1> QED BY <1>10, <1>12, <1>13 DEF Rest

\* Steps of a flush or a gate that touch no file.
LEMMA CountStep ==
  ASSUME IInv, NEW p \in Procs, NEW i \in todo,
         SkipStranger(p, i) \/ RefuseIgnored(p, i) \/ FailIntent(p, i)
  PROVE  Rest'
<1>1. /\ UNCHANGED <<artifact, head, pending, dead, excused, job>>
      /\ Flushing(p)
      /\ \/ UNCHANGED pc
         \/ GoTo(p, "burying")
  BY DEF SkipStranger, RefuseIgnored, FailIntent, disk, graves, history, Flushing
<1>2. \E a : \/ todo' = todo \ {i} /\ kept' = kept \cup {[i EXCEPT !.attempts = a]}
             \/ todo' = (todo \ {i}) \cup {[i EXCEPT !.attempts = a]} /\ kept' = kept
  <2>1. i \in Intent
    BY DEF IInv, TypeOK, Typed
  <2>2. [i EXCEPT !.attempts = i.attempts] = i
    BY <2>1 DEF Intent
  <2> QED BY <2>2 DEF SkipStranger, RefuseIgnored, FailIntent
<1>3. \A a : SameIntent(i, [i EXCEPT !.attempts = a])
  <2>1. i \in Intent
    BY DEF IInv, TypeOK, Typed
  <2> QED BY <2>1 DEF SameIntent, Intent
<1>4. \A j : SameIntent(j, j)
  BY DEF SameIntent
<1>5. /\ \A j \in todo' \cup kept' : \E k \in todo \cup kept : SameIntent(k, j)
      /\ \A k \in todo \cup kept : \E j \in todo' \cup kept' : SameIntent(k, j)
  <2>1. PICK a : \/ todo' = todo \ {i} /\ kept' = kept \cup {[i EXCEPT !.attempts = a]}
                 \/ todo' = (todo \ {i}) \cup {[i EXCEPT !.attempts = a]} /\ kept' = kept
    BY <1>2
  <2> DEFINE k == [i EXCEPT !.attempts = a]
  <2>2. todo' \cup kept' = ((todo \cup kept) \ {i}) \cup {k} \/
        todo' \cup kept' = todo \cup kept \cup {k}
    BY <2>1
  <2>3. SameIntent(i, k)
    BY <1>3
  <2> HIDE DEF k
  <2> QED BY <1>4, <2>2, <2>3
<1>6. pc \in [Procs -> PCs]
  BY DEF IInv, TypeOK, Typed
<1>7. \A r \in Procs : /\ Flushing(r)' => Flushing(r)
                       /\ pc'[r] = "requeued" => pc[r] = "requeued"
                       /\ pc'[r] = "wrote" <=> pc[r] = "wrote"
  BY <1>1, <1>6 DEF GoTo, Flushing
<1> QED BY <1>1, <1>5, <1>7, QuietStep

\* Steps that change no file and no memory but for its release.
LEMMA IdleStep ==
  ASSUME IInv, NEW p \in Procs,
         \/ RecordUnavailable(p) \/ StartFlush(p) \/ InlineCheck(p) \/ GateStep(p)
         \/ RewriteFails(p) \/ RetryDropFails(p) \/ Crash(p)
         \/ \E q \in Paths : StartGate(p, q)
  PROVE  Rest'
<1>0. pc \in [Procs -> PCs] /\ job \in [Procs -> Job]
  BY DEF IInv, TypeOK, Typed
<1>1. UNCHANGED <<artifact, head, pending, dead>>
  BY DEF RecordUnavailable, StartFlush, StartGate, InlineCheck, GateStep, GateReadPending,
         GateReadDead, GateReturn, RewriteFails, RetryDropFails, Crash, disk, graves
<1>2. excused \subseteq excused' /\ (pc[p] = "wrote" => job[p].path \in excused')
  BY DEF RecordUnavailable, StartFlush, StartGate, InlineCheck, GateStep, GateReadPending,
         GateReadDead, GateReturn, RewriteFails, RetryDropFails, Crash, Die, history
<1>3. \A r \in Procs : r # p => pc'[r] = pc[r] /\ job'[r] = job[r]
  BY <1>0 DEF RecordUnavailable, StartFlush, StartGate, InlineCheck, GateStep, GateReadPending,
     GateReadDead, GateReturn, RewriteFails, RetryDropFails, Crash, Die, AfterFlush, Finish, GoTo
<1>4. ~Flushing(p)' /\ pc'[p] # "requeued" /\ pc'[p] # "wrote"
  BY <1>0 DEF RecordUnavailable, StartFlush, StartGate, InlineCheck, GateStep, GateReadPending,
     GateReadDead, GateReturn, RewriteFails, RetryDropFails, Crash, Die, AfterFlush, Finish, GoTo,
     Flushing
<1>5. (todo' = {} /\ kept' = {} /\ lock = p) \/ UNCHANGED <<todo, kept>>
  <2>1. CASE RewriteFails(p) \/ RetryDropFails(p)
    BY <2>1 DEF IInv, LockHeld, RewriteFails, RetryDropFails, Release
  <2>2. CASE Crash(p)
    BY <2>2 DEF Crash, Die, Release, memory
  <2>3. CASE \/ RecordUnavailable(p) \/ StartFlush(p) \/ InlineCheck(p) \/ GateStep(p)
             \/ \E q \in Paths : StartGate(p, q)
    BY <2>3 DEF RecordUnavailable, StartFlush, StartGate, InlineCheck, GateStep,
                GateReadPending, GateReadDead, GateReturn, memory
  <2> QED BY <2>1, <2>2, <2>3
<1>6. \A r \in Procs : Flushing(r)' => Flushing(r) /\ UNCHANGED <<todo, kept>>
  BY <1>3, <1>4, <1>5, HolderAlone DEF Flushing
<1> QED BY <1>1, <1>2, <1>3, <1>4, <1>5, <1>6, QuietStep DEF SameIntent

LEMMA StutterStep ==
  ASSUME IInv, UNCHANGED vars
  PROVE  Rest'
<1>1. UNCHANGED <<artifact, head, pending, dead, todo, kept, excused, pc, job>>
  BY DEF vars, disk, graves, memory, history
<1>2. \A r : Flushing(r)' <=> Flushing(r)
  BY <1>1 DEF Flushing
<1> QED BY <1>1, <1>2, QuietStep DEF SameIntent

\* A producer's write, and the write of an aborted completion.
LEMMA ProduceStep ==
  ASSUME IInv, NEW p \in Procs,
         \/ AbortComplete(p)
         \/ \E q \in Paths, cmd \in AllCommands : WriteArtifact(p, cmd, q)
  PROVE  Rest'
<1>0. pc \in [Procs -> PCs] /\ job \in [Procs -> Job]
  BY DEF IInv, TypeOK, Typed
<1>1. CASE AbortComplete(p)
  <2> DEFINE q == job[p].path
  <2>1. q \in Paths /\ pc[p] = "wrote"
    BY <1>1 DEF AbortComplete, IInv, TypeOK, ProducersNamed
  <2>2. /\ artifact' = [artifact EXCEPT ![q] = @ + 1]
        /\ UNCHANGED <<head, pending, dead, todo, kept>>
        /\ excused' = excused \cup {q}
    BY <1>1 DEF AbortComplete, graves, memory
  <2>3. /\ pc'[p] = "idle"
        /\ \A r \in Procs : r # p => pc'[r] = pc[r] /\ job'[r] = job[r]
    BY <1>0, <1>1 DEF AbortComplete, Finish, GoTo
  <2>4. \A r \in Procs : Flushing(r)' => Flushing(r)
    BY <2>3 DEF Flushing
  <2> HIDE DEF q
  <2>5. \A r \in Procs : pc[r] = "wrote" =>
           (pc'[r] = "wrote" /\ job'[r] = job[r]) \/ job[r].path \in excused'
    BY <2>2, <2>3 DEF q
  <2> QED BY <2>1, <2>2, <2>3, <2>4, <2>5, WriteStep
<1>2. ASSUME NEW q \in Paths, NEW cmd \in AllCommands, WriteArtifact(p, cmd, q) PROVE Rest'
  <2>2. /\ artifact' = [artifact EXCEPT ![q] = @ + 1] /\ pc[p] = "idle"
        /\ UNCHANGED <<head, pending, dead, todo, kept, excused>>
    BY <1>2 DEF WriteArtifact, graves, memory, history
  <2>3. /\ pc'[p] = "wrote" /\ job'[p].path = q /\ job'[p].ver = artifact[q] + 1
        /\ \A r \in Procs : r # p => pc'[r] = pc[r] /\ job'[r] = job[r]
    BY <1>0, <1>2 DEF WriteArtifact, GoTo
  <2>4. \A r \in Procs : Flushing(r)' => Flushing(r)
    BY <2>3 DEF Flushing
  <2>5. InFlight(q)'
    BY <2>3 DEF InFlight
  <2> QED BY <2>2, <2>3, <2>4, <2>5, WriteStep
<1> QED BY <1>1, <1>2

\* The snapshot a flush starts from is the queue itself.
LEMMA BeginFlushStep ==
  ASSUME IInv, NEW p \in Procs, BeginFlush(p)
  PROVE  Rest'
<1>0. pc \in [Procs -> PCs] /\ lock = NoProc
  BY DEF IInv, TypeOK, Typed, BeginFlush, Take
<1>1. UNCHANGED <<artifact, head, pending, dead, excused, job>> /\ todo' = pending /\ kept' = {}
  BY DEF BeginFlush, disk, graves, history
<1>2. \A r \in Procs : /\ pc'[r] = "wrote" <=> pc[r] = "wrote"
                       /\ pc'[r] # "requeued"
  BY <1>0, FreeLock DEF BeginFlush, GoTo
<1>3. VersionsReached'
  BY <1>1, <1>2 DEF IInv, VersionsReached
<1>4. SnapshotQueued' /\ FlushAccounts'
  BY <1>1 DEF SnapshotQueued, FlushAccounts, Accounted, SameIntent
<1>5. RetryQueued'
  BY <1>2 DEF RetryQueued
<1>6. NoTransitionForgotten'
  BY <1>1, <1>2 DEF IInv, NoTransitionForgotten, Covered, InFlight, PathsOf, Dirty
<1> QED BY <1>3, <1>4, <1>5, <1>6 DEF Rest

\* A commit settles its intent: git holds that transition or a later one.
LEMMA CommitIntentStep ==
  ASSUME IInv, NEW p \in Procs, NEW i \in todo, CommitIntent(p, i)
  PROVE  Rest'
<1> DEFINE q == i.path
<1>0. /\ artifact \in [Paths -> Nat] /\ head \in [Paths -> Nat]
      /\ i \in Intent /\ q \in Paths /\ pending \subseteq Intent
      /\ i.ver <= artifact[q]
  BY DEF IInv, TypeOK, Typed, Intent, VersionsReached
<1>1. /\ head' = [head EXCEPT ![q] = artifact[q]]
      /\ excused' = excused \ {q} /\ todo' = todo \ {i}
      /\ UNCHANGED <<artifact, pending, dead, kept, lock, pc, job>>
  BY DEF CommitIntent, graves
<1>2. ~Dirty(q)' /\ \A x \in Paths : Dirty(x)' => Dirty(x) /\ x # q
  BY <1>0, <1>1 DEF Dirty
<1>3. head'[q] = artifact[q] /\ \A x \in Paths : x # q => head'[x] = head[x]
  BY <1>0, <1>1
<1> HIDE DEF q
<1>4. VersionsReached'
  BY <1>0, <1>1, <1>3 DEF IInv, VersionsReached
<1>5. SnapshotQueued' /\ RetryQueued'
  BY <1>1 DEF IInv, SnapshotQueued, RetryQueued, Chosen, SameIntent
<1>6. FlushAccounts'
  <2> SUFFICES ASSUME NEW r \in Procs, pc[r] \in {"flushing", "burying"}, NEW k \in pending
               PROVE  Accounted(k)'
    BY <1>1 DEF FlushAccounts
  <2>1. Accounted(k) /\ k.path \in Paths
    BY <1>0 DEF IInv, FlushAccounts, Intent
  <2>2. CASE \E j \in todo \cup kept : SameIntent(k, j) /\ j # i
    BY <1>1, <2>2 DEF Accounted, SameIntent
  <2>3. CASE SameIntent(k, i)
    BY <1>0, <1>2, <1>3, <2>3 DEF Accounted, SameIntent, q
  <2>4. CASE \E d \in dead : SameIntent(k, d)
    BY <1>1, <2>4 DEF Accounted, SameIntent
  <2>5. CASE head[k.path] >= k.ver /\ (Dirty(k.path) => InFlight(k.path) \/ k.path \in excused)
    <3>1. InFlight(k.path) => InFlight(k.path)'
      BY <1>1 DEF InFlight
    <3>2. CASE k.path = q
      <4>1. head[q] <= artifact[q] /\ head[q] \in Nat /\ artifact[q] \in Nat /\ k.ver \in Nat
        BY <1>0 DEF IInv, VersionsReached, Intent
      <4> QED BY <1>2, <1>3, <2>5, <3>2, <4>1 DEF Accounted
    <3>3. CASE k.path # q
      BY <1>1, <1>2, <1>3, <2>1, <2>5, <3>1, <3>3 DEF Accounted
    <3> QED BY <3>2, <3>3
  <2> QED BY <2>1, <2>2, <2>3, <2>4, <2>5 DEF Accounted
<1>7. NoTransitionForgotten'
  BY <1>1, <1>2 DEF IInv, NoTransitionForgotten, Covered, InFlight, PathsOf
<1> QED BY <1>4, <1>5, <1>6, <1>7 DEF Rest

\* A burial moves the intent from memory to the dead-letter file.
LEMMA BuryStep ==
  ASSUME IInv, NEW p \in Procs, NEW i \in todo, Bury(p, i)
  PROVE  Rest'
<1>0. /\ pc \in [Procs -> PCs] /\ i \in Intent /\ lock = p /\ i.ver <= artifact[i.path]
  BY DEF IInv, TypeOK, Typed, LockHeld, VersionsReached, Bury
<1>1. /\ todo' = todo \ {i} /\ dead' = dead \cup {LetterFor(i)}
      /\ UNCHANGED <<artifact, head, pending, kept, excused, job>>
  BY DEF Bury, Appended, disk, history
<1>2. SameIntent(i, LetterFor(i)) /\ LetterFor(i) \in dead'
  BY <1>0, <1>1, LetterTyped DEF IInv
<1>3. \A r \in Procs : /\ pc'[r] = "wrote" <=> pc[r] = "wrote"
                       /\ pc'[r] # "requeued"
                       /\ Flushing(r)' => Flushing(r)
  BY <1>0, HolderAlone DEF Bury, GoTo, Flushing
<1>4. VersionsReached'
  <2>1. \A d \in dead' : d.ver <= artifact'[d.path]
    BY <1>0, <1>1, <1>2 DEF IInv, VersionsReached, SameIntent
  <2> QED BY <1>1, <1>3, <2>1 DEF IInv, VersionsReached
<1>5. SnapshotQueued' /\ RetryQueued'
  BY <1>1, <1>3 DEF IInv, SnapshotQueued, RetryQueued, SameIntent, Flushing
<1>6. FlushAccounts'
  <2> SUFFICES ASSUME NEW r \in Procs, Flushing(r), NEW k \in pending PROVE Accounted(k)'
    BY <1>1, <1>3 DEF FlushAccounts, Flushing
  <2>1. Accounted(k)
    BY DEF IInv, FlushAccounts, Flushing
  <2>2. CASE SameIntent(k, i)
    BY <1>2, <2>2 DEF Accounted, SameIntent
  <2>3. CASE ~SameIntent(k, i)
    BY <1>1, <1>3, <2>1, <2>3 DEF Accounted, SameIntent, Dirty, InFlight
  <2> QED BY <2>2, <2>3
<1>7. NoTransitionForgotten'
  BY <1>1, <1>3 DEF IInv, NoTransitionForgotten, Covered, InFlight, PathsOf, Dirty
<1> QED BY <1>4, <1>5, <1>6, <1>7 DEF Rest

\* The end of a pass: what the holder's memory kept is in the queue file.
LEMMA EndFlushStep ==
  ASSUME IInv, NEW p \in Procs, Flushing(p),
         \A i \in kept \cup todo : \E j \in pending' : SameIntent(i, j),
         \A j \in pending' : \E i \in kept \cup todo \cup pending : SameIntent(j, i),
         dead \subseteq dead',
         \A d \in dead' \ dead : d.ver <= artifact[d.path],
         UNCHANGED <<artifact, head, excused>>,
         Release, AfterFlush(p)
  PROVE  Rest'
<1>0. pc \in [Procs -> PCs] /\ job \in [Procs -> Job] /\ lock = p
  BY DEF IInv, TypeOK, Typed, LockHeld, Flushing
<1>2. \A r \in Procs : /\ ~Flushing(r)' /\ pc'[r] # "requeued"
                       /\ pc'[r] = "wrote" <=> pc[r] = "wrote"
                       /\ pc[r] = "wrote" => job'[r] = job[r]
  BY <1>0, HolderAlone DEF AfterFlush, Finish, GoTo, Flushing
<1>3. todo' = {} /\ kept' = {}
  BY DEF Release
<1>4. VersionsReached'
  <2>1. \A i \in pending' \cup todo' \cup kept' : i.ver <= artifact[i.path]
    BY <1>3 DEF IInv, VersionsReached, SameIntent
  <2> QED BY <1>2, <2>1 DEF IInv, VersionsReached
<1>5. SnapshotQueued' /\ RetryQueued' /\ FlushAccounts'
  BY <1>2 DEF SnapshotQueued, RetryQueued, FlushAccounts, Flushing
<1>6. NoTransitionForgotten'
  <2> SUFFICES ASSUME NEW x \in Paths, Dirty(x), x \notin excused PROVE Covered(x)'
    BY DEF NoTransitionForgotten, Dirty
  <2>1. InFlight(x) => InFlight(x)'
    BY <1>2 DEF InFlight
  <2>2. CASE InFlight(x) \/ x \in PathsOf(dead)
    BY <2>1, <2>2 DEF Covered, PathsOf
  <2>3. ASSUME NEW i \in pending, i.path = x, ~InFlight(x) PROVE Covered(x)'
    <3>1. Accounted(i)
      BY DEF IInv, FlushAccounts, Flushing
    <3>2. CASE \E j \in todo \cup kept : SameIntent(i, j)
      <4>0. PICK j \in kept \cup todo : SameIntent(i, j)
        BY <3>2
      <4>1. PICK k \in pending' : SameIntent(j, k)
        OBVIOUS
      <4>2. x \in PathsOf(pending')
        BY <2>3, <4>0, <4>1 DEF PathsOf, SameIntent
      <4> QED BY <4>2 DEF Covered
    <3>3. CASE \E d \in dead : SameIntent(i, d)
      BY <2>3, <3>3 DEF Covered, PathsOf, SameIntent
    <3> QED BY <2>3, <3>1, <3>2, <3>3 DEF Accounted
  <2> QED BY <2>2, <2>3 DEF IInv, NoTransitionForgotten, Covered, PathsOf
<1> QED BY <1>4, <1>5, <1>6 DEF Rest

\* The rewrite of a pass, and the one that saves what a failed burial left.
LEMMA SavedByRewrite ==
  ASSUME IInv, pending' = Renumber(kept \cup todo)
  PROVE  /\ \A i \in kept \cup todo : \E j \in pending' : SameIntent(i, j)
         /\ \A j \in pending' : \E i \in kept \cup todo : SameIntent(j, i)
<1>1. kept \cup todo \subseteq Intent /\ IsFiniteSet(kept \cup todo)
  BY FS_Union DEF IInv, TypeOK, Typed
<1> QED BY <1>1, RenumberIntents

LEMMA RewriteStep ==
  ASSUME IInv, NEW p \in Procs, Rewrite(p)
  PROVE  Rest'
<1>1. kept = kept \cup todo
  BY DEF Rewrite
<1> QED BY <1>1, SavedByRewrite, EndFlushStep DEF Rewrite, Flushing, disk, graves, history

LEMMA BuryFailsStep ==
  ASSUME IInv, NEW p \in Procs, NEW i \in todo, BuryFails(p, i)
  PROVE  Rest'
<1>1. i \in Intent /\ i.ver <= artifact[i.path]
  BY DEF IInv, TypeOK, Typed, VersionsReached
<1>2. \A d \in dead' \ dead : d.ver <= artifact[d.path]
  BY <1>1, LetterTyped DEF IInv, BuryFails, HalfAppended, SameIntent
<1>3. dead \subseteq dead'
  BY DEF BuryFails, HalfAppended
<1>4. /\ \A k \in kept \cup todo : \E j \in pending' : SameIntent(k, j)
      /\ \A j \in pending' : \E k \in kept \cup todo \cup pending : SameIntent(j, k)
  <2>1. CASE pending' = Renumber(kept \cup todo)
    BY <2>1, SavedByRewrite
  <2>2. CASE pending' = pending
    BY <2>2 DEF IInv, SnapshotQueued, BuryFails, SameIntent
  <2> QED BY <2>1, <2>2 DEF BuryFails
<1> QED BY <1>2, <1>3, <1>4, EndFlushStep DEF BuryFails, Flushing, disk, history

\* A retry queues its dead letters before it drops them.
LEMMA RequeueStep ==
  ASSUME IInv, NEW p \in Procs, NEW q, RetryRequeue(p, q)
  PROVE  Rest'
<1> DEFINE F == pending \cup Revived(q)
<1>0. /\ pc \in [Procs -> PCs] /\ job \in [Procs -> Job] /\ lock = NoProc
      /\ F \subseteq Intent /\ IsFiniteSet(F)
  BY RevivedTyped, FS_Union DEF IInv, TypeOK, Typed, RetryRequeue, Take
<1>1. /\ pending' = Renumber(F)
      /\ UNCHANGED <<artifact, head, dead, todo, kept, excused>>
  BY DEF RetryRequeue, Revived, disk, graves, memory, history
<1>2. /\ \A i \in F : \E j \in pending' : SameIntent(i, j)
      /\ \A j \in pending' : \E i \in F : SameIntent(j, i)
  BY <1>0, <1>1, RenumberIntents
<1>3. /\ \A i \in Revived(q) : \E d \in dead : SameIntent(i, d)
      /\ \A d \in Chosen(q) : \E i \in Revived(q) : SameIntent(d, i)
  <2> DEFINE new(d) == [line |-> Cardinality(pending) + d.line, path |-> d.path,
                        ver |-> d.ver, attempts |-> 0]
  <2>1. \A d : SameIntent(d, new(d)) /\ SameIntent(new(d), d)
    BY DEF SameIntent
  <2>2. Revived(q) = {new(d) : d \in Chosen(q)} /\ Chosen(q) \subseteq dead
    BY DEF Revived, Chosen
  <2> HIDE DEF new
  <2>3. \A i \in Revived(q) : \E d \in Chosen(q) : i = new(d)
    BY <2>2
  <2> QED BY <2>1, <2>2, <2>3
<1>4. \A d \in Chosen(q) : \E j \in pending' : SameIntent(d, j)
  <2> SUFFICES ASSUME NEW d \in Chosen(q) PROVE \E j \in pending' : SameIntent(d, j)
    OBVIOUS
  <2>1. PICK i \in F : SameIntent(d, i)
    BY <1>3
  <2>2. PICK j \in pending' : SameIntent(i, j)
    BY <1>2
  <2> QED BY <2>1, <2>2 DEF SameIntent
<1> HIDE DEF F
<1>5. \A r \in Procs : /\ ~Flushing(r)'
                       /\ pc'[r] = "requeued" => r = p /\ job'[r].path = q
                       /\ pc'[r] = "wrote" <=> pc[r] = "wrote"
                       /\ pc[r] = "wrote" => job'[r] = job[r]
  BY <1>0, FreeLock DEF RetryRequeue, GoTo, Flushing
<1>6. VersionsReached'
  <2>1. \A i \in F : i.ver <= artifact[i.path]
    BY <1>3 DEF IInv, VersionsReached, SameIntent, F
  <2>2. \A i \in pending' : i.ver <= artifact[i.path]
    BY <1>2, <2>1 DEF SameIntent
  <2> QED BY <1>1, <1>5, <2>2 DEF IInv, VersionsReached
<1>7. SnapshotQueued' /\ FlushAccounts'
  BY <1>5 DEF SnapshotQueued, FlushAccounts, Flushing
<1>8. RetryQueued'
  BY <1>1, <1>4, <1>5 DEF RetryQueued, Chosen, SameIntent
<1>9. NoTransitionForgotten'
  <2>1. \A x \in Paths : InFlight(x) => InFlight(x)'
    BY <1>5 DEF InFlight
  <2>2. PathsOf(pending) \subseteq PathsOf(pending')
    BY <1>2 DEF F, PathsOf, SameIntent
  <2> QED BY <1>1, <2>1, <2>2 DEF IInv, NoTransitionForgotten, Covered, PathsOf, Dirty
<1> QED BY <1>6, <1>7, <1>8, <1>9 DEF Rest

\* What a rewrite of the dead-letter file leaves.
LEMMA RewriteDeadKeeps ==
  ASSUME IInv, NEW S, S \subseteq dead, RewriteDead(S)
  PROVE  /\ \A d \in S : \E e \in dead' : SameIntent(d, e)
         /\ \A e \in dead' : \E d \in S : SameIntent(e, d)
<1>1. IsFiniteSet(S) /\ S \subseteq Grave
  BY FS_Subset DEF IInv, TypeOK, Typed
<1> QED BY <1>1, RenumberGraves DEF RewriteDead

\* A retry's drop: what it drops is queued.
LEMMA DropStep ==
  ASSUME IInv, NEW p \in Procs, RetryDrop(p)
  PROVE  Rest'
<1> DEFINE C == Chosen(job[p].path)
<1>0. pc \in [Procs -> PCs] /\ job \in [Procs -> Job] /\ lock = p
  BY DEF IInv, TypeOK, Typed, LockHeld, RetryDrop
<1>1. /\ UNCHANGED <<artifact, head, pending, excused>> /\ todo' = {} /\ kept' = {}
      /\ RewriteDead(dead \ C)
  BY DEF RetryDrop, disk, history, Release
<1>2. /\ \A d \in dead \ C : \E e \in dead' : SameIntent(d, e)
      /\ \A e \in dead' : \E d \in dead \ C : SameIntent(e, d)
  BY <1>1, RewriteDeadKeeps
<1>3. \A d \in C : \E i \in pending : SameIntent(d, i)
  BY DEF IInv, RetryQueued, RetryDrop
<1> HIDE DEF C
<1>4. \A r \in Procs : /\ ~Flushing(r)' /\ pc'[r] # "requeued"
                       /\ pc'[r] = "wrote" <=> pc[r] = "wrote"
                       /\ pc[r] = "wrote" => job'[r] = job[r]
  BY <1>0, HolderAlone DEF RetryDrop, Finish, GoTo, Flushing
<1>5. VersionsReached'
  <2>1. \A e \in dead' : e.ver <= artifact[e.path]
    BY <1>2 DEF IInv, VersionsReached, SameIntent
  <2> QED BY <1>1, <1>4, <2>1 DEF IInv, VersionsReached
<1>6. SnapshotQueued' /\ FlushAccounts' /\ RetryQueued'
  BY <1>4 DEF SnapshotQueued, FlushAccounts, RetryQueued, Flushing
<1>7. NoTransitionForgotten'
  <2>1. \A x \in Paths : InFlight(x) => InFlight(x)'
    BY <1>4 DEF InFlight
  <2>2. PathsOf(dead) \subseteq PathsOf(dead') \cup PathsOf(pending)
    BY <1>2, <1>3 DEF PathsOf, SameIntent
  <2> QED BY <1>1, <2>1, <2>2 DEF IInv, NoTransitionForgotten, Covered, Dirty
<1> QED BY <1>5, <1>6, <1>7 DEF Rest

\* What the operator clears is excused.
LEMMA ClearStep ==
  ASSUME IInv, NEW p \in Procs, NEW q, ClearDead(p, q)
  PROVE  Rest'
<1>1. /\ UNCHANGED <<artifact, head, pending, todo, kept, pc, job>> /\ lock = NoProc
      /\ RewriteDead(dead \ Chosen(q)) /\ excused' = excused \cup PathsOf(Chosen(q))
  BY DEF ClearDead, disk, memory
<1>2. /\ \A d \in dead \ Chosen(q) : \E e \in dead' : SameIntent(d, e)
      /\ \A e \in dead' : \E d \in dead \ Chosen(q) : SameIntent(e, d)
  BY <1>1, RewriteDeadKeeps
<1>3. VersionsReached'
  <2>1. \A e \in dead' : e.ver <= artifact[e.path]
    BY <1>2 DEF IInv, VersionsReached, SameIntent
  <2> QED BY <1>1, <2>1 DEF IInv, VersionsReached
<1>4. SnapshotQueued' /\ FlushAccounts' /\ RetryQueued'
  BY <1>1, FreeLock DEF SnapshotQueued, FlushAccounts, RetryQueued, Flushing
<1>5. NoTransitionForgotten'
  <2>1. PathsOf(dead) \subseteq PathsOf(dead') \cup excused'
    BY <1>1, <1>2 DEF PathsOf, SameIntent
  <2> QED BY <1>1, <2>1 DEF IInv, NoTransitionForgotten, Covered, Dirty, InFlight
<1> QED BY <1>3, <1>4, <1>5 DEF Rest

\* The operator's commit.
LEMMA ManualStep ==
  ASSUME IInv, NEW q \in Paths, ManualCommit(q)
  PROVE  Rest'
<1>0. /\ artifact \in [Paths -> Nat] /\ head \in [Paths -> Nat] /\ pending \subseteq Intent
      /\ head[q] <= artifact[q]
  BY DEF IInv, TypeOK, Typed, VersionsReached
<1>1. /\ head' = [head EXCEPT ![q] = artifact[q]] /\ excused' = excused \ {q}
      /\ UNCHANGED <<artifact, pending, dead, todo, kept, pc, job>>
  BY DEF ManualCommit, graves, memory
<1>2. ~Dirty(q)' /\ \A x \in Paths : Dirty(x)' => Dirty(x) /\ x # q
  BY <1>0, <1>1 DEF Dirty
<1>3. \A x \in Paths : head'[x] >= head[x] /\ head'[x] <= artifact[x]
  BY <1>0, <1>1 DEF IInv, VersionsReached
<1>4. VersionsReached' /\ SnapshotQueued' /\ RetryQueued'
  BY <1>1, <1>3 DEF IInv, VersionsReached, SnapshotQueued, RetryQueued, Chosen, SameIntent
<1>5. FlushAccounts'
  <2> SUFFICES ASSUME NEW r \in Procs, pc[r] \in {"flushing", "burying"}, NEW k \in pending
               PROVE  Accounted(k)'
    BY <1>1 DEF FlushAccounts
  <2>1. Accounted(k) /\ k.path \in Paths /\ k.ver \in Nat
    BY <1>0 DEF IInv, FlushAccounts, Intent
  <2>2. CASE (\E j \in todo \cup kept : SameIntent(k, j)) \/ (\E d \in dead : SameIntent(k, d))
    BY <1>1, <2>2 DEF Accounted, SameIntent
  <2>3. CASE head[k.path] >= k.ver /\ (Dirty(k.path) => InFlight(k.path) \/ k.path \in excused)
    <3>1. head'[k.path] >= k.ver
      BY <1>0, <1>1, <1>3, <2>1, <2>3
    <3> QED BY <1>1, <1>2, <2>1, <2>3, <3>1 DEF Accounted, InFlight
  <2> QED BY <2>1, <2>2, <2>3 DEF Accounted
<1>6. NoTransitionForgotten'
  BY <1>1, <1>2 DEF IInv, NoTransitionForgotten, Covered, InFlight, PathsOf
<1> QED BY <1>4, <1>5, <1>6 DEF Rest

\* Death inside a burial.
LEMMA CrashStep ==
  ASSUME IInv, NEW p \in Procs, NEW i \in todo, CrashWhileBurying(p, i)
  PROVE  Rest'
<1>0. /\ pc \in [Procs -> PCs] /\ job \in [Procs -> Job] /\ lock = p
      /\ i \in Intent /\ i.ver <= artifact[i.path]
  BY DEF IInv, TypeOK, Typed, LockHeld, VersionsReached, CrashWhileBurying
<1>1. /\ UNCHANGED <<artifact, head, pending, excused>> /\ todo' = {} /\ kept' = {}
      /\ dead' \in {dead, dead \cup {LetterFor(i)}}
  BY <1>0 DEF CrashWhileBurying, HalfAppended, Die, Release, disk
<1>2. SameIntent(i, LetterFor(i))
  BY <1>0, LetterTyped DEF IInv
<1>3. \A r \in Procs : /\ ~Flushing(r)' /\ pc'[r] # "requeued"
                       /\ pc'[r] = "wrote" <=> pc[r] = "wrote"
                       /\ pc[r] = "wrote" => job'[r] = job[r]
  BY <1>0, HolderAlone DEF CrashWhileBurying, Die, Finish, GoTo, Flushing
<1>4. VersionsReached'
  <2>1. \A d \in dead' : d.ver <= artifact'[d.path]
    BY <1>0, <1>1, <1>2 DEF IInv, VersionsReached, SameIntent
  <2> QED BY <1>1, <1>3, <2>1 DEF IInv, VersionsReached
<1>5. SnapshotQueued' /\ FlushAccounts' /\ RetryQueued'
  BY <1>3 DEF SnapshotQueued, FlushAccounts, RetryQueued, Flushing
<1>6. NoTransitionForgotten'
  BY <1>1, <1>3 DEF IInv, NoTransitionForgotten, Covered, InFlight, PathsOf, Dirty
<1> QED BY <1>4, <1>5, <1>6 DEF Rest

LEMMA RestStep ==
  ASSUME IInv, TypeOK', [Next]_vars
  PROVE  Rest'
<1>1. ASSUME NEW p \in Procs, Start(p) PROVE Rest'
  BY <1>1, IdleStep, ProduceStep, RequeueStep, ClearStep DEF Start
<1>2. ASSUME NEW p \in Procs, FlushStep(p) PROVE Rest'
  <2>1. CASE BeginFlush(p) \/ Rewrite(p) \/ RewriteFails(p)
    BY <2>1, BeginFlushStep, RewriteStep, IdleStep
  <2>2. ASSUME NEW i \in todo,
               \/ SkipStranger(p, i) \/ CommitIntent(p, i) \/ RefuseIgnored(p, i)
               \/ FailIntent(p, i) \/ Bury(p, i) \/ BuryFails(p, i)
        PROVE  Rest'
    BY <2>2, CountStep, CommitIntentStep, BuryStep, BuryFailsStep
  <2> QED BY <1>2, <2>1, <2>2 DEF FlushStep
<1>3. ASSUME NEW p \in Procs, Continue(p) PROVE Rest'
  BY <1>2, <1>3, RecordIntentStep, IdleStep, ProduceStep, DropStep DEF Continue, RetryStep
<1>4. ASSUME NEW p \in Procs, Fail(p) PROVE Rest'
  BY <1>4, IdleStep, CrashStep DEF Fail
<1> QED BY <1>1, <1>3, <1>4, ManualStep, StutterStep DEF Next

LEMMA IInvInit == Init => IInv
<1> SUFFICES ASSUME Init PROVE IInv
  OBVIOUS
<1>1. TypeOK
  BY TypeInit
<1>2. LockHeld /\ VersionsReached /\ SnapshotQueued /\ RetryQueued /\ FlushAccounts
  BY ConstantsOK DEF Init, LockHeld, VersionsReached, SnapshotQueued, RetryQueued, FlushAccounts
<1>3. NoTransitionForgotten
  BY DEF Init, NoTransitionForgotten, Dirty
<1> QED BY <1>1, <1>2, <1>3 DEF IInv

LEMMA IInvStep == IInv /\ [Next]_vars => IInv'
<1> SUFFICES ASSUME IInv, [Next]_vars PROVE IInv'
  OBVIOUS
<1>1. TypeOK'
  BY TypeStep DEF IInv
<1>2. LockHeld'
  BY LockHeldStep DEF IInv
<1>3. Rest'
  BY <1>1, RestStep
<1> QED BY <1>1, <1>2, <1>3 DEF IInv, Rest

LEMMA Inductive == Spec => []IInv
BY IInvInit, IInvStep, PTL DEF Spec

\* No transition is ever forgotten: whatever flushes, retries, completions and
\* crashes interleave, an artifact git does not hold is queued, dead-lettered,
\* about to be queued, or excused.
THEOREM NothingForgotten == Spec => []NoTransitionForgotten
<1>1. IInv => NoTransitionForgotten
  BY DEF IInv
<1> QED BY <1>1, Inductive, PTL

\* The files, the flush's memory and the producers fit together in every
\* reachable state, and no transition is forgotten.
THEOREM OutboxStaysSound == Spec => []OutboxSound
BY TypeCorrect, NothingForgotten, PTL DEF OutboxSound

\* At every point of a flush each line of the queue file is accounted for, so a
\* crash there, or the rewrite that ends the pass, loses no transition.
THEOREM EveryLineAccounted == Spec => []FlushAccounts
<1>1. IInv => FlushAccounts
  BY DEF IInv
<1> QED BY <1>1, Inductive, PTL

-----------------------------------------------------------------------------
(* What leaves the two files *)

Settled(i) ==
  \/ \E j \in pending' : j.path = i.path
  \/ head'[i.path] >= i.ver
  \/ \E d \in dead' : SameIntent(i, d)

\* The append supersedes the lines of its own path and keeps the others.
LEMMA RecordSettles ==
  ASSUME IInv, NEW p \in Procs, RecordIntent(p), NEW i \in pending
  PROVE  Settled(i)
<1> DEFINE q == job[p].path
           C == CoalescedWith(q, job[p].ver)
<1>1. TypeOK /\ q \in Paths /\ job[p].ver \in Nat
  BY DEF IInv, TypeOK, Typed, ProducersNamed, RecordIntent, Job
<1>2. pending' = Renumber(C)
  BY DEF RecordIntent, CoalescedWith
<1>3. \A k \in C : \E j \in pending' : SameIntent(k, j)
  BY <1>1, <1>2, CoalescedTyped, RenumberIntents
<1>4. \E k \in C : k.path = i.path
  BY CoalescedCovers
<1> QED BY <1>3, <1>4 DEF Settled, SameIntent

\* A rewrite at the end of a pass drops only what the pass settled.
LEMMA RewriteSettles ==
  ASSUME IInv, NEW p \in Procs, Flushing(p), NEW i \in pending,
         pending' = pending \/ pending' = Renumber(kept \cup todo),
         dead \subseteq dead', UNCHANGED head
  PROVE  Settled(i)
<1>1. CASE pending' = pending
  BY <1>1 DEF Settled
<1>2. CASE pending' = Renumber(kept \cup todo)
  <2>1. Accounted(i)
    BY DEF IInv, FlushAccounts, Flushing
  <2>2. CASE \E j \in todo \cup kept : SameIntent(i, j)
    <3>1. PICK j \in kept \cup todo : SameIntent(i, j)
      BY <2>2
    <3>2. PICK k \in pending' : SameIntent(j, k)
      BY <1>2, SavedByRewrite
    <3> QED BY <3>1, <3>2 DEF Settled, SameIntent
  <2> QED BY <2>1, <2>2 DEF Accounted, Settled
<1> QED BY <1>1, <1>2

LEMMA RequeueSettles ==
  ASSUME IInv, NEW p \in Procs, NEW q, RetryRequeue(p, q), NEW i \in pending
  PROVE  Settled(i)
<1> DEFINE F == pending \cup Revived(q)
<1>1. F \subseteq Intent /\ IsFiniteSet(F) /\ pending' = Renumber(F)
  BY RevivedTyped, FS_Union DEF IInv, TypeOK, Typed, RetryRequeue, Revived
<1>2. \E j \in pending' : SameIntent(i, j)
  BY <1>1, RenumberIntents
<1> QED BY <1>2 DEF Settled, SameIntent

LEMMA QueueStep ==
  ASSUME IInv, [Next]_vars, NEW i \in pending
  PROVE  Settled(i)
<1>1. pending' = pending => Settled(i)
  BY DEF Settled
<1>2. ASSUME NEW p \in Procs, Start(p) PROVE Settled(i)
  BY <1>1, <1>2, RequeueSettles DEF Start, StartFlush, StartGate, WriteArtifact, ClearDead
<1>3. ASSUME NEW p \in Procs, FlushStep(p) PROVE Settled(i)
  <2>1. ASSUME NEW k \in todo, BuryFails(p, k) PROVE Settled(i)
    BY <2>1, RewriteSettles DEF BuryFails, HalfAppended, Flushing, disk
  <2>2. CASE Rewrite(p)
    <3>1. kept = kept \cup todo
      BY <2>2 DEF Rewrite
    <3> QED BY <2>2, <3>1, RewriteSettles DEF Rewrite, Flushing, disk, graves
  <2> QED BY <1>1, <1>3, <2>1, <2>2
          DEF FlushStep, BeginFlush, RewriteFails, SkipStranger, CommitIntent, RefuseIgnored,
              FailIntent, Bury
<1>4. ASSUME NEW p \in Procs, Continue(p) PROVE Settled(i)
  BY <1>1, <1>3, <1>4, RecordSettles
     DEF Continue, RecordUnavailable, AbortComplete, InlineCheck, GateStep, GateReadPending,
         GateReadDead, GateReturn, RetryStep, RetryDrop, RetryDropFails
<1>5. ASSUME NEW p \in Procs, Fail(p) PROVE Settled(i)
  BY <1>1, <1>5 DEF Fail, Crash, CrashWhileBurying
<1> QED BY <1>1, <1>2, <1>4, <1>5 DEF Next, ManualCommit, vars

\* An intent leaves the queue file only once git holds its transition, the
\* dead-letter file holds it, or a newer intent of its path supersedes it.
THEOREM LeaveOnlySettled == Spec => OnlySettledLeave
<1>1. IInv /\ [Next]_vars => [\A i \in pending : Settled(i)]_vars
  BY QueueStep
<1> QED BY <1>1, Inductive, PTL DEF Spec, OnlySettledLeave, Settled

\* A dead letter is still there, or queued again, or cleared by the operator.
Remembered(d) ==
  \/ \E e \in dead' : SameIntent(d, e)
  \/ \E i \in pending' : SameIntent(d, i)
  \/ d.path \in excused'

LEMMA DropRemembers ==
  ASSUME IInv, NEW p \in Procs, RetryDrop(p), NEW d \in dead
  PROVE  Remembered(d)
<1> DEFINE C == Chosen(job[p].path)
<1>1. \A x \in dead \ C : \E e \in dead' : SameIntent(x, e)
  BY RewriteDeadKeeps DEF RetryDrop
<1>2. \A x \in C : \E i \in pending' : SameIntent(x, i)
  BY DEF IInv, RetryQueued, RetryDrop
<1> QED BY <1>1, <1>2 DEF Remembered

LEMMA ClearRemembers ==
  ASSUME IInv, NEW p \in Procs, NEW q, ClearDead(p, q), NEW d \in dead
  PROVE  Remembered(d)
<1>1. \A x \in dead \ Chosen(q) : \E e \in dead' : SameIntent(x, e)
  BY RewriteDeadKeeps DEF ClearDead
<1>2. \A x \in Chosen(q) : x.path \in excused'
  BY DEF ClearDead, PathsOf
<1> QED BY <1>1, <1>2 DEF Remembered

LEMMA LetterStep ==
  ASSUME IInv, [Next]_vars, NEW d \in dead
  PROVE  Remembered(d)
<1>1. dead \subseteq dead' => Remembered(d)
  BY DEF Remembered, SameIntent
<1>2. ASSUME NEW p \in Procs, Start(p) PROVE Remembered(d)
  BY <1>1, <1>2, ClearRemembers
     DEF Start, StartFlush, StartGate, WriteArtifact, RetryRequeue, graves
<1>3. ASSUME NEW p \in Procs, FlushStep(p) PROVE Remembered(d)
  BY <1>1, <1>3
     DEF FlushStep, BeginFlush, Rewrite, RewriteFails, SkipStranger, CommitIntent, RefuseIgnored,
         FailIntent, Bury, BuryFails, Appended, HalfAppended, graves
<1>4. ASSUME NEW p \in Procs, Continue(p) PROVE Remembered(d)
  BY <1>1, <1>3, <1>4, DropRemembers
     DEF Continue, RecordIntent, RecordUnavailable, AbortComplete, InlineCheck, GateStep,
         GateReadPending, GateReadDead, GateReturn, RetryStep, RetryDropFails, graves
<1>5. ASSUME NEW p \in Procs, Fail(p) PROVE Remembered(d)
  BY <1>1, <1>5 DEF Fail, Crash, CrashWhileBurying, HalfAppended, graves
<1> QED BY <1>1, <1>2, <1>4, <1>5 DEF Next, ManualCommit, vars, graves

\* A dead letter disappears only into the queue or by the operator's clear,
\* whatever crash falls between the two rewrites of a retry.
THEOREM LettersAreKept == Spec => DeadLettersKept
<1>1. IInv /\ [Next]_vars => [\A d \in dead : Remembered(d)]_vars
  BY LetterStep
<1> QED BY <1>1, Inductive, PTL DEF Spec, DeadLettersKept, Remembered

-----------------------------------------------------------------------------
(* The outbox keeps the promise of ArtifactDebt: each of its steps is a step *)
(* of the abstract specification, or leaves it where it is.                  *)

Owed == {q \in Paths : Covered(q)}

InFiles == PathsOf(pending) \cup PathsOf(dead)

\* Nobody becomes a producer.
NoNewProducer ==
  \A r \in Procs : pc'[r] = "wrote" => pc[r] = "wrote" /\ job'[r] = job[r]

-----------------------------------------------------------------------------
(* The abstract steps, read over the outbox *)

\* Debts that end without an excuse are paid, since none is forgotten.
LEMMA DischargeStep ==
  ASSUME UNCHANGED <<artifact, head, excused>>, Owed' \subseteq Owed, NoTransitionForgotten'
  PROVE  Debt!Next
<1> DEFINE S == Owed \ Owed'
<1>1. S \in SUBSET Paths
  BY DEF Owed
<1>2. \A q \in S : Dirty(q) => q \in excused
  BY <1>1 DEF NoTransitionForgotten, Owed, Dirty
<1>3. Owed' = Owed \ S
  OBVIOUS
<1> HIDE DEF S
<1>4. Debt!Discharge(S)
  <2>1. S \subseteq Owed
    BY DEF S
  <2> QED BY <1>2, <1>3, <2>1 DEF Debt!Discharge, Debt!Dirty, Owed, Dirty
<1> QED BY <1>1, <1>4 DEF Debt!Next

LEMMA ExcuseStep ==
  ASSUME UNCHANGED <<artifact, head>>, NEW S \in SUBSET Paths, excused' = excused \cup S,
         Owed' \subseteq Owed, Owed \ Owed' \subseteq S
  PROVE  Debt!Next
<1> DEFINE T == Owed \ Owed'
<1>1. T \in SUBSET S /\ Owed' = Owed \ T
  OBVIOUS
<1> HIDE DEF T
<1>2. Debt!Excuse(S, T)
  BY <1>1 DEF Debt!Excuse, Owed
<1> QED BY <1>1, <1>2 DEF Debt!Next

LEMMA ReopenStep ==
  ASSUME NEW q \in Paths, artifact' = [artifact EXCEPT ![q] = @ + 1], UNCHANGED head,
         excused' = excused \cup {q}, Owed' \subseteq Owed, Owed \ Owed' \subseteq {q}
  PROVE  Debt!Next
<1> DEFINE T == Owed \ Owed'
<1>1. T \in SUBSET {q} /\ Owed' = Owed \ T
  OBVIOUS
<1> HIDE DEF T
<1>2. Debt!Reopen(q, T)
  BY <1>1 DEF Debt!Reopen, Owed
<1> QED BY <1>1, <1>2 DEF Debt!Next

LEMMA PublishStep ==
  ASSUME NEW q \in Paths, head' = [head EXCEPT ![q] = artifact[q]], UNCHANGED artifact,
         excused' = excused \ {q}, Owed' = Owed
  PROVE  Debt!Next
<1>1. Debt!Publish(q)
  BY DEF Debt!Publish, Owed
<1> QED BY <1>1 DEF Debt!Next

-----------------------------------------------------------------------------
(* What a step does to the debts *)

\* No step but a producer's write puts a path on a list that was on none.
LEMMA FilesCovered ==
  ASSUME IInv, [Next]_vars
  PROVE  InFiles' \subseteq Owed
<1>0. /\ TypeOK /\ pending \subseteq Intent /\ dead \subseteq Grave
      /\ PathsOf(pending) \subseteq Owed /\ PathsOf(dead) \subseteq Owed
  BY DEF IInv, TypeOK, Typed, Owed, Covered, PathsOf, Intent, Grave
<1>1. pending' = pending => PathsOf(pending') \subseteq Owed
  BY <1>0
<1>2. dead' = dead => PathsOf(dead') \subseteq Owed
  BY <1>0
<1>3. ASSUME NEW i \in todo, \E p \in Procs : Flushing(p), HalfAppended(i) \/ Appended(i)
      PROVE  PathsOf(dead') \subseteq Owed
  <2>1. LetterFor(i).path = i.path
    BY DEF LetterFor
  <2>2. i.path \in PathsOf(pending)
    BY <1>3 DEF IInv, SnapshotQueued, Flushing, PathsOf, SameIntent
  <2>3. dead' \subseteq dead \cup {LetterFor(i)}
    BY <1>3 DEF HalfAppended, Appended
  <2> QED BY <1>0, <2>1, <2>2, <2>3 DEF PathsOf
<1>4. ASSUME \E p \in Procs : Flushing(p), pending' = Renumber(kept \cup todo)
      PROVE  PathsOf(pending') \subseteq Owed
  <2>1. \A j \in pending' : \E i \in kept \cup todo : SameIntent(j, i)
    BY <1>4, SavedByRewrite
  <2>2. \A i \in kept \cup todo : \E j \in pending : SameIntent(i, j)
    BY <1>4 DEF IInv, SnapshotQueued, Flushing, SameIntent
  <2> QED BY <1>0, <2>1, <2>2 DEF PathsOf, SameIntent
<1>5. ASSUME NEW S, S \subseteq dead, RewriteDead(S) PROVE PathsOf(dead') \subseteq Owed
  BY <1>0, <1>5, RewriteDeadKeeps DEF PathsOf, SameIntent
<1>6. ASSUME NEW p \in Procs, RecordIntent(p) PROVE PathsOf(pending') \subseteq Owed
  <2> DEFINE q == job[p].path
             C == CoalescedWith(q, job[p].ver)
  <2>1. q \in Paths /\ job[p].ver \in Nat /\ q \in Owed
    BY <1>6 DEF IInv, TypeOK, Typed, ProducersNamed, RecordIntent, Job, Owed, Covered, InFlight
  <2>2. pending' = Renumber(C)
    BY <1>6 DEF RecordIntent, CoalescedWith
  <2>3. \A j \in pending' : \E i \in C : SameIntent(j, i)
    BY <1>0, <2>1, <2>2, CoalescedTyped, RenumberIntents
  <2>4. \A i \in C : i.path = q \/ i \in pending
    BY CoalescedCovers
  <2> HIDE DEF q, C
  <2> QED BY <1>0, <2>1, <2>3, <2>4 DEF PathsOf, SameIntent
<1>7. ASSUME NEW p \in Procs, NEW q, RetryRequeue(p, q) PROVE PathsOf(pending') \subseteq Owed
  <2> DEFINE F == pending \cup Revived(q)
  <2>1. F \subseteq Intent /\ IsFiniteSet(F) /\ pending' = Renumber(F)
    BY <1>0, <1>7, RevivedTyped, FS_Union DEF TypeOK, Typed, RetryRequeue, Revived
  <2>2. \A j \in pending' : \E i \in F : SameIntent(j, i)
    BY <2>1, RenumberIntents
  <2>3. \A i \in F : i \in pending \/ \E d \in dead : i.path = d.path
    BY DEF Revived, Chosen
  <2> HIDE DEF F
  <2> QED BY <1>0, <2>2, <2>3 DEF PathsOf, SameIntent
<1>8. ASSUME NEW p \in Procs, Start(p) PROVE InFiles' \subseteq Owed
  BY <1>1, <1>2, <1>5, <1>7, <1>8
     DEF Start, StartFlush, StartGate, WriteArtifact, RetryRequeue, ClearDead, graves, InFiles
<1>9. ASSUME NEW p \in Procs, FlushStep(p) PROVE InFiles' \subseteq Owed
  <2>1. ASSUME NEW i \in todo, Bury(p, i) \/ BuryFails(p, i) PROVE InFiles' \subseteq Owed
    BY <1>1, <1>3, <1>4, <2>1 DEF Bury, BuryFails, disk, Flushing, InFiles
  <2>2. CASE Rewrite(p)
    <3>1. kept = kept \cup todo
      BY <2>2 DEF Rewrite
    <3> QED BY <1>2, <1>4, <2>2, <3>1 DEF Rewrite, graves, Flushing, InFiles
  <2> QED BY <1>1, <1>2, <1>9, <2>1, <2>2
          DEF FlushStep, BeginFlush, RewriteFails, SkipStranger, CommitIntent, RefuseIgnored,
              FailIntent, graves, InFiles
<1>10. ASSUME NEW p \in Procs, Continue(p) PROVE InFiles' \subseteq Owed
  BY <1>1, <1>2, <1>5, <1>6, <1>9, <1>10
     DEF Continue, RecordIntent, RecordUnavailable, AbortComplete, InlineCheck, GateStep,
         GateReadPending, GateReadDead, GateReturn, RetryStep, RetryDrop, RetryDropFails,
         graves, InFiles
<1>11. ASSUME NEW p \in Procs, Fail(p) PROVE InFiles' \subseteq Owed
  BY <1>1, <1>2, <1>3, <1>11 DEF Fail, Crash, CrashWhileBurying, graves, Flushing, InFiles
<1> QED BY <1>1, <1>2, <1>8, <1>10, <1>11 DEF Next, ManualCommit, vars, graves, InFiles

LEMMA OwedShrinks ==
  ASSUME IInv, [Next]_vars, NoNewProducer
  PROVE  Owed' \subseteq Owed
<1>1. \A q : InFlight(q)' => InFlight(q)
  BY DEF NoNewProducer, InFlight
<1> QED BY <1>1, FilesCovered DEF Owed, Covered, InFiles

\* A producer's write opens a debt.
LEMMA TransitionStep ==
  ASSUME IInv, NEW p \in Procs, NEW q \in Paths, NEW cmd \in AllCommands,
         WriteArtifact(p, cmd, q)
  PROVE  Debt!Next
<1>0. pc \in [Procs -> PCs] /\ job \in [Procs -> Job]
  BY DEF IInv, TypeOK, Typed
<1>1. /\ artifact' = [artifact EXCEPT ![q] = @ + 1]
      /\ UNCHANGED <<head, pending, dead, excused>>
  BY DEF WriteArtifact, graves, history
<1>2. \A x \in Paths : InFlight(x)' <=> InFlight(x) \/ x = q
  BY <1>0 DEF WriteArtifact, GoTo, InFlight
<1>3. Owed' = Owed \cup {q}
  BY <1>1, <1>2 DEF Owed, Covered
<1>4. Debt!Transition(q)
  BY <1>1, <1>3 DEF Debt!Transition, Owed
<1> QED BY <1>4 DEF Debt!Next

\* A recorded intent takes over the debt its producer carried.
LEMMA ReassumeStep ==
  ASSUME IInv, NEW p \in Procs, RecordIntent(p), Owed' \subseteq Owed
  PROVE  Debt!Next
<1> DEFINE q == job[p].path
           C == CoalescedWith(q, job[p].ver)
<1>0. /\ TypeOK /\ q \in Paths /\ job[p].ver \in Nat /\ q \in Owed
      /\ pc \in [Procs -> PCs] /\ job \in [Procs -> Job]
  BY DEF IInv, TypeOK, Typed, ProducersNamed, RecordIntent, Job, Owed, Covered, InFlight
<1>1. UNCHANGED <<artifact, head, dead>> /\ excused' = excused \ {q}
  BY DEF RecordIntent, disk, graves
<1>2. pending' = Renumber(C)
  BY DEF RecordIntent, CoalescedWith
<1>3. \A i \in C : \E j \in pending' : SameIntent(i, j)
  BY <1>0, <1>2, CoalescedTyped, RenumberIntents
<1>4. /\ \A i \in pending : i.path # q => i \in C
      /\ \E i \in C : i.path = q
  BY CoalescedCovers
<1>5. \A x \in Paths : InFlight(x) => InFlight(x)' \/ x = q
  BY <1>0 DEF RecordIntent, GoTo, Finish, InFlight
<1> HIDE DEF q, C
<1>6. PathsOf(pending) \cup {q} \subseteq PathsOf(pending')
  BY <1>3, <1>4 DEF PathsOf, SameIntent
<1>7. Owed' = Owed
  BY <1>1, <1>5, <1>6 DEF Owed, Covered
<1>8. Debt!Reassume(q)
  BY <1>0, <1>1, <1>7 DEF Debt!Reassume, Owed
<1> QED BY <1>0, <1>8 DEF Debt!Next

\* A producer that gives up, or dies, excuses its path.
LEMMA GiveUpStep ==
  ASSUME IInv, NEW p \in Procs, pc[p] = "wrote",
         RecordUnavailable(p) \/ AbortComplete(p) \/ Crash(p), Owed' \subseteq Owed
  PROVE  Debt!Next
<1> DEFINE q == job[p].path
<1>0. q \in Paths /\ pc \in [Procs -> PCs] /\ job \in [Procs -> Job]
  BY DEF IInv, TypeOK, Typed, ProducersNamed
<1>1. UNCHANGED <<head, pending, dead>> /\ excused' = excused \cup {q}
  BY DEF RecordUnavailable, AbortComplete, Crash, Die, disk, graves
<1>2. \A r \in Procs : r # p => pc'[r] = pc[r] /\ job'[r] = job[r]
  BY <1>0 DEF RecordUnavailable, AbortComplete, Crash, Die, Finish, GoTo
<1> HIDE DEF q
<1>3. \A x : InFlight(x) => InFlight(x)' \/ x = q
  BY <1>2 DEF InFlight, q
<1>4. Owed \ Owed' \subseteq {q}
  BY <1>1, <1>3 DEF Owed, Covered
<1>5. artifact' = artifact \/ artifact' = [artifact EXCEPT ![q] = @ + 1]
  BY DEF RecordUnavailable, AbortComplete, Crash, disk, q
<1>6. CASE artifact' = artifact
  <2>1. {q} \in SUBSET Paths /\ UNCHANGED <<artifact, head>>
    BY <1>0, <1>1, <1>6
  <2> QED BY <1>1, <1>4, <2>1, ExcuseStep
<1>7. CASE artifact' = [artifact EXCEPT ![q] = @ + 1]
  BY <1>0, <1>1, <1>4, <1>7, ReopenStep
<1> QED BY <1>5, <1>6, <1>7

\* The operator's clear excuses what it drops.
LEMMA WriteOffStep ==
  ASSUME IInv, NEW p \in Procs, NEW q, ClearDead(p, q), Owed' \subseteq Owed
  PROVE  Debt!Next
<1> DEFINE S == PathsOf(Chosen(q))
<1>1. /\ UNCHANGED <<artifact, head, pending, pc, job>> /\ excused' = excused \cup S
      /\ RewriteDead(dead \ Chosen(q))
  BY DEF ClearDead, disk
<1>2. S \in SUBSET Paths
  BY DEF IInv, TypeOK, Typed, Grave, PathsOf, Chosen
<1>3. \A d \in dead \ Chosen(q) : \E e \in dead' : SameIntent(d, e)
  BY <1>1, RewriteDeadKeeps
<1>4. PathsOf(dead) \subseteq PathsOf(dead') \cup S
  BY <1>3 DEF PathsOf, SameIntent
<1> HIDE DEF S
<1>5. Owed \ Owed' \subseteq S
  BY <1>1, <1>4 DEF Owed, Covered, InFlight
<1> QED BY <1>1, <1>2, <1>5, ExcuseStep

\* A commit, by a flush or by hand.
LEMMA CommitStep ==
  ASSUME IInv,
         \/ \E p \in Procs, i \in todo : CommitIntent(p, i)
         \/ \E q \in Paths : ManualCommit(q)
  PROVE  Debt!Next
<1>1. PICK q \in Paths : /\ head' = [head EXCEPT ![q] = artifact[q]]
                         /\ excused' = excused \ {q}
                         /\ UNCHANGED <<artifact, pending, dead, pc, job>>
  BY DEF CommitIntent, ManualCommit, graves, IInv, TypeOK, Typed, Intent
<1>2. Owed' = Owed
  BY <1>1 DEF Owed, Covered, InFlight, PathsOf
<1> QED BY <1>1, <1>2, PublishStep

-----------------------------------------------------------------------------
(* The refinement *)

LEMMA DebtInit == Init => Debt!Init
<1> SUFFICES ASSUME Init PROVE Debt!Init
  OBVIOUS
<1>1. Owed = {}
  BY DEF Init, Owed, Covered, InFlight, PathsOf
<1> QED BY <1>1 DEF Init, Debt!Init, Owed

LEMMA DebtStep ==
  ASSUME IInv, IInv', [Next]_vars
  PROVE  Debt!Next \/ UNCHANGED Debt!vars
<1> DEFINE Goal == Debt!Next \/ UNCHANGED Debt!vars
           Quiet == UNCHANGED <<artifact, head, excused>>
<1>1. ASSUME NEW p \in Procs, NEW q \in Paths, NEW cmd \in AllCommands,
             WriteArtifact(p, cmd, q)
      PROVE  Goal
  BY <1>1, TransitionStep
<1>2. ASSUME NoNewProducer PROVE Goal
  <2>1. Owed' \subseteq Owed
    BY <1>2, OwedShrinks
  <2>2. Quiet => Goal
    BY <2>1, DischargeStep DEF IInv
  <2> HIDE DEF Goal
  <2>3. ASSUME NEW p \in Procs, Start(p),
               ~\E q \in Paths, cmd \in AllCommands : WriteArtifact(p, cmd, q)
        PROVE  Goal
    <3>1. ASSUME NEW q, ClearDead(p, q) PROVE Goal
      BY <2>1, <3>1, WriteOffStep DEF Goal
    <3> QED BY <2>2, <2>3, <3>1 DEF Start, StartFlush, StartGate, RetryRequeue, disk, history
  <2>4. ASSUME NEW p \in Procs, FlushStep(p) PROVE Goal
    <3>1. ASSUME NEW i \in todo, CommitIntent(p, i) PROVE Goal
      BY <3>1, CommitStep DEF Goal
    <3> QED BY <2>2, <2>4, <3>1
            DEF FlushStep, BeginFlush, Rewrite, RewriteFails, SkipStranger, RefuseIgnored,
                FailIntent, Bury, BuryFails, disk, history
  <2>5. ASSUME NEW p \in Procs, RecordIntent(p) PROVE Goal
    BY <2>1, <2>5, ReassumeStep DEF Goal
  <2>6. ASSUME NEW p \in Procs, RecordUnavailable(p) \/ AbortComplete(p) PROVE Goal
    <3>1. pc[p] = "wrote"
      BY <2>6 DEF RecordUnavailable, AbortComplete
    <3> QED BY <2>1, <2>6, <3>1, GiveUpStep DEF Goal
  <2>7. ASSUME NEW p \in Procs, Continue(p) PROVE Goal
    BY <2>2, <2>4, <2>5, <2>6, <2>7
       DEF Continue, InlineCheck, GateStep, GateReadPending, GateReadDead, GateReturn,
           RetryStep, RetryDrop, RetryDropFails, disk, history
  <2>8. ASSUME NEW p \in Procs, Fail(p) PROVE Goal
    <3>1. CASE Crash(p)
      <4>1. CASE pc[p] = "wrote"
        BY <2>1, <3>1, <4>1, GiveUpStep DEF Goal
      <4>2. CASE pc[p] # "wrote"
        BY <2>2, <3>1, <4>2 DEF Crash, Die, disk
      <4> QED BY <4>1, <4>2
    <3>2. ASSUME NEW i \in todo, CrashWhileBurying(p, i) PROVE Goal
      BY <2>2, <3>2 DEF CrashWhileBurying, Die, disk
    <3> QED BY <2>8, <3>1, <3>2 DEF Fail
  <2>9. ASSUME NEW q \in Paths, ManualCommit(q) PROVE Goal
    BY <2>9, CommitStep DEF Goal
  <2>10. CASE UNCHANGED vars
    BY <2>2, <2>10 DEF vars, disk, history
  <2> HIDE DEF Quiet
  <2>11. ASSUME NEW p \in Procs, Start(p) PROVE Goal
    BY <1>1, <2>3, <2>11 DEF Goal
  <2> QED BY <2>7, <2>8, <2>9, <2>10, <2>11 DEF Next
<1>3. NoNewProducer \/ \E p \in Procs, q \in Paths, cmd \in AllCommands : WriteArtifact(p, cmd, q)
  BY ProducersStay DEF NoNewProducer, IInv
<1> QED BY <1>1, <1>2, <1>3

\* The outbox implements ArtifactDebt: every transition of an artifact opens a
\* debt, and a debt ends only when it is paid or somebody was told.
THEOREM OutboxImplementsDebt == Spec => KeepsThePromise
<1>1. IInv /\ IInv' /\ [Next]_vars => [Debt!Next]_(Debt!vars)
  BY DebtStep
<1> QED BY <1>1, DebtInit, Inductive, PTL DEF Spec, KeepsThePromise, Debt!Spec

-----------------------------------------------------------------------------
(* The numbers of the lines *)

Apart(S) == \A i, j \in S : i.line = j.line => i = j
Numbered(S) == Apart(S) /\ \A i \in S : i.line <= Cardinality(S)

\* A flush can tell the lines in its memory apart by their numbers, as the files
\* can, and so can whatever appends to these.
LinesApart ==
  /\ Numbered(pending) /\ Numbered(dead) /\ Apart(todo) /\ Apart(kept)
  /\ \A i \in todo, j \in kept : i.line # j.line

\* The marks of a set follow its lines.
LEMMA MarksApart ==
  ASSUME NEW S, IsFiniteSet(S), \A i \in S : i.line \in Nat, Apart(S),
         NEW i \in S, NEW j \in S, Mark(S, i) = Mark(S, j)
  PROVE  i = j
<1>1. ASSUME NEW k \in S, NEW l \in S, Mark(S, k) = Mark(S, l), k.line <= l.line PROVE k = l
  <2> DEFINE K == {x \in S : x.line <= k.line}  L == {x \in S : x.line <= l.line}
  <2>1. K \in SUBSET L
    BY <1>1
  <2>2. IsFiniteSet(L)
    BY FS_Subset
  <2>3. Cardinality(L) = Cardinality(K)
    BY <1>1 DEF Mark
  <2>4. L = K
    BY <2>1, <2>2, <2>3, FS_Subset
  <2>5. l \in L
    OBVIOUS
  <2>6. l \in K
    BY <2>4, <2>5
  <2>7. k.line = l.line
    BY <1>1, <2>6
  <2> QED BY <2>7 DEF Apart
<1>2. i.line <= j.line \/ j.line <= i.line
  OBVIOUS
<1> QED BY <1>1, <1>2

\* A rewritten file is numbered.
LEMMA RenumberNumbers ==
  ASSUME NEW S, IsFiniteSet(S), S \subseteq Intent \/ S \subseteq Grave, Apart(S)
  PROVE  Numbered(Renumber(S))
<1> DEFINE f == [i \in S |-> [i EXCEPT !.line = Mark(S, i)]]
           R == Renumber(S)
<1>1. \A i \in S : i.line \in Nat
  BY DEF Intent, Grave
<1>2. \A i \in S : f[i].line = Mark(S, i)
  BY DEF Intent, Grave
<1>3. R = {f[i] : i \in S} /\ f \in [S -> R]
  BY DEF Renumber, Mark
<1> HIDE DEF f, R
<1>4. ASSUME NEW i \in S, NEW j \in S, f[i].line = f[j].line PROVE i = j
  <2>1. Mark(S, i) = Mark(S, j)
    BY <1>2, <1>4
  <2> QED BY <1>1, <2>1, MarksApart
<1>5. \A i, j \in S : f[i] = f[j] => i = j
  BY <1>4
<1>6. f \in Injection(S, R) /\ f \in Surjection(S, R)
  BY <1>3, <1>5 DEF Injection, Surjection, IsInjective
<1>7. Cardinality(R) = Cardinality(S)
  BY <1>6, FS_Surjection
<1>8. \A i \in S : Mark(S, i) <= Cardinality(S)
  <2> SUFFICES ASSUME NEW i \in S PROVE Mark(S, i) <= Cardinality(S)
    OBVIOUS
  <2>1. {j \in S : j.line <= i.line} \in SUBSET S
    OBVIOUS
  <2> QED BY <2>1, FS_Subset DEF Mark
<1>9. Apart(R)
  BY <1>3, <1>4 DEF Apart
<1> QED BY <1>2, <1>3, <1>7, <1>8, <1>9 DEF Numbered, R

\* The three things that are written to the queue file.
LEMMA CoalescedApart ==
  ASSUME TypeOK, Numbered(pending), NEW q, NEW v PROVE Apart(CoalescedWith(q, v))
<1> DEFINE n == [line |-> NextLine(pending), path |-> q, ver |-> v, attempts |-> 0]
<1>1. Cardinality(pending) \in Nat /\ n.line = Cardinality(pending) + 1
  BY FS_CardinalityType DEF TypeOK, Typed, NextLine
<1>2. \A i \in pending : i.line \in Nat /\ i.line <= Cardinality(pending)
  BY DEF TypeOK, Typed, Intent, Numbered
<1>3. CoalescedWith(q, v) = {i \in pending : i.path # q} \cup {n}
  BY DEF CoalescedWith
<1> HIDE DEF n
<1> QED BY <1>1, <1>2, <1>3 DEF Apart, Numbered

LEMMA RevivedApart ==
  ASSUME TypeOK, Numbered(pending), Numbered(dead), NEW q PROVE Apart(pending \cup Revived(q))
<1> DEFINE c == Cardinality(pending)
           new(d) == [line |-> c + d.line, path |-> d.path, ver |-> d.ver, attempts |-> 0]
<1>1. c \in Nat
  BY FS_CardinalityType DEF TypeOK, Typed
<1>2. \A i \in pending : i.line \in Nat /\ i.line <= c
  BY DEF TypeOK, Typed, Intent, Numbered
<1>3. \A d \in dead : d.line \in Nat /\ d.line > 0 /\ new(d).line = c + d.line
  BY DEF TypeOK, Typed, Grave
<1>4. \A d \in Revived(q) : \E e \in dead : d = new(e)
  BY DEF Revived, Chosen
<1> HIDE DEF c, new
<1>5. \A i \in pending, d \in Revived(q) : i.line # d.line
  BY <1>1, <1>2, <1>3, <1>4
<1>6. \A d, e \in Revived(q) : d.line = e.line => d = e
  BY <1>1, <1>3, <1>4 DEF Numbered, Apart
<1> QED BY <1>5, <1>6 DEF Numbered, Apart

LEMMA MemoryApart == ASSUME LinesApart PROVE Apart(kept \cup todo)
BY DEF LinesApart, Apart

\* A letter is a line of its own.
LEMMA LetterNumbered ==
  ASSUME TypeOK, Numbered(dead), NEW i PROVE Numbered(dead \cup {LetterFor(i)})
<1>1. Cardinality(dead) \in Nat /\ LetterFor(i).line = Cardinality(dead) + 1
  BY FS_CardinalityType DEF TypeOK, Typed, LetterFor, NextLine
<1>2. \A d \in dead : d.line \in Nat /\ d.line <= Cardinality(dead)
  BY DEF TypeOK, Typed, Grave, Numbered
<1>3. LetterFor(i) \notin dead
  BY <1>1, <1>2
<1>4. Cardinality(dead \cup {LetterFor(i)}) = Cardinality(dead) + 1
  BY <1>3, FS_AddElement DEF TypeOK, Typed
<1> QED BY <1>1, <1>2, <1>4 DEF Numbered, Apart

-----------------------------------------------------------------------------
(* What a step may do to the files and the memory *)

\* Every write of the queue file is one of three rewrites.
LEMMA PendingMoves ==
  ASSUME IInv, [Next]_vars
  PROVE  \/ pending' = pending
         \/ pending' = Renumber(kept \cup todo) /\ \E p \in Procs : Flushing(p)
         \/ \E p \in Procs : RecordIntent(p)
         \/ \E p \in Procs, q \in Paths \cup {NoPath} : RetryRequeue(p, q)
<1>1. ASSUME NEW p \in Procs, FlushStep(p)
      PROVE  pending' = pending \/ (pending' = Renumber(kept \cup todo) /\ Flushing(p))
  <2>1. CASE Rewrite(p)
    <3>1. kept = kept \cup todo
      BY <2>1 DEF Rewrite
    <3> QED BY <2>1, <3>1 DEF Rewrite, Flushing
  <2> QED BY <1>1, <2>1
       DEF FlushStep, BeginFlush, RewriteFails, SkipStranger, CommitIntent, RefuseIgnored,
           FailIntent, Bury, BuryFails, Flushing
<1>2. ASSUME NEW p \in Procs, Continue(p)
      PROVE  \/ pending' = pending \/ RecordIntent(p)
             \/ pending' = Renumber(kept \cup todo) /\ Flushing(p)
  BY <1>1, <1>2
     DEF Continue, RecordUnavailable, AbortComplete, InlineCheck, GateStep, GateReadPending,
         GateReadDead, GateReturn, RetryStep, RetryDrop, RetryDropFails
<1>3. ASSUME NEW p \in Procs, Start(p)
      PROVE  pending' = pending \/ \E q \in Paths \cup {NoPath} : RetryRequeue(p, q)
  BY <1>3 DEF Start, StartFlush, StartGate, WriteArtifact, ClearDead
<1>4. ASSUME NEW p \in Procs, Fail(p) PROVE pending' = pending
  BY <1>4 DEF Fail, Crash, CrashWhileBurying
<1> QED BY <1>2, <1>3, <1>4 DEF Next, ManualCommit, vars

LEMMA DeadMoves ==
  ASSUME IInv, [Next]_vars
  PROVE  \/ dead' = dead
         \/ \E i \in todo : dead' = dead \cup {LetterFor(i)} /\ \E p \in Procs : Flushing(p)
         \/ \E S \in SUBSET dead : dead' = Renumber(S)
<1> DEFINE Goal == \/ dead' = dead
                   \/ \E i \in todo : dead' = dead \cup {LetterFor(i)} /\ \E p \in Procs : Flushing(p)
                   \/ \E S \in SUBSET dead : dead' = Renumber(S)
<1>1. ASSUME NEW S, RewriteDead(dead \ S) PROVE Goal
  BY <1>1 DEF RewriteDead
<1>2. ASSUME NEW i \in todo, NEW p \in Procs, Flushing(p), HalfAppended(i) \/ Appended(i) PROVE Goal
  BY <1>2 DEF HalfAppended, Appended
<1>3. dead' = dead => Goal
  OBVIOUS
<1> HIDE DEF Goal
<1>4. ASSUME NEW p \in Procs, FlushStep(p) PROVE Goal
  BY <1>2, <1>3, <1>4
     DEF FlushStep, BeginFlush, Rewrite, RewriteFails, SkipStranger, CommitIntent,
         RefuseIgnored, FailIntent, Bury, BuryFails, graves, Flushing
<1>5. ASSUME NEW p \in Procs, Continue(p) PROVE Goal
  BY <1>1, <1>3, <1>4, <1>5
     DEF Continue, RecordIntent, RecordUnavailable, AbortComplete, InlineCheck, GateStep,
         GateReadPending, GateReadDead, GateReturn, RetryStep, RetryDrop, RetryDropFails, graves
<1>6. ASSUME NEW p \in Procs, Start(p) PROVE Goal
  BY <1>1, <1>3, <1>6 DEF Start, StartFlush, StartGate, WriteArtifact, RetryRequeue, ClearDead, graves
<1>7. ASSUME NEW p \in Procs, Fail(p) PROVE Goal
  BY <1>2, <1>3, <1>7 DEF Fail, Crash, CrashWhileBurying, graves, Flushing
<1> QED BY <1>3, <1>5, <1>6, <1>7 DEF Next, ManualCommit, vars, graves, Goal

\* A flush takes a line over from the file, or moves or settles one.
LEMMA MemoryMoves ==
  ASSUME IInv, [Next]_vars
  PROVE  \/ UNCHANGED memory
         \/ todo' = {} /\ kept' = {}
         \/ todo' = pending /\ kept' = {}
         \/ \E i \in todo :
              \/ todo' = todo \ {i} /\ kept' = kept
              \/ \E j : /\ j.line = i.line
                        /\ \/ todo' = todo \ {i} /\ kept' = kept \cup {j}
                           \/ todo' = (todo \ {i}) \cup {j} /\ kept' = kept
<1> DEFINE Goal ==
         \/ UNCHANGED memory
         \/ todo' = {} /\ kept' = {}
         \/ todo' = pending /\ kept' = {}
         \/ \E i \in todo :
              \/ todo' = todo \ {i} /\ kept' = kept
              \/ \E j : /\ j.line = i.line
                        /\ \/ todo' = todo \ {i} /\ kept' = kept \cup {j}
                           \/ todo' = (todo \ {i}) \cup {j} /\ kept' = kept
<1>1. Release => Goal
  BY DEF Release
<1>2. ASSUME NEW p \in Procs, NEW i \in todo, SkipStranger(p, i) PROVE Goal
  BY <1>2 DEF SkipStranger
<1>3. ASSUME NEW p \in Procs, NEW i \in todo, CommitIntent(p, i) \/ Bury(p, i) PROVE Goal
  BY <1>3 DEF CommitIntent, Bury
<1>4. ASSUME NEW p \in Procs, NEW i \in todo, RefuseIgnored(p, i) PROVE Goal
  <2>1. [i EXCEPT !.attempts = MaxAttempts].line = i.line
    BY DEF IInv, TypeOK, Typed, Intent
  <2> QED BY <1>4, <2>1 DEF RefuseIgnored
<1>5. ASSUME NEW p \in Procs, NEW i \in todo, FailIntent(p, i) PROVE Goal
  <2>1. [i EXCEPT !.attempts = @ + 1].line = i.line
    BY DEF IInv, TypeOK, Typed, Intent
  <2> QED BY <1>5, <2>1 DEF FailIntent
<1>6. ASSUME NEW p \in Procs, BeginFlush(p) PROVE Goal
  BY <1>6 DEF BeginFlush
<1>7. UNCHANGED memory => Goal
  OBVIOUS
<1> HIDE DEF Goal
<1>8. ASSUME NEW p \in Procs, FlushStep(p) PROVE Goal
  BY <1>1, <1>2, <1>3, <1>4, <1>5, <1>6, <1>8 DEF FlushStep, Rewrite, RewriteFails, BuryFails
<1>9. ASSUME NEW p \in Procs, Continue(p) PROVE Goal
  BY <1>1, <1>7, <1>8, <1>9
     DEF Continue, RecordIntent, RecordUnavailable, AbortComplete, InlineCheck, GateStep,
         GateReadPending, GateReadDead, GateReturn, RetryStep, RetryDrop, RetryDropFails
<1>10. ASSUME NEW p \in Procs, Start(p) PROVE Goal
  BY <1>7, <1>10 DEF Start, StartFlush, StartGate, WriteArtifact, RetryRequeue, ClearDead
<1>11. ASSUME NEW p \in Procs, Fail(p) PROVE Goal
  BY <1>1, <1>7, <1>11 DEF Fail, Crash, CrashWhileBurying, Die, memory
<1> QED BY <1>7, <1>9, <1>10, <1>11 DEF Next, ManualCommit, vars, memory, Goal

LEMMA LinesApartInit == Init => LinesApart
BY DEF Init, LinesApart, Numbered, Apart

LEMMA LinesApartStep ==
  ASSUME IInv, LinesApart, [Next]_vars
  PROVE  LinesApart'
<1>0. TypeOK /\ kept \cup todo \subseteq Intent /\ IsFiniteSet(kept \cup todo)
  BY FS_Union DEF IInv, TypeOK, Typed
<1>1. Numbered(pending)'
  <2>1. CASE pending' = pending
    BY <2>1 DEF LinesApart, Numbered, Apart
  <2>2. CASE pending' = Renumber(kept \cup todo)
    BY <1>0, <2>2, MemoryApart, RenumberNumbers DEF Numbered, Apart
  <2>3. ASSUME NEW p \in Procs, RecordIntent(p) PROVE Numbered(pending)'
    <3> DEFINE C == CoalescedWith(job[p].path, job[p].ver)
    <3>1. pending' = Renumber(C) /\ job[p].path \in Paths /\ job[p].ver \in Nat
      BY <1>0, <2>3 DEF TypeOK, Typed, ProducersNamed, RecordIntent, CoalescedWith, Job
    <3>2. C \subseteq Intent /\ IsFiniteSet(C) /\ Apart(C)
      BY <1>0, <3>1, CoalescedTyped, CoalescedApart DEF LinesApart
    <3> HIDE DEF C
    <3> QED BY <3>1, <3>2, RenumberNumbers DEF Numbered, Apart
  <2>4. ASSUME NEW p \in Procs, NEW q, RetryRequeue(p, q) PROVE Numbered(pending)'
    <3> DEFINE F == pending \cup Revived(q)
    <3>1. F \subseteq Intent /\ IsFiniteSet(F) /\ pending' = Renumber(F)
      BY <1>0, <2>4, RevivedTyped, FS_Union DEF TypeOK, Typed, RetryRequeue, Revived
    <3>2. Apart(F)
      BY <1>0, RevivedApart DEF LinesApart
    <3> HIDE DEF F
    <3> QED BY <3>1, <3>2, RenumberNumbers DEF Numbered, Apart
  <2> QED BY <2>1, <2>2, <2>3, <2>4, PendingMoves
<1>2. Numbered(dead)'
  <2>1. CASE dead' = dead
    BY <2>1 DEF LinesApart, Numbered, Apart
  <2>2. ASSUME NEW i \in todo, dead' = dead \cup {LetterFor(i)} PROVE Numbered(dead)'
    BY <1>0, <2>2, LetterNumbered DEF LinesApart, Numbered, Apart
  <2>3. ASSUME NEW S \in SUBSET dead, dead' = Renumber(S) PROVE Numbered(dead)'
    <3>1. IsFiniteSet(S) /\ S \subseteq Grave /\ Apart(S)
      BY <1>0, FS_Subset DEF TypeOK, Typed, LinesApart, Numbered, Apart
    <3> QED BY <2>3, <3>1, RenumberNumbers DEF Numbered, Apart
  <2> QED BY <2>1, <2>2, <2>3, DeadMoves
<1>3. Apart(todo)' /\ Apart(kept)' /\ \A i \in todo', j \in kept' : i.line # j.line
  BY MemoryMoves DEF LinesApart, Numbered, Apart, memory
<1> QED BY <1>1, <1>2, <1>3 DEF LinesApart

-----------------------------------------------------------------------------
(* What a flush leaves alone *)

\* A line of the queue file is in the flush's memory with the failures it had.
InMemory(i) == \E j \in todo \cup kept : SameIntent(i, j) /\ j.attempts = i.attempts

\* A flush of one item gives up only that item's intents, and remembers the
\* others as they are in the file.
FlushesOwn ==
  \A p \in Procs :
    /\ pc[p] = "burying" => \E i \in todo : Oldest(todo, i) /\ Selects(job[p].path, i)
    /\ Flushing(p) /\ job[p].path # NoPath =>
         \A i \in pending : i.path # job[p].path => InMemory(i)

\* The steps a flush makes over its memory.
Passes(p, i) ==
  SkipStranger(p, i) \/ CommitIntent(p, i) \/ RefuseIgnored(p, i) \/ FailIntent(p, i) \/ Bury(p, i)

\* While a process flushes, nobody else touches its memory or the queue file.
LEMMA FlushMoves ==
  ASSUME IInv, [Next]_vars, NEW p \in Procs, Flushing(p)'
  PROVE  \/ BeginFlush(p)
         \/ /\ Flushing(p) /\ UNCHANGED pending /\ job'[p] = job[p]
            /\ \/ UNCHANGED memory /\ pc'[p] = pc[p]
               \/ \E i \in todo : Passes(p, i)
<1> DEFINE Goal ==
             \/ BeginFlush(p)
             \/ /\ Flushing(p) /\ UNCHANGED pending /\ job'[p] = job[p]
                /\ \/ UNCHANGED memory /\ pc'[p] = pc[p]
                   \/ \E i \in todo : Passes(p, i)
<1>0. pc \in [Procs -> PCs] /\ job \in [Procs -> Job] /\ NoProc \notin Procs
  BY ConstantsOK DEF IInv, TypeOK, Typed
<1>1. pc'[p] \in {"flushing", "burying"}
  BY DEF Flushing
<1>2. ASSUME UNCHANGED <<pc, job, memory, pending>> PROVE Goal
  BY <1>1, <1>2 DEF Flushing
<1>3. ASSUME NEW r \in Procs, NEW step, GoTo(r, step), step \notin {"flushing", "burying"},
             \/ UNCHANGED job
             \/ \E j : job' = [job EXCEPT ![r] = j]
      PROVE  r # p /\ pc'[p] = pc[p] /\ job'[p] = job[p] /\ Flushing(p)
  BY <1>0, <1>1, <1>3 DEF GoTo, Flushing
<1>4. ASSUME NEW r \in Procs, Finish(r)
      PROVE  r # p /\ pc'[p] = pc[p] /\ job'[p] = job[p] /\ Flushing(p)
  BY <1>3, <1>4 DEF Finish
<1>5. ASSUME NEW r \in Procs, AfterFlush(r)
      PROVE  r # p /\ pc'[p] = pc[p] /\ job'[p] = job[p] /\ Flushing(p)
  BY <1>3, <1>4, <1>5 DEF AfterFlush
<1>6. \A r \in Procs : Flushing(p) /\ r # p =>
           lock # NoProc /\ lock # r /\ ~Flushing(r) /\ pc[r] # "requeued"
  BY <1>0, HolderAlone DEF IInv, LockHeld, Flushing
<1>7. ASSUME Flushing(p), pc'[p] = pc[p], job'[p] = job[p], UNCHANGED <<memory, pending>>
      PROVE  Goal
  BY <1>7
<1> HIDE DEF Goal
<1>8. ASSUME NEW r \in Procs, Start(r) PROVE Goal
  <2>1. ASSUME NEW q \in Paths, NEW cmd \in AllCommands, WriteArtifact(r, cmd, q) PROVE Goal
    BY <1>3, <1>7, <2>1 DEF WriteArtifact
  <2>2. ASSUME NEW q \in Paths, StartGate(r, q) PROVE Goal
    BY <1>3, <1>7, <2>2 DEF StartGate
  <2>3. ASSUME NEW q, RetryRequeue(r, q) PROVE Goal
    BY <1>3, <1>6, <2>3 DEF RetryRequeue, Take
  <2>4. ASSUME NEW q, ClearDead(r, q) PROVE Goal
    BY <1>2, <2>4 DEF ClearDead
  <2>5. ASSUME StartFlush(r) PROVE Goal
    BY <1>3, <1>7, <2>5 DEF StartFlush
  <2> QED BY <1>8, <2>1, <2>2, <2>3, <2>4, <2>5 DEF Start
<1>9. ASSUME NEW r \in Procs, FlushStep(r) PROVE Goal
  <2>1. ASSUME BeginFlush(r) PROVE Goal
    <3>1. CASE r = p
      BY <2>1, <3>1 DEF Goal
    <3>2. CASE r # p
      <4>1. Flushing(p)
        BY <1>0, <1>1, <2>1, <3>2 DEF BeginFlush, GoTo, Flushing
      <4> QED BY <1>6, <2>1, <3>2, <4>1 DEF BeginFlush, Take
    <3> QED BY <3>1, <3>2
  <2>2. ASSUME NEW i \in todo, Passes(r, i) PROVE Goal
    <3>1. Flushing(r) /\ UNCHANGED <<pending, job>>
      BY <2>2 DEF Passes, SkipStranger, CommitIntent, RefuseIgnored, FailIntent, Bury, Flushing
    <3>2. \A s \in Procs : s # r => pc'[s] = pc[s]
      BY <1>0, <2>2 DEF Passes, SkipStranger, CommitIntent, RefuseIgnored, FailIntent, Bury, GoTo
    <3>3. r = p
      BY <1>1, <1>6, <3>1, <3>2 DEF Flushing
    <3> QED BY <2>2, <3>1, <3>3 DEF Goal
  <2>3. ASSUME Rewrite(r) \/ RewriteFails(r) PROVE Goal
    BY <1>5, <1>6, <2>3 DEF Rewrite, RewriteFails, Flushing
  <2>4. ASSUME NEW i \in todo, BuryFails(r, i) PROVE Goal
    BY <1>5, <1>6, <2>4 DEF BuryFails, Flushing
  <2> QED BY <1>9, <2>1, <2>2, <2>3, <2>4 DEF FlushStep, Passes
<1>10. ASSUME NEW r \in Procs, RecordIntent(r) PROVE Goal
  <2>1. Flushing(p)
    BY <1>3, <1>4, <1>10 DEF RecordIntent
  <2>2. r # p
    BY <2>1, <1>10 DEF RecordIntent, Flushing
  <2> QED BY <1>6, <1>10, <2>1, <2>2 DEF RecordIntent
<1>11. ASSUME NEW r \in Procs, RecordUnavailable(r) \/ AbortComplete(r) \/ GateStep(r) PROVE Goal
  BY <1>3, <1>4, <1>7, <1>11
     DEF RecordUnavailable, AbortComplete, GateStep, GateReadPending, GateReadDead, GateReturn
<1>12. ASSUME NEW r \in Procs, InlineCheck(r) PROVE Goal
  BY <1>3, <1>5, <1>7, <1>12 DEF InlineCheck
<1>13. ASSUME NEW r \in Procs, RetryStep(r) PROVE Goal
  BY <1>4, <1>6, <1>13 DEF RetryStep, RetryDrop, RetryDropFails
<1>14. ASSUME NEW r \in Procs, Fail(r) PROVE Goal
  <2>1. Die(r) /\ UNCHANGED pending
    BY <1>14 DEF Fail, Crash, CrashWhileBurying
  <2>2. r # p /\ pc'[p] = pc[p] /\ job'[p] = job[p] /\ Flushing(p)
    BY <1>4, <2>1 DEF Die
  <2>3. UNCHANGED memory
    BY <1>6, <2>1, <2>2 DEF Die
  <2> QED BY <1>7, <2>1, <2>2, <2>3
<1>15. ASSUME NEW r \in Procs, Continue(r) PROVE Goal
  BY <1>9, <1>10, <1>11, <1>12, <1>13, <1>15 DEF Continue
<1>16. ASSUME NEW q \in Paths, ManualCommit(q) PROVE Goal
  BY <1>2, <1>16 DEF ManualCommit
<1>17. ASSUME UNCHANGED vars PROVE Goal
  BY <1>2, <1>17 DEF vars
<1>18. Goal
  BY <1>8, <1>14, <1>15, <1>16, <1>17 DEF Next
<1> QED BY <1>18 DEF Goal

\* A pass over one line of its own, or over a stranger, keeps every stranger.
LEMMA PassRemembers ==
  ASSUME IInv, LinesApart, FlushesOwn, NEW p \in Procs, NEW i \in todo, Passes(p, i),
         job[p].path # NoPath, NEW k \in pending, k.path # job[p].path
  PROVE  \E j \in todo' \cup kept' : SameIntent(k, j) /\ j.attempts = k.attempts
<1>1. Flushing(p)
  BY DEF Passes, SkipStranger, CommitIntent, RefuseIgnored, FailIntent, Bury, Flushing
<1>2. PICK j \in todo \cup kept : SameIntent(k, j) /\ j.attempts = k.attempts
  BY <1>1 DEF FlushesOwn, InMemory
<1>3. CASE SkipStranger(p, i)
  <2>1. j \in todo' \cup kept'
    BY <1>2, <1>3 DEF SkipStranger
  <2> QED BY <1>2, <2>1
<1>4. CASE ~SkipStranger(p, i)
  <2>1. Selects(job[p].path, i)
    <3>1. CASE Bury(p, i)
      <4>1. PICK o \in todo : Oldest(todo, o) /\ Selects(job[p].path, o)
        BY <3>1 DEF Bury, FlushesOwn
      <4>2. o.line <= i.line /\ i.line <= o.line /\ o.line \in Nat /\ i.line \in Nat
        BY <3>1, <4>1 DEF Bury, Oldest, IInv, TypeOK, Typed, Intent
      <4>3. o = i
        BY <4>2 DEF LinesApart, Apart
      <4> QED BY <4>1, <4>3
    <3> QED BY <1>4, <3>1 DEF Passes, CommitIntent, RefuseIgnored, FailIntent
  <2>2. i.path = job[p].path
    BY <2>1 DEF Selects
  <2>3. j # i
    BY <1>2, <2>2 DEF SameIntent
  <2>4. (todo \ {i}) \cup kept \subseteq todo' \cup kept'
    BY <1>4 DEF Passes, CommitIntent, RefuseIgnored, FailIntent, Bury
  <2> QED BY <1>2, <2>3, <2>4
<1> QED BY <1>3, <1>4

\* What a flush gives up is what it was looking at.
LEMMA PassBuriesOwn ==
  ASSUME IInv, LinesApart, NEW p \in Procs, NEW i \in todo, Passes(p, i), pc'[p] = "burying"
  PROVE  \E o \in todo' : Oldest(todo', o) /\ Selects(job[p].path, o)
<1>0. pc \in [Procs -> PCs] /\ i \in Intent
  BY DEF IInv, TypeOK, Typed
<1>1. ASSUME NEW o, o.line = i.line, o.path = i.path, todo' = (todo \ {i}) \cup {o},
             Oldest(todo, i), Selects(job[p].path, i)
      PROVE  \E x \in todo' : Oldest(todo', x) /\ Selects(job[p].path, x)
  BY <1>1, <1>0 DEF Oldest, Selects, Intent
<1>2. CASE RefuseIgnored(p, i)
  <2> DEFINE o == [i EXCEPT !.attempts = MaxAttempts]
  <2>1. o.line = i.line /\ o.path = i.path
    BY <1>0 DEF Intent
  <2> QED BY <1>1, <1>2, <2>1 DEF RefuseIgnored
<1>3. CASE FailIntent(p, i)
  <2> DEFINE o == [i EXCEPT !.attempts = @ + 1]
  <2>1. o.line = i.line /\ o.path = i.path
    BY <1>0 DEF Intent
  <2>2. todo' = (todo \ {i}) \cup {o}
    BY <1>0, <1>3 DEF FailIntent, GoTo
  <2> QED BY <1>1, <1>3, <2>1, <2>2 DEF FailIntent
<1>4. SkipStranger(p, i) \/ CommitIntent(p, i) \/ Bury(p, i) => pc'[p] # "burying"
  BY <1>0 DEF SkipStranger, CommitIntent, Bury, GoTo
<1> QED BY <1>2, <1>3, <1>4 DEF Passes

LEMMA FlushesOwnStep ==
  ASSUME IInv, LinesApart, FlushesOwn, [Next]_vars
  PROVE  FlushesOwn'
<1> SUFFICES ASSUME NEW p \in Procs, Flushing(p)'
             PROVE  /\ pc'[p] = "burying" =>
                         \E i \in todo' : Oldest(todo', i) /\ Selects(job'[p].path, i)
                    /\ job'[p].path # NoPath =>
                         \A i \in pending' : i.path # job'[p].path =>
                           \E j \in todo' \cup kept' : SameIntent(i, j) /\ j.attempts = i.attempts
  BY DEF FlushesOwn, Flushing, InMemory, Oldest, Selects, SameIntent
<1>1. CASE BeginFlush(p)
  <2>1. pc'[p] = "flushing" /\ todo' = pending /\ pending' = pending
    BY <1>1 DEF BeginFlush, GoTo, IInv, TypeOK, Typed
  <2> QED BY <2>1 DEF SameIntent
<1>2. CASE /\ Flushing(p) /\ UNCHANGED pending /\ job'[p] = job[p]
           /\ UNCHANGED memory /\ pc'[p] = pc[p]
  BY <1>2 DEF FlushesOwn, InMemory, memory
<1>3. CASE /\ Flushing(p) /\ UNCHANGED pending /\ job'[p] = job[p]
           /\ \E i \in todo : Passes(p, i)
  BY <1>3, PassRemembers, PassBuriesOwn
<1> QED BY <1>1, <1>2, <1>3, FlushMoves

LEMMA FlushesOwnInit == Init => FlushesOwn
BY DEF Init, FlushesOwn, Flushing

\* The lines and the memory together.
FInv == IInv /\ LinesApart /\ FlushesOwn

LEMMA FlushInductive == Spec => []FInv
<1>1. Init => FInv
  BY IInvInit, LinesApartInit, FlushesOwnInit DEF FInv
<1>2. FInv /\ [Next]_vars => FInv'
  BY IInvStep, LinesApartStep, FlushesOwnStep DEF FInv
<1> QED BY <1>1, <1>2, PTL DEF Spec

\* What a step of anybody does to the lines a scoped flush must leave alone.
Strangers(p) ==
  lock = p /\ job[p].cmd # "retry" /\ job[p].path # NoPath =>
    \A i \in pending : i.path # job[p].path =>
      \E j \in pending' : SameIntent(i, j) /\ j.attempts = i.attempts

LEMMA StrangersStep ==
  ASSUME FInv, [Next]_vars, NEW p \in Procs
  PROVE  Strangers(p)
<1> SUFFICES ASSUME lock = p, job[p].path # NoPath, NEW i \in pending, i.path # job[p].path
             PROVE  \E j \in pending' : SameIntent(i, j) /\ j.attempts = i.attempts
  BY DEF Strangers
<1>0. IInv /\ NoProc \notin Procs
  BY ConstantsOK DEF FInv
<1>1. CASE pending' = pending
  BY <1>1 DEF SameIntent
<1>2. CASE pending' = Renumber(kept \cup todo) /\ \E r \in Procs : Flushing(r)
  <2>1. Flushing(p)
    BY <1>0, <1>2, HolderAlone
  <2>2. PICK k \in kept \cup todo : SameIntent(i, k) /\ k.attempts = i.attempts
    BY <2>1 DEF FInv, FlushesOwn, InMemory
  <2>3. kept \cup todo \subseteq Intent /\ IsFiniteSet(kept \cup todo)
    BY <1>0, FS_Union DEF IInv, TypeOK, Typed
  <2>4. PICK j \in pending' : SameIntent(k, j) /\ j.attempts = k.attempts
    BY <1>2, <2>2, <2>3, RenumberIntents
  <2> QED BY <2>2, <2>4 DEF SameIntent
<1>3. ASSUME NEW r \in Procs, NEW q, RecordIntent(r) \/ RetryRequeue(r, q) PROVE FALSE
  BY <1>0, <1>3 DEF RecordIntent, RetryRequeue, Take
<1> QED BY <1>0, <1>1, <1>2, <1>3, PendingMoves

\* Draining one item's own intents leaves every other intent queued as it was,
\* its failure count included: of the processes that hold the lock, only a
\* flush rewrites the queue file, and it remembers the strangers.
THEOREM StrangersStayUntouched == Spec => StrangersUntouched
<1>1. FInv /\ [Next]_vars => [\A p \in Procs : Strangers(p)]_vars
  BY StrangersStep
<1> QED BY <1>1, FlushInductive, PTL DEF Spec, StrangersUntouched, Strangers

-----------------------------------------------------------------------------
(* What a gate saw *)

Producing(r, q) == pc[r] = "wrote" /\ job[r].path = q

\* A transition whose producer has not recorded it is in neither file, and no
\* two producers are about to record the same one.
Unqueued ==
  \A r \in Procs : pc[r] = "wrote" =>
    /\ \A x \in pending \cup dead : x.path = job[r].path => x.ver # job[r].ver
    /\ \A s \in Procs \ {r} : Producing(s, job[r].path) => job[s].ver # job[r].ver

\* Between its two reads a gate accounts only for transitions that are over, and
\* none of them is queued or will be.
GateSaw ==
  \A p \in Procs : pc[p] = "gateDead" =>
    /\ \A v \in standing[p] : job[p].path \in Paths /\ v <= artifact[job[p].path]
    /\ \A i \in Own(pending, job[p].path) : i.ver \notin standing[p]
    /\ \A r \in Procs : Producing(r, job[p].path) => job[r].ver \notin standing[p]

LEMMA MemoryQueued ==
  ASSUME IInv, NEW p \in Procs, Flushing(p), NEW k \in todo \cup kept
  PROVE  \E y \in pending : SameIntent(k, y)
BY DEF IInv, SnapshotQueued, Flushing, SameIntent

\* Where a line of the two files comes from.
LEMMA PendingFrom ==
  ASSUME IInv, [Next]_vars, "retry" \notin Commands, NEW x \in pending'
  PROVE  \/ \E y \in pending : SameIntent(x, y)
         \/ \E p \in Procs : pc[p] = "wrote" /\ x.path = job[p].path /\ x.ver = job[p].ver
                             /\ RecordIntent(p)
<1>0. TypeOK
  BY DEF IInv
<1>1. CASE pending' = pending
  BY <1>1 DEF SameIntent
<1>2. CASE pending' = Renumber(kept \cup todo) /\ \E p \in Procs : Flushing(p)
  <2>1. PICK k \in kept \cup todo : SameIntent(x, k)
    BY <1>2, SavedByRewrite
  <2>2. PICK y \in pending : SameIntent(k, y)
    BY <1>2, MemoryQueued
  <2> QED BY <2>1, <2>2 DEF SameIntent
<1>3. ASSUME NEW p \in Procs, RecordIntent(p)
      PROVE  \/ \E y \in pending : SameIntent(x, y)
             \/ pc[p] = "wrote" /\ x.path = job[p].path /\ x.ver = job[p].ver
  <2> DEFINE C == CoalescedWith(job[p].path, job[p].ver)
  <2>1. pending' = Renumber(C) /\ job[p].path \in Paths /\ job[p].ver \in Nat /\ pc[p] = "wrote"
    BY <1>0, <1>3 DEF TypeOK, Typed, ProducersNamed, RecordIntent, CoalescedWith, Job
  <2>2. C \subseteq Intent /\ IsFiniteSet(C)
    BY <1>0, <2>1, CoalescedTyped
  <2>3. \A i \in C : i \in pending \/ (i.path = job[p].path /\ i.ver = job[p].ver)
    BY CoalescedCovers
  <2> HIDE DEF C
  <2>4. PICK i \in C : SameIntent(x, i)
    BY <2>1, <2>2, RenumberIntents
  <2> QED BY <2>1, <2>3, <2>4 DEF SameIntent
<1>4. ASSUME NEW p \in Procs, NEW q, RetryRequeue(p, q) PROVE FALSE
  BY <1>4 DEF RetryRequeue
<1> QED BY <1>1, <1>2, <1>3, <1>4, PendingMoves

LEMMA DeadFrom ==
  ASSUME IInv, [Next]_vars, NEW x \in dead'
  PROVE  \E y \in pending \cup dead : SameIntent(x, y)
<1>0. TypeOK
  BY DEF IInv
<1>1. CASE dead' = dead
  BY <1>1 DEF SameIntent
<1>2. ASSUME NEW i \in todo, dead' = dead \cup {LetterFor(i)}, \E p \in Procs : Flushing(p)
      PROVE  \E y \in pending \cup dead : SameIntent(x, y)
  <2>1. \E y \in pending : SameIntent(i, y)
    BY <1>2, MemoryQueued
  <2> QED BY <1>2, <2>1 DEF SameIntent, LetterFor
<1>3. ASSUME NEW S \in SUBSET dead, dead' = Renumber(S)
      PROVE  \E y \in pending \cup dead : SameIntent(x, y)
  <2>1. IsFiniteSet(S) /\ S \subseteq Grave
    BY <1>0, FS_Subset DEF TypeOK, Typed
  <2> QED BY <1>3, <2>1, RenumberGraves
<1> QED BY <1>1, <1>2, <1>3, DeadMoves

\* Artifacts are only ever rewritten.
LEMMA ArtifactsGrow ==
  ASSUME IInv, [Next]_vars, NEW q \in Paths
  PROVE  artifact[q] <= artifact'[q] /\ artifact[q] \in Nat /\ artifact'[q] \in Nat
<1>0. artifact \in [Paths -> Nat]
  BY DEF IInv, TypeOK, Typed
<1>1. ASSUME NEW x \in Paths, artifact' = [artifact EXCEPT ![x] = @ + 1]
      PROVE  artifact[q] <= artifact'[q] /\ artifact'[q] \in Nat
  BY <1>0, <1>1
<1>2. ASSUME NEW p \in Procs, AbortComplete(p)
      PROVE  \E x \in Paths : artifact' = [artifact EXCEPT ![x] = @ + 1]
  BY <1>2 DEF AbortComplete, IInv, TypeOK, ProducersNamed
<1>3. ASSUME NEW p \in Procs, Continue(p)
      PROVE  UNCHANGED artifact \/ \E x \in Paths : artifact' = [artifact EXCEPT ![x] = @ + 1]
  BY <1>2, <1>3
     DEF Continue, RecordIntent, RecordUnavailable, InlineCheck, FlushStep, BeginFlush, Rewrite,
         RewriteFails, SkipStranger, CommitIntent, RefuseIgnored, FailIntent, Bury, BuryFails,
         GateStep, GateReadPending, GateReadDead, GateReturn, RetryStep, RetryDrop,
         RetryDropFails, disk
<1>4. ASSUME NEW p \in Procs, Start(p)
      PROVE  UNCHANGED artifact \/ \E x \in Paths : artifact' = [artifact EXCEPT ![x] = @ + 1]
  BY <1>4 DEF Start, StartFlush, StartGate, WriteArtifact, RetryRequeue, ClearDead, disk
<1>5. ASSUME NEW p \in Procs, Fail(p) PROVE UNCHANGED artifact
  BY <1>5 DEF Fail, Crash, CrashWhileBurying, disk
<1>6. UNCHANGED artifact \/ \E x \in Paths : artifact' = [artifact EXCEPT ![x] = @ + 1]
  BY <1>3, <1>4, <1>5 DEF Next, ManualCommit, vars, disk
<1> QED BY <1>0, <1>1, <1>6

\* A producer's new transition is ahead of everything written before it.
LEMMA NewIsAhead ==
  ASSUME IInv, NEW r \in Procs, NEW cmd \in AllCommands, NEW q \in Paths, WriteArtifact(r, cmd, q)
  PROVE  /\ job'[r].path = q /\ job'[r].ver = artifact[q] + 1 /\ artifact[q] \in Nat
         /\ pc[r] = "idle" /\ UNCHANGED <<pending, dead>>
         /\ \A s \in Procs \ {r} : pc'[s] = pc[s] /\ job'[s] = job[s]
BY DEF IInv, TypeOK, Typed, WriteArtifact, GoTo, graves

LEMMA UnqueuedStep ==
  ASSUME IInv, Unqueued, [Next]_vars, "retry" \notin Commands
  PROVE  Unqueued'
<1>0. TypeOK /\ \A q \in Paths : artifact[q] \in Nat
  BY DEF IInv, TypeOK, Typed
<1>1. CASE \E r \in Procs, cmd \in AllCommands, q \in Paths : WriteArtifact(r, cmd, q)
  <2>1. PICK r \in Procs, cmd \in AllCommands, q \in Paths : WriteArtifact(r, cmd, q)
    BY <1>1
  <2>2. /\ job'[r].path = q /\ job'[r].ver = artifact[q] + 1 /\ artifact[q] \in Nat
        /\ pc[r] = "idle" /\ UNCHANGED <<pending, dead>>
        /\ \A s \in Procs \ {r} : pc'[s] = pc[s] /\ job'[s] = job[s]
    BY <2>1, NewIsAhead
  <2>3. \A x \in pending \cup dead : x.path = q => x.ver \in Nat /\ x.ver <= artifact[q]
    BY <1>0 DEF IInv, TypeOK, Typed, Intent, Grave, VersionsReached
  <2>4. \A s \in Procs : Producing(s, q) => job[s].ver \in Nat /\ job[s].ver <= artifact[q]
    BY <1>0 DEF IInv, TypeOK, Typed, Job, VersionsReached, Producing
  <2>5. \A x \in pending' \cup dead' : x.path = q => x.ver # artifact[q] + 1
    BY <2>2, <2>3
  <2>6. \A s \in Procs \ {r} : Producing(s, q)' => job'[s].ver # artifact[q] + 1
    BY <2>2, <2>4 DEF Producing
  <2> SUFFICES ASSUME NEW s \in Procs, pc'[s] = "wrote"
               PROVE  /\ \A x \in pending' \cup dead' : x.path = job'[s].path => x.ver # job'[s].ver
                      /\ \A t \in Procs \ {s} :
                           Producing(t, job[s].path)' => job'[t].ver # job'[s].ver
    BY DEF Unqueued, Producing
  <2>7. CASE s = r
    BY <2>2, <2>5, <2>6, <2>7 DEF Producing
  <2>8. CASE s # r
    <3>1. pc[s] = "wrote" /\ job'[s] = job[s]
      BY <2>2, <2>8
    <3>2. \A x \in pending' \cup dead' : x.path = job'[s].path => x.ver # job'[s].ver
      BY <2>2, <3>1 DEF Unqueued
    <3>3. ASSUME NEW t \in Procs \ {s}, Producing(t, job[s].path)' PROVE job'[t].ver # job'[s].ver
      <4>1. CASE t = r
        BY <2>2, <2>6, <2>8, <3>1, <3>3, <4>1 DEF Producing
      <4>2. CASE t # r
        BY <2>2, <3>1, <3>3, <4>2 DEF Unqueued, Producing
      <4> QED BY <4>1, <4>2
    <3> QED BY <3>2, <3>3
  <2> QED BY <2>7, <2>8
<1>2. CASE ~\E r \in Procs, cmd \in AllCommands, q \in Paths : WriteArtifact(r, cmd, q)
  <2>1. \A s \in Procs : pc'[s] = "wrote" => pc[s] = "wrote" /\ job'[s] = job[s]
    BY <1>0, <1>2, ProducersStay
  <2>2. ASSUME NEW s \in Procs, pc'[s] = "wrote",
               NEW x \in pending' \cup dead', x.path = job'[s].path
        PROVE  x.ver # job'[s].ver
    <3>1. CASE \E y \in pending \cup dead : SameIntent(x, y)
      BY <2>1, <2>2, <3>1 DEF Unqueued, SameIntent
    <3>2. ASSUME NEW p \in Procs, pc[p] = "wrote", x.path = job[p].path, x.ver = job[p].ver,
                 RecordIntent(p)
          PROVE  x.ver # job'[s].ver
      <4>1. pc'[p] # "wrote"
        BY <1>0, <3>2 DEF TypeOK, Typed, RecordIntent, Finish, GoTo
      <4>2. s \in Procs \ {p} /\ pc[s] = "wrote" /\ job'[s] = job[s]
        BY <2>1, <2>2, <4>1
      <4> QED BY <2>2, <3>2, <4>2 DEF Unqueued, Producing
    <3> QED BY <3>1, <3>2, PendingFrom, DeadFrom
  <2> QED BY <2>1, <2>2 DEF Unqueued, Producing
<1> QED BY <1>1, <1>2

\* A gate is between its reads, or passes, by its own reads alone.
LEMMA GateMoves ==
  ASSUME IInv, [Next]_vars, NEW p \in Procs, pc'[p] \in {"gateDead", "passed"}
  PROVE  \/ GateReadPending(p)
         \/ GateReadDead(p) /\ ~Unresolved(job[p].path)
         \/ pc'[p] = pc[p] /\ job'[p] = job[p] /\ standing'[p] = standing[p]
<1> DEFINE Kept == pc'[p] = pc[p] /\ job'[p] = job[p] /\ standing'[p] = standing[p]
           Goal == \/ GateReadPending(p)
                   \/ GateReadDead(p) /\ ~Unresolved(job[p].path)
                   \/ Kept
<1>0. pc \in [Procs -> PCs] /\ job \in [Procs -> Job] /\ standing \in [Procs -> SUBSET Nat]
  BY DEF IInv, TypeOK, Typed
<1>1. ASSUME NEW r \in Procs, NEW step, GoTo(r, step), step \notin {"gateDead", "passed"},
             \/ UNCHANGED job
             \/ \E j : job' = [job EXCEPT ![r] = j]
      PROVE  r # p /\ pc'[p] = pc[p] /\ job'[p] = job[p]
  BY <1>0, <1>1 DEF GoTo
<1>2. ASSUME NEW r \in Procs, Finish(r) PROVE r # p /\ pc'[p] = pc[p] /\ job'[p] = job[p]
  BY <1>1, <1>2 DEF Finish
<1>3. ASSUME NEW r \in Procs, AfterFlush(r) PROVE r # p /\ pc'[p] = pc[p] /\ job'[p] = job[p]
  BY <1>1, <1>2, <1>3 DEF AfterFlush
<1>4. ASSUME UNCHANGED <<pc, job, standing>> PROVE Goal
  BY <1>4
<1>5. ASSUME pc'[p] = pc[p], job'[p] = job[p], UNCHANGED standing PROVE Goal
  BY <1>5
<1>6. Kept => Goal
  OBVIOUS
<1> HIDE DEF Goal
<1>7. ASSUME NEW r \in Procs, Start(r) PROVE Goal
  <2>1. ASSUME NEW q \in Paths, NEW cmd \in AllCommands, WriteArtifact(r, cmd, q) PROVE Goal
    BY <1>1, <1>5, <2>1 DEF WriteArtifact, history
  <2>2. ASSUME StartFlush(r) PROVE Goal
    BY <1>1, <1>5, <2>2 DEF StartFlush, history
  <2>3. ASSUME NEW q \in Paths, StartGate(r, q) PROVE Goal
    BY <1>1, <1>5, <2>3 DEF StartGate, history
  <2>4. ASSUME NEW q, RetryRequeue(r, q) PROVE Goal
    BY <1>1, <1>5, <2>4 DEF RetryRequeue, history
  <2>5. ASSUME NEW q, ClearDead(r, q) PROVE Goal
    BY <1>4, <2>5 DEF ClearDead
  <2> QED BY <1>7, <2>1, <2>2, <2>3, <2>4, <2>5 DEF Start
<1>8. ASSUME NEW r \in Procs, FlushStep(r) PROVE Goal
  <2>1. ASSUME BeginFlush(r) PROVE Goal
    BY <1>1, <1>5, <2>1 DEF BeginFlush, history
  <2>2. ASSUME NEW i \in todo, SkipStranger(r, i) \/ CommitIntent(r, i) PROVE Goal
    BY <1>4, <2>2 DEF SkipStranger, CommitIntent, history
  <2>3. ASSUME NEW i \in todo, RefuseIgnored(r, i) \/ FailIntent(r, i) \/ Bury(r, i) PROVE Goal
    BY <1>1, <1>4, <1>5, <2>3 DEF RefuseIgnored, FailIntent, Bury, history
  <2>4. ASSUME Rewrite(r) \/ RewriteFails(r) PROVE Goal
    BY <1>3, <1>5, <2>4 DEF Rewrite, RewriteFails, history
  <2>5. ASSUME NEW i \in todo, BuryFails(r, i) PROVE Goal
    BY <1>3, <1>5, <2>5 DEF BuryFails, history
  <2> QED BY <1>8, <2>1, <2>2, <2>3, <2>4, <2>5 DEF FlushStep
<1>9. ASSUME NEW r \in Procs, RecordIntent(r) \/ RecordUnavailable(r) \/ AbortComplete(r) PROVE Goal
  BY <1>1, <1>2, <1>5, <1>9 DEF RecordIntent, RecordUnavailable, AbortComplete
<1>10. ASSUME NEW r \in Procs, InlineCheck(r) PROVE Goal
  BY <1>1, <1>3, <1>5, <1>10 DEF InlineCheck, history
<1>11. ASSUME NEW r \in Procs, RetryStep(r) PROVE Goal
  BY <1>2, <1>5, <1>11 DEF RetryStep, RetryDrop, RetryDropFails, history
<1>12. ASSUME NEW r \in Procs, GateReadPending(r) PROVE Goal
  <2>1. r # p => Kept
    BY <1>0, <1>12 DEF GateReadPending, GoTo, Finish
  <2> QED BY <1>6, <1>12, <2>1 DEF Goal
<1>13. ASSUME NEW r \in Procs, GateReadDead(r) PROVE Goal
  <2>1. r # p => Kept
    BY <1>0, <1>13 DEF GateReadDead, GoTo, Finish, history
  <2>2. r = p => ~Unresolved(job[p].path)
    BY <1>2, <1>13 DEF GateReadDead
  <2> QED BY <1>6, <1>13, <2>1, <2>2 DEF Goal
<1>14. ASSUME NEW r \in Procs, GateReturn(r) PROVE Goal
  <2>1. r # p
    BY <1>2, <1>14 DEF GateReturn
  <2>2. Kept
    BY <1>0, <1>2, <1>14, <2>1 DEF GateReturn
  <2> QED BY <1>6, <2>2
<1>15. ASSUME NEW r \in Procs, Fail(r) PROVE Goal
  <2>1. Die(r)
    BY <1>15 DEF Fail, Crash, CrashWhileBurying
  <2>2. Kept
    BY <1>0, <1>2, <2>1 DEF Die
  <2> QED BY <1>6, <2>2
<1>16. ASSUME NEW r \in Procs, Continue(r) PROVE Goal
  BY <1>8, <1>9, <1>10, <1>11, <1>12, <1>13, <1>14, <1>16 DEF Continue, GateStep
<1>17. ASSUME NEW q \in Paths, ManualCommit(q) PROVE Goal
  BY <1>4, <1>17 DEF ManualCommit
<1>18. ASSUME UNCHANGED vars PROVE Goal
  BY <1>4, <1>18 DEF vars, history
<1>19. Goal
  BY <1>7, <1>15, <1>16, <1>17, <1>18 DEF Next
<1> QED BY <1>19 DEF Goal

LEMMA GateSawStep ==
  ASSUME IInv, Unqueued, GateSaw, [Next]_vars, "retry" \notin Commands
  PROVE  GateSaw'
<1>0. TypeOK
  BY DEF IInv
<1> SUFFICES ASSUME NEW p \in Procs, pc'[p] = "gateDead"
             PROVE  /\ \A v \in standing'[p] : job'[p].path \in Paths /\ v <= artifact'[job'[p].path]
                    /\ \A x \in pending' : x.path = job'[p].path => x.ver \notin standing'[p]
                    /\ \A r \in Procs : Producing(r, job[p].path)' => job'[r].ver \notin standing'[p]
  BY DEF GateSaw, Own, Producing
<1> DEFINE q == job[p].path
           Saw(S) == /\ \A v \in S : v \in Nat /\ q \in Paths /\ v <= artifact[q]
                     /\ \A x \in pending : x.path = q => x.ver \notin S
                     /\ \A r \in Procs : Producing(r, q) => job[r].ver \notin S
<1>1. Saw(standing'[p]) /\ job'[p] = job[p]
  <2>1. CASE GateReadPending(p)
    <3>1. pc'[p] = "gateDead" => Own(pending, q) = {} /\ job' = job
      BY <1>0, <2>1 DEF GateReadPending, Finish, GoTo, TypeOK, Typed
    <3>2. standing'[p] \subseteq {i.ver : i \in Own(pending, q) \cup Own(dead, q)}
      BY <1>0, <2>1 DEF GateReadPending, TypeOK, Typed
    <3>3. \A v \in standing'[p] : \E d \in dead : d.path = q /\ d.ver = v
      BY <3>1, <3>2 DEF Own
    <3>4. \A d \in dead : d.path \in Paths /\ d.ver \in Nat /\ d.ver <= artifact[d.path]
      BY <1>0 DEF TypeOK, Typed, Grave, IInv, VersionsReached
    <3>5. \A r \in Procs : Producing(r, q) => \A d \in dead : d.path = q => d.ver # job[r].ver
      BY DEF Unqueued, Producing
    <3> HIDE DEF q
    <3> QED BY <3>1, <3>3, <3>4, <3>5 DEF Own, q
  <2>2. CASE pc'[p] = pc[p] /\ job'[p] = job[p] /\ standing'[p] = standing[p]
    <3>1. standing[p] \subseteq Nat
      BY <1>0 DEF TypeOK, Typed
    <3> QED BY <2>2, <3>1 DEF GateSaw, Own
  <2>3. GateReadDead(p) => pc'[p] # "gateDead"
    BY <1>0 DEF GateReadDead, Finish, GoTo, TypeOK, Typed
  <2> QED BY <2>1, <2>2, <2>3, GateMoves
<1>2. \A v \in standing'[p] : q \in Paths /\ v <= artifact'[q]
  BY <1>1, ArtifactsGrow
<1>3. \A x \in pending' : x.path = q => x.ver \notin standing'[p]
  <2> SUFFICES ASSUME NEW x \in pending', x.path = q PROVE x.ver \notin standing'[p]
    OBVIOUS
  <2>1. CASE \E y \in pending : SameIntent(x, y)
    BY <1>1, <2>1 DEF SameIntent
  <2>2. CASE \E r \in Procs : pc[r] = "wrote" /\ x.path = job[r].path /\ x.ver = job[r].ver
    BY <1>1, <2>2 DEF Producing
  <2> QED BY <2>1, <2>2, PendingFrom
<1>4. ASSUME NEW r \in Procs, Producing(r, q)' PROVE job'[r].ver \notin standing'[p]
  <2>1. pc'[r] = "wrote" /\ job'[r].path = q
    BY <1>1, <1>4 DEF Producing
  <2>2. CASE pc[r] = "wrote" /\ job'[r] = job[r]
    BY <1>1, <2>1, <2>2 DEF Producing
  <2>3. ASSUME NEW cmd \in AllCommands, NEW x \in Paths, WriteArtifact(r, cmd, x)
        PROVE  job'[r].ver \notin standing'[p]
    <3>1. x = q /\ job'[r].ver = artifact[q] + 1 /\ artifact[q] \in Nat
      BY <2>1, <2>3, NewIsAhead
    <3> HIDE DEF q
    <3> QED BY <1>1, <3>1
  <2> QED BY <1>0, <2>1, <2>2, <2>3, ProducersStay
<1> QED BY <1>1, <1>2, <1>3, <1>4 DEF Producing

\* What a gate's verdict rests on.
GInv == IInv /\ Unqueued /\ GateSaw

\* A gate that passes has earned it.
Earned(p) ==
  LET q == job[p].path IN
  pc[p] = "gateDead" /\ pc'[p] = "passed" =>
    ~Unclean(q) \/ \A i \in Own(pending, q) \cup Own(dead, q) : i.ver \notin standing[p]

LEMMA EarnedStep ==
  ASSUME GInv, [Next]_vars, NEW p \in Procs
  PROVE  Earned(p)
<1> SUFFICES ASSUME pc[p] = "gateDead", pc'[p] = "passed", Unclean(job[p].path)
             PROVE  \A i \in Own(pending, job[p].path) \cup Own(dead, job[p].path) :
                      i.ver \notin standing[p]
  BY DEF Earned
<1>1. ~Unresolved(job[p].path)
  BY GateMoves DEF GInv, GateReadPending
<1>2. Own(dead, job[p].path) = {}
  BY <1>1 DEF Unresolved
<1> QED BY <1>2 DEF GInv, GateSaw

LEMMA GInvInit == Init => GInv
<1>1. Init => Unqueued /\ GateSaw
  BY DEF Init, Unqueued, GateSaw
<1> QED BY <1>1, IInvInit DEF GInv

\* Where no retry runs, a gate passes only if every intent that was unresolved
\* when it looked has since left the queue and the dead-letter file, or git
\* status is clean, although it reads the two files one after the other and
\* takes no lock.
THEOREM GatePassesAreEarned ==
  ASSUME "retry" \notin Commands
  PROVE  Spec => GatePassEarned
<1>1. GInv /\ [Next]_vars => GInv'
  BY IInvStep, UnqueuedStep, GateSawStep DEF GInv
<1>2. GInv /\ [Next]_vars => [\A p \in Procs : Earned(p)]_vars
  BY EarnedStep
<1> QED BY <1>1, <1>2, GInvInit, PTL DEF Spec, GatePassEarned, Earned

=============================================================================

------------------------- MODULE ItemClaims_proofs -------------------------
(***************************************************************************)
(* For any number of sessions, processes, stamps and faults: a completion  *)
(* that stuck leaves nobody's claim open, and a session that never wrote   *)
(* an end note keeps its claim on the work in progress until one of its    *)
(* own processes, or `wipnote stale`, ends it.                             *)
(***************************************************************************)
EXTENDS ItemClaims, TLAPS

-----------------------------------------------------------------------------
(* A process moves to a step with the job that step works on *)

Fits(step, j) ==
  /\ step \in PCs /\ j \in Job
  /\ step # "idle" => j.session \in Sessions
  /\ step \in {"closeRow", "closeEpisodes", "mark"} => j.target \in Sessions
  /\ step \in {"completing", "closeOwn", "commit", "reopen"} => j.cmd = "complete"
  /\ step = "marking" => j.cmd = "stale"
  /\ step = "sweep" => j.cmd \in {"complete", "stale"}
  /\ step \in {"openRow", "catchUp", "mark"} => j.cmd = "launch"
  /\ step = "note" => j.cmd = "exit"
  /\ step \in {"closeRow", "closeEpisodes"} => j.cmd \in {"launch", "exit"}
  /\ j.cmd = "exit" => j.target = j.session

AllFit ==
  /\ pc \in [Procs -> PCs] /\ job \in [Procs -> Job]
  /\ \A p \in Procs : Fits(pc[p], job[p])

Moves(p, step, j) ==
  pc' = [pc EXCEPT ![p] = step] /\ job' = [job EXCEPT ![p] = j]

\* The two parts of the invariant about processes say that every job fits.
LEMMA FitsIsTyped == AllFit <=> ProcsTyped /\ StepsMatch
BY DEF AllFit, Fits, ProcsTyped, StepsMatch

\* A move to a fitting step keeps them.
LEMMA MoveFits ==
  ASSUME AllFit, NEW p \in Procs, NEW step, NEW j, Fits(step, j), Moves(p, step, j)
  PROVE  AllFit'
<1>1. pc' \in [Procs -> PCs] /\ job' \in [Procs -> Job]
  BY DEF AllFit, Moves, Fits
<1>2. \A q \in Procs : q # p => pc'[q] = pc[q] /\ job'[q] = job[q]
  BY DEF AllFit, Moves
<1>3. pc'[p] = step /\ job'[p] = j
  BY DEF AllFit, Moves
<1>4. \A q \in Procs : Fits(pc'[q], job'[q])
  BY <1>2, <1>3 DEF AllFit
<1>. QED BY <1>1, <1>4 DEF AllFit, Fits, PCs, Job, AllCommands, Stamps

\* So an action that is such a move keeps them.
LEMMA MoveKeeps ==
  ASSUME ProcsTyped, StepsMatch, NEW p \in Procs,
         \E step, j : Fits(step, j) /\ Moves(p, step, j)
  PROVE  ProcsTyped' /\ StepsMatch'
<1>1. AllFit'
  BY FitsIsTyped, MoveFits
<1>. QED BY <1>1, PTL, FitsIsTyped

\* What a job becomes when one of its parts changes, and what a new one is.
LEMMA JobAt ==
  ASSUME NEW j \in Job, NEW t \in Stamps
  PROVE  [j EXCEPT !.at = t] \in Job
BY DEF Job

LEMMA JobTarget ==
  ASSUME NEW j \in Job, NEW t \in Stamps, NEW r \in Sessions \cup {NoSession}
  PROVE  [j EXCEPT !.target = r, !.at = t] \in Job
BY DEF Job

LEMMA JobNote ==
  ASSUME NEW j \in Job, NEW T \in SUBSET Sessions, NEW t \in Stamps,
         NEW r \in Sessions \cup {NoSession}
  PROVE  [j EXCEPT !.todo = T, !.target = r, !.at = t] \in Job
BY DEF Job

LEMMA JobTodo ==
  ASSUME NEW j \in Job, NEW T \in SUBSET Sessions
  PROVE  [j EXCEPT !.todo = T] \in Job
BY DEF Job

LEMMA JobNew ==
  ASSUME NEW c \in AllCommands \cup {"launch", "exit", "none"},
         NEW s \in Sessions \cup {NoSession}, NEW r \in Sessions \cup {NoSession},
         NEW T \in SUBSET Sessions
  PROVE  JobOf(c, s, r, T) \in Job
<1>1. 0 \in Stamps
  BY ClaimConstants DEF Stamps
<1>. QED BY <1>1, Zenon DEF Job, JobOf

LEMMA IdleFits == Fits("idle", NoJob)
<1>1. NoJob \in Job
  BY JobNew DEF NoJob
<1>. QED BY <1>1 DEF Fits, PCs, NoJob, JobOf

LEMMA WriteActiveMoves ==
  ASSUME TypeOK, StepsMatch, NEW p \in Procs, WriteActive(p)
  PROVE  \E step, j : Fits(step, j) /\ Moves(p, step, j)
<1>. DEFINE step == IF status # "in-progress" THEN "closeStale" ELSE "openEpisode"
            j == [job[p] EXCEPT !.at = now + 1]
<1>1. Fits(step, j)
  BY ClaimConstants DEF WriteActive, Write, Tick, TypeOK, ItemTyped, ProcsTyped, StepsMatch,
                        Fits, PCs, Job, Stamps
<1>2. Moves(p, step, j)
  BY DEF WriteActive, GoTo, Moves
<1>. QED BY <1>1, <1>2

LEMMA CloseStaleMoves ==
  ASSUME TypeOK, StepsMatch, NEW p \in Procs, CloseStale(p)
  PROVE  \E step, j : Fits(step, j) /\ Moves(p, step, j)
<1>. DEFINE step == "openEpisode"
            j == job[p]
<1>1. Fits(step, j)
  BY DEF CloseStale, CloseEpisode, TypeOK, ProcsTyped, StepsMatch, Fits, PCs
<1>2. Moves(p, step, j)
  BY DEF CloseStale, CloseEpisode, GoTo, TypeOK, ProcsTyped, Moves
<1>. QED BY <1>1, <1>2

LEMMA OpenEpisodeMoves ==
  ASSUME TypeOK, StepsMatch, NEW p \in Procs, OpenEpisode(p)
  PROVE  \E step, j : Fits(step, j) /\ Moves(p, step, j)
BY IdleFits DEF OpenEpisode, Finish, GoTo, Moves

LEMMA WriteDoneMoves ==
  ASSUME TypeOK, StepsMatch, NEW p \in Procs, WriteDone(p)
  PROVE  \E step, j : Fits(step, j) /\ Moves(p, step, j)
<1>. DEFINE step == "closeOwn"
            j == [job[p] EXCEPT !.at = now + 1]
<1>1. Fits(step, j)
  BY ClaimConstants DEF WriteDone, Write, Tick, TypeOK, ItemTyped, ProcsTyped, StepsMatch, Fits,
                        PCs, Job, Stamps
<1>2. Moves(p, step, j)
  BY DEF WriteDone, GoTo, Moves
<1>. QED BY <1>1, <1>2

LEMMA CloseOwnMoves ==
  ASSUME TypeOK, StepsMatch, NEW p \in Procs, CloseOwn(p)
  PROVE  \E step, j : Fits(step, j) /\ Moves(p, step, j)
<1>. DEFINE step == "commit"
            j == job[p]
<1>1. Fits(step, j)
  BY DEF CloseOwn, CloseEpisode, TypeOK, ProcsTyped, StepsMatch, Fits, PCs
<1>2. Moves(p, step, j)
  BY DEF CloseOwn, CloseEpisode, GoTo, TypeOK, ProcsTyped, Moves
<1>. QED BY <1>1, <1>2

LEMMA CommitSticksMoves ==
  ASSUME TypeOK, StepsMatch, NEW p \in Procs, CommitSticks(p)
  PROVE  \E step, j : Fits(step, j) /\ Moves(p, step, j)
<1>. DEFINE step == "sweep"
            j == [job[p] EXCEPT !.todo = Sessions]
<1>1. Fits(step, j)
  BY DEF CommitSticks, TypeOK, ProcsTyped, StepsMatch, Fits, PCs, Job
<1>2. Moves(p, step, j)
  BY DEF CommitSticks, GoTo, Moves
<1>. QED BY <1>1, <1>2

LEMMA CommitFailsMoves ==
  ASSUME TypeOK, StepsMatch, NEW p \in Procs, CommitFails(p)
  PROVE  \E step, j : Fits(step, j) /\ Moves(p, step, j)
<1>. DEFINE step == "reopen"
            j == job[p]
<1>1. Fits(step, j)
  BY DEF CommitFails, TypeOK, ProcsTyped, StepsMatch, Fits, PCs
<1>2. Moves(p, step, j)
  BY DEF CommitFails, GoTo, TypeOK, ProcsTyped, Moves
<1>. QED BY <1>1, <1>2

LEMMA ReopenMoves ==
  ASSUME TypeOK, StepsMatch, NEW p \in Procs, Reopen(p)
  PROVE  \E step, j : Fits(step, j) /\ Moves(p, step, j)
BY IdleFits DEF Reopen, Finish, GoTo, Moves

LEMMA MarkStaleMoves ==
  ASSUME TypeOK, StepsMatch, NEW p \in Procs, MarkStale(p)
  PROVE  \E step, j : Fits(step, j) /\ Moves(p, step, j)
<1>. DEFINE step == "sweep"
            j == [job[p] EXCEPT !.todo = Sessions]
<1>1. Fits(step, j)
  BY DEF MarkStale, TypeOK, ProcsTyped, StepsMatch, Fits, PCs, Job
<1>2. Moves(p, step, j)
  BY DEF MarkStale, GoTo, Moves
<1>. QED BY <1>1, <1>2

LEMMA EndSweepMoves ==
  ASSUME TypeOK, StepsMatch, NEW p \in Procs, EndSweep(p)
  PROVE  \E step, j : Fits(step, j) /\ Moves(p, step, j)
BY IdleFits DEF EndSweep, Finish, GoTo, Moves

LEMMA EndReconcileMoves ==
  ASSUME TypeOK, StepsMatch, NEW p \in Procs, EndReconcile(p)
  PROVE  \E step, j : Fits(step, j) /\ Moves(p, step, j)
BY IdleFits DEF EndReconcile, Finish, GoTo, Moves

LEMMA SweepShardMoves ==
  ASSUME TypeOK, StepsMatch, NEW p \in Procs, NEW s \in Sessions, SweepShard(p, s)
  PROVE  \E step, j : Fits(step, j) /\ Moves(p, step, j)
<1>. DEFINE step == pc[p]
            j == [job[p] EXCEPT !.todo = @ \ {s}]
<1>1. Fits(step, j)
  BY DEF SweepShard, TypeOK, ProcsTyped, StepsMatch, Fits, Job
<1>2. Moves(p, step, j)
  BY DEF SweepShard, TypeOK, ProcsTyped, Moves
<1>. QED BY <1>1, <1>2

LEMMA ExpireShardMoves ==
  ASSUME TypeOK, StepsMatch, NEW p \in Procs, NEW s \in Sessions, ExpireShard(p, s)
  PROVE  \E step, j : Fits(step, j) /\ Moves(p, step, j)
<1>. DEFINE step == pc[p]
            j == [job[p] EXCEPT !.todo = @ \ {s}]
<1>1. Fits(step, j)
  BY DEF ExpireShard, CloseEpisode, TypeOK, ProcsTyped, StepsMatch, Fits, Job
<1>2. Moves(p, step, j)
  BY DEF ExpireShard, CloseEpisode, TypeOK, ProcsTyped, Moves
<1>. QED BY <1>1, <1>2

LEMMA OpenRowMoves ==
  ASSUME TypeOK, StepsMatch, NEW p \in Procs, OpenRow(p)
  PROVE  \E step, j : Fits(step, j) /\ Moves(p, step, j)
<1>. DEFINE step == "catchUp"
            j == job[p]
<1>1. Fits(step, j)
  BY DEF OpenRow, TypeOK, ProcsTyped, StepsMatch, Fits, PCs
<1>2. Moves(p, step, j)
  BY DEF OpenRow, GoTo, TypeOK, ProcsTyped, Moves
<1>. QED BY <1>1, <1>2

LEMMA ReadNoteMoves ==
  ASSUME TypeOK, StepsMatch, NEW p \in Procs, NEW s \in Sessions, ReadNote(p, s)
  PROVE  \E step, j : Fits(step, j) /\ Moves(p, step, j)
<1>1. job[p] \in Job /\ Fits(pc[p], job[p])
  BY FitsIsTyped DEF TypeOK, AllFit
<1>2. CASE note[s] # 0 /\ marker[s] # note[s]
  <2>. DEFINE j == [job[p] EXCEPT !.todo = @ \ {s}, !.target = s, !.at = note[s]]
  <2>1. note[s] \in Stamps
    BY DEF TypeOK, LedgersTyped
  <2>2. j \in Job
    BY <1>1, <2>1, JobNote DEF Job
  <2>3. Fits("closeRow", j)
    BY <1>1, <2>2 DEF ReadNote, Fits, PCs
  <2>4. Moves(p, "closeRow", j)
    BY <1>1, <1>2 DEF ReadNote, GoTo, Moves
  <2>. QED BY <2>3, <2>4
<1>3. CASE ~(note[s] # 0 /\ marker[s] # note[s])
  <2>. DEFINE j == [job[p] EXCEPT !.todo = @ \ {s}]
  <2>1. Fits("catchUp", j)
    BY <1>1, JobTodo DEF ReadNote, Fits, Job
  <2>2. Moves(p, "catchUp", j)
    BY <1>3 DEF ReadNote, Moves, TypeOK, ProcsTyped
  <2>. QED BY <2>1, <2>2
<1>. QED BY <1>2, <1>3

LEMMA MarkMoves ==
  ASSUME TypeOK, StepsMatch, NEW p \in Procs, Mark(p)
  PROVE  \E step, j : Fits(step, j) /\ Moves(p, step, j)
<1>. DEFINE step == "catchUp"
            j == [job[p] EXCEPT !.target = NoSession, !.at = 0]
<1>0. 0 \in Stamps
  BY ClaimConstants DEF Stamps
<1>1. job[p] \in Job /\ Fits(pc[p], job[p])
  BY FitsIsTyped DEF TypeOK, AllFit
<1>2. j \in Job
  BY <1>1, <1>0, JobTarget DEF Mark
<1>3. Fits(step, j)
  BY <1>1, <1>2 DEF Mark, Fits, PCs
<1>4. Moves(p, step, j)
  BY DEF Mark, GoTo, Moves
<1>. QED BY <1>3, <1>4

LEMMA EndCatchUpMoves ==
  ASSUME TypeOK, StepsMatch, NEW p \in Procs, EndCatchUp(p)
  PROVE  \E step, j : Fits(step, j) /\ Moves(p, step, j)
BY IdleFits DEF EndCatchUp, Finish, GoTo, Moves

LEMMA RecordNoteMoves ==
  ASSUME TypeOK, StepsMatch, NEW p \in Procs, RecordNote(p)
  PROVE  \E step, j : Fits(step, j) /\ Moves(p, step, j)
<1>. DEFINE step == "closeRow"
            j == [job[p] EXCEPT !.at = now + 1]
<1>0. now + 1 \in Stamps
  BY ClaimConstants DEF RecordNote, Tick, TypeOK, ItemTyped, Stamps
<1>1. job[p] \in Job /\ Fits(pc[p], job[p])
  BY FitsIsTyped DEF TypeOK, AllFit
<1>2. j \in Job
  BY <1>1, <1>0, JobAt DEF RecordNote
<1>3. Fits(step, j)
  BY <1>1, <1>2 DEF RecordNote, Fits, PCs
<1>4. Moves(p, step, j)
  BY DEF RecordNote, GoTo, Moves
<1>. QED BY <1>3, <1>4

LEMMA CloseRowMoves ==
  ASSUME TypeOK, StepsMatch, NEW p \in Procs, CloseRow(p)
  PROVE  \E step, j : Fits(step, j) /\ Moves(p, step, j)
<1>. DEFINE step == "closeEpisodes"
            j == job[p]
<1>1. Fits(step, j)
  BY DEF CloseRow, TypeOK, ProcsTyped, StepsMatch, Fits, PCs
<1>2. Moves(p, step, j)
  BY DEF CloseRow, GoTo, TypeOK, ProcsTyped, Moves
<1>. QED BY <1>1, <1>2

LEMMA CloseEpisodesMoves ==
  ASSUME TypeOK, StepsMatch, NEW p \in Procs, CloseEpisodes(p)
  PROVE  \E step, j : Fits(step, j) /\ Moves(p, step, j)
<1>1. CASE job[p].cmd = "exit"
  BY <1>1, IdleFits DEF CloseEpisodes, EpisodesTried, Finish, GoTo, Moves
<1>2. CASE job[p].cmd # "exit"
  <2>1. Fits("mark", job[p])
    BY <1>2 DEF CloseEpisodes, EpisodesTried, TypeOK, ProcsTyped, StepsMatch, Fits, PCs
  <2>2. Moves(p, "mark", job[p])
    BY <1>2 DEF CloseEpisodes, EpisodesTried, GoTo, Moves, TypeOK, ProcsTyped
  <2>. QED BY <2>1, <2>2
<1>. QED BY <1>1, <1>2

LEMMA CloseRowFailsMoves ==
  ASSUME TypeOK, StepsMatch, NEW p \in Procs, CloseRowFails(p)
  PROVE  \E step, j : Fits(step, j) /\ Moves(p, step, j)
<1>. DEFINE step == "closeEpisodes"
            j == job[p]
<1>1. Fits(step, j)
  BY DEF CloseRowFails, TypeOK, ProcsTyped, StepsMatch, Fits, PCs
<1>2. Moves(p, step, j)
  BY DEF CloseRowFails, GoTo, TypeOK, ProcsTyped, Moves
<1>. QED BY <1>1, <1>2

LEMMA CloseEpisodesFailMoves ==
  ASSUME TypeOK, StepsMatch, NEW p \in Procs, CloseEpisodesFail(p)
  PROVE  \E step, j : Fits(step, j) /\ Moves(p, step, j)
<1>1. CASE job[p].cmd = "exit"
  BY <1>1, IdleFits DEF CloseEpisodesFail, EpisodesTried, Finish, GoTo, Moves
<1>2. CASE job[p].cmd # "exit"
  <2>1. Fits("mark", job[p])
    BY <1>2 DEF CloseEpisodesFail, EpisodesTried, TypeOK, ProcsTyped, StepsMatch, Fits, PCs
  <2>2. Moves(p, "mark", job[p])
    BY <1>2 DEF CloseEpisodesFail, EpisodesTried, GoTo, Moves, TypeOK, ProcsTyped
  <2>. QED BY <2>1, <2>2
<1>. QED BY <1>1, <1>2

LEMMA CrashMoves ==
  ASSUME TypeOK, StepsMatch, NEW p \in Procs, Crash(p)
  PROVE  \E step, j : Fits(step, j) /\ Moves(p, step, j)
BY IdleFits DEF Crash, Finish, GoTo, Moves

LEMMA BeginStartMoves ==
  ASSUME TypeOK, StepsMatch, NEW p \in Procs, NEW s \in Sessions, NEW cmd, BeginStart(p, s, cmd)
  PROVE  \E step, j : Fits(step, j) /\ Moves(p, step, j)
<1>. DEFINE step == "starting"
            j == JobOf(cmd, s, NoSession, {})
<1>1. j \in Job
  BY JobNew DEF BeginStart, Begin, AllCommands
<1>2. Fits(step, j)
  BY <1>1 DEF BeginStart, Fits, PCs, JobOf
<1>3. Moves(p, step, j)
  BY DEF BeginStart, Begin, GoTo, Moves
<1>. QED BY <1>2, <1>3

LEMMA BeginCompleteMoves ==
  ASSUME TypeOK, StepsMatch, NEW p \in Procs, NEW s \in Sessions, BeginComplete(p, s)
  PROVE  \E step, j : Fits(step, j) /\ Moves(p, step, j)
<1>. DEFINE step == "completing"
            j == JobOf("complete", s, NoSession, {})
<1>1. j \in Job
  BY JobNew DEF BeginComplete, Begin, AllCommands
<1>2. Fits(step, j)
  BY <1>1 DEF Fits, PCs, JobOf
<1>3. Moves(p, step, j)
  BY DEF BeginComplete, Begin, GoTo, Moves
<1>. QED BY <1>2, <1>3

LEMMA BeginStaleMoves ==
  ASSUME TypeOK, StepsMatch, NEW p \in Procs, NEW s \in Sessions, BeginStale(p, s)
  PROVE  \E step, j : Fits(step, j) /\ Moves(p, step, j)
<1>. DEFINE step == "marking"
            j == JobOf("stale", s, NoSession, {})
<1>1. j \in Job
  BY JobNew DEF BeginStale, Begin, AllCommands
<1>2. Fits(step, j)
  BY <1>1 DEF Fits, PCs, JobOf
<1>3. Moves(p, step, j)
  BY DEF BeginStale, Begin, GoTo, Moves
<1>. QED BY <1>2, <1>3

LEMMA BeginReconcileMoves ==
  ASSUME TypeOK, StepsMatch, NEW p \in Procs, NEW s \in Sessions, BeginReconcile(p, s)
  PROVE  \E step, j : Fits(step, j) /\ Moves(p, step, j)
<1>. DEFINE step == "expire"
            j == JobOf("reconcile", s, NoSession, EndedOthers(s))
<1>1. j \in Job
  BY JobNew DEF BeginReconcile, Begin, AllCommands, EndedOthers
<1>2. Fits(step, j)
  BY <1>1 DEF Fits, PCs, JobOf
<1>3. Moves(p, step, j)
  BY DEF BeginReconcile, Begin, GoTo, Moves
<1>. QED BY <1>2, <1>3

LEMMA LaunchMoves ==
  ASSUME TypeOK, StepsMatch, NEW p \in Procs, NEW s \in Sessions, Launch(p, s)
  PROVE  \E step, j : Fits(step, j) /\ Moves(p, step, j)
<1>. DEFINE step == "openRow"
            j == JobOf("launch", s, NoSession, Sessions \ {s})
<1>1. j \in Job
  BY JobNew DEF Launch
<1>2. Fits(step, j)
  BY <1>1 DEF Fits, PCs, JobOf
<1>3. Moves(p, step, j)
  BY DEF Launch, GoTo, Moves
<1>. QED BY <1>2, <1>3

LEMMA ExitMoves ==
  ASSUME TypeOK, StepsMatch, NEW p \in Procs, NEW s \in Sessions, Exit(p, s)
  PROVE  \E step, j : Fits(step, j) /\ Moves(p, step, j)
<1>. DEFINE step == "note"
            j == JobOf("exit", s, s, {})
<1>1. j \in Job
  BY JobNew DEF Exit
<1>2. Fits(step, j)
  BY <1>1 DEF Fits, PCs, JobOf
<1>3. Moves(p, step, j)
  BY DEF Exit, GoTo, Moves
<1>. QED BY <1>2, <1>3

-----------------------------------------------------------------------------
(* Every action keeps the invariant: the types of the item and of the ledgers, *)
(* then the item lock and the stamps, then how far each command has come, then *)
(* what follows for the claims                                                 *)

LEMMA WriteActiveKeeps ==
  ASSUME IInv, NEW p \in Procs, WriteActive(p)
  PROVE  IInv'
<1>1. ItemTyped' /\ LedgersTyped'
  BY ClaimConstants DEF WriteActive, Write, Tick, ends, IInv, TypeOK, ItemTyped, LedgersTyped,
                        Stamps, Statuses
<1>2. LockHeld'
  BY ClaimConstants DEF IInv, WriteActive, Write, GoTo, TypeOK, ProcsTyped, LockHeld
<1>3. StampsPast'
  BY DEF IInv, WriteActive, Write, Tick, GoTo, TypeOK, ItemTyped, LedgersTyped, ProcsTyped, Job,
         Stamps, StampsPast, Completing
<1>4. SweptSoFar' /\ BackLater'
  BY DEF IInv, WriteActive, Write, GoTo, TypeOK, ItemTyped, ProcsTyped, Job, Stamps, SweptSoFar,
         BackLater, Completing, StampsPast
<1>5. EndedNoted'
  BY DEF IInv, WriteActive, Write, GoTo, ends, EndedNoted
<1>6. DoneIsUnclaimed'
  BY DEF IInv, WriteActive, Write, DoneIsUnclaimed
<1>7. ProcsTyped' /\ StepsMatch'
  BY WriteActiveMoves, MoveKeeps DEF IInv, TypeOK
<1>. QED BY <1>1, <1>2, <1>3, <1>4, <1>5, <1>6, <1>7 DEF IInv, TypeOK

LEMMA CloseStaleKeeps ==
  ASSUME IInv, NEW p \in Procs, CloseStale(p)
  PROVE  IInv'
<1>1. ItemTyped' /\ LedgersTyped'
  BY ClaimConstants DEF CloseStale, CloseEpisode, item, ends, IInv, TypeOK, ItemTyped,
                        LedgersTyped, ProcsTyped, Stamps
<1>2. LockHeld'
  BY DEF IInv, CloseStale, CloseEpisode, GoTo, item, LockHeld
<1>3. StampsPast'
  BY DEF IInv, CloseStale, CloseEpisode, GoTo, item, TypeOK, ItemTyped, Stamps, StampsPast,
         Completing
<1>4. SweptSoFar' /\ BackLater'
  BY DEF IInv, CloseStale, CloseEpisode, GoTo, item, SweptSoFar, BackLater, Completing
<1>5. EndedNoted'
  BY DEF IInv, CloseStale, CloseEpisode, GoTo, ends, EndedNoted
<1>6. DoneIsUnclaimed'
  BY DEF IInv, CloseStale, CloseEpisode, item, DoneIsUnclaimed
<1>7. ProcsTyped' /\ StepsMatch'
  BY CloseStaleMoves, MoveKeeps DEF IInv, TypeOK
<1>. QED BY <1>1, <1>2, <1>3, <1>4, <1>5, <1>6, <1>7 DEF IInv, TypeOK

LEMMA OpenEpisodeKeeps ==
  ASSUME IInv, NEW p \in Procs, OpenEpisode(p)
  PROVE  IInv'
<1>1. ItemTyped' /\ LedgersTyped'
  BY DEF OpenEpisode, ends, IInv, TypeOK, ItemTyped, LedgersTyped, ProcsTyped, Job
<1>2. LockHeld'
  BY ClaimConstants DEF IInv, OpenEpisode, Finish, GoTo, TypeOK, ProcsTyped, LockHeld
<1>3. StampsPast'
  BY DEF IInv, OpenEpisode, Finish, GoTo, TypeOK, ProcsTyped, Job, Stamps, StampsPast,
         Completing, LockHeld
<1>4. SweptSoFar' /\ BackLater'
  BY DEF IInv, OpenEpisode, Finish, GoTo, SweptSoFar, BackLater, Completing, LockHeld
<1>5. EndedNoted'
  BY DEF IInv, OpenEpisode, Finish, GoTo, ends, EndedNoted
<1>6. DoneIsUnclaimed'
  BY DEF IInv, OpenEpisode, DoneIsUnclaimed, LockHeld
<1>7. ProcsTyped' /\ StepsMatch'
  BY OpenEpisodeMoves, MoveKeeps DEF IInv, TypeOK
<1>. QED BY <1>1, <1>2, <1>3, <1>4, <1>5, <1>6, <1>7 DEF IInv, TypeOK

LEMMA WriteDoneKeeps ==
  ASSUME IInv, NEW p \in Procs, WriteDone(p)
  PROVE  IInv'
<1>1. ItemTyped' /\ LedgersTyped'
  BY ClaimConstants DEF WriteDone, Write, Tick, ends, IInv, TypeOK, ItemTyped, LedgersTyped,
                        Stamps, Statuses
<1>2. LockHeld'
  BY ClaimConstants DEF IInv, WriteDone, Write, GoTo, LockHeld
<1>3. StampsPast'
  BY DEF IInv, WriteDone, Write, Tick, GoTo, TypeOK, ItemTyped, LedgersTyped, ProcsTyped, Job,
         Stamps, StampsPast, Completing
<1>4. SweptSoFar' /\ BackLater'
  BY DEF IInv, WriteDone, Write, GoTo, TypeOK, ItemTyped, Stamps, SweptSoFar, BackLater,
         Completing, StampsPast
<1>5. EndedNoted'
  BY DEF IInv, WriteDone, Write, GoTo, ends, EndedNoted
<1>6. DoneIsUnclaimed'
  BY DEF IInv, WriteDone, Write, TypeOK, ItemTyped, Stamps, DoneIsUnclaimed, StampsPast
<1>7. ProcsTyped' /\ StepsMatch'
  BY WriteDoneMoves, MoveKeeps DEF IInv, TypeOK
<1>. QED BY <1>1, <1>2, <1>3, <1>4, <1>5, <1>6, <1>7 DEF IInv, TypeOK

LEMMA CloseOwnKeeps ==
  ASSUME IInv, NEW p \in Procs, CloseOwn(p)
  PROVE  IInv'
<1>1. ItemTyped' /\ LedgersTyped'
  BY ClaimConstants DEF CloseOwn, CloseEpisode, item, ends, IInv, TypeOK, ItemTyped,
                        LedgersTyped, ProcsTyped, Stamps
<1>2. LockHeld'
  BY DEF IInv, CloseOwn, CloseEpisode, GoTo, item, LockHeld
<1>3. StampsPast'
  BY DEF IInv, CloseOwn, CloseEpisode, GoTo, item, TypeOK, ItemTyped, Stamps, StampsPast,
         Completing
<1>4. SweptSoFar' /\ BackLater'
  BY DEF IInv, CloseOwn, CloseEpisode, GoTo, item, SweptSoFar, BackLater, Completing
<1>5. EndedNoted'
  BY DEF IInv, CloseOwn, CloseEpisode, GoTo, ends, EndedNoted
<1>6. DoneIsUnclaimed'
  BY DEF IInv, CloseOwn, CloseEpisode, item, DoneIsUnclaimed
<1>7. ProcsTyped' /\ StepsMatch'
  BY CloseOwnMoves, MoveKeeps DEF IInv, TypeOK
<1>. QED BY <1>1, <1>2, <1>3, <1>4, <1>5, <1>6, <1>7 DEF IInv, TypeOK

LEMMA CommitSticksKeeps ==
  ASSUME IInv, NEW p \in Procs, CommitSticks(p)
  PROVE  IInv'
<1>1. ItemTyped' /\ LedgersTyped'
  BY DEF CommitSticks, item, ends, IInv, TypeOK, ItemTyped, LedgersTyped
<1>2. LockHeld'
  BY DEF IInv, CommitSticks, GoTo, item, LockHeld
<1>3. StampsPast'
  BY DEF IInv, CommitSticks, GoTo, item, StampsPast, Completing
<1>4. SweptSoFar' /\ BackLater'
  BY DEF IInv, CommitSticks, GoTo, item, TypeOK, ProcsTyped, SweptSoFar, BackLater, Completing
<1>5. EndedNoted'
  BY DEF IInv, CommitSticks, GoTo, ends, EndedNoted
<1>6. DoneIsUnclaimed'
  BY DEF IInv, CommitSticks, item, DoneIsUnclaimed
<1>7. ProcsTyped' /\ StepsMatch'
  BY CommitSticksMoves, MoveKeeps DEF IInv, TypeOK
<1>. QED BY <1>1, <1>2, <1>3, <1>4, <1>5, <1>6, <1>7 DEF IInv, TypeOK

LEMMA CommitFailsKeeps ==
  ASSUME IInv, NEW p \in Procs, CommitFails(p)
  PROVE  IInv'
<1>1. ItemTyped' /\ LedgersTyped'
  BY ClaimConstants DEF CommitFails, Fault, item, ends, IInv, TypeOK, ItemTyped, LedgersTyped
<1>2. LockHeld'
  BY DEF IInv, CommitFails, GoTo, item, LockHeld
<1>3. StampsPast'
  BY DEF IInv, CommitFails, GoTo, item, StampsPast, Completing
<1>4. SweptSoFar' /\ BackLater'
  BY DEF IInv, CommitFails, GoTo, item, SweptSoFar, BackLater, Completing
<1>5. EndedNoted'
  BY DEF IInv, CommitFails, GoTo, ends, EndedNoted
<1>6. DoneIsUnclaimed'
  BY DEF IInv, CommitFails, item, DoneIsUnclaimed
<1>7. ProcsTyped' /\ StepsMatch'
  BY CommitFailsMoves, MoveKeeps DEF IInv, TypeOK
<1>. QED BY <1>1, <1>2, <1>3, <1>4, <1>5, <1>6, <1>7 DEF IInv, TypeOK

LEMMA ReopenKeeps ==
  ASSUME IInv, NEW p \in Procs, Reopen(p)
  PROVE  IInv'
<1>1. ItemTyped' /\ LedgersTyped'
  BY ClaimConstants DEF Reopen, Write, Tick, ends, IInv, TypeOK, ItemTyped, LedgersTyped, Stamps,
                        Statuses
<1>2. LockHeld'
  BY ClaimConstants DEF IInv, Reopen, Write, Finish, GoTo, LockHeld
<1>3. StampsPast'
  BY DEF IInv, Reopen, Write, Tick, Finish, GoTo, TypeOK, ItemTyped, LedgersTyped, ProcsTyped,
         Job, Stamps, StampsPast, Completing
<1>4. SweptSoFar' /\ BackLater'
  BY DEF IInv, Reopen, Write, Finish, GoTo, TypeOK, ItemTyped, ProcsTyped, Job, Stamps,
         SweptSoFar, BackLater, Completing, StampsPast
<1>5. EndedNoted'
  BY DEF IInv, Reopen, Write, Finish, GoTo, ends, EndedNoted
<1>6. DoneIsUnclaimed'
  BY DEF IInv, Reopen, Write, DoneIsUnclaimed
<1>7. ProcsTyped' /\ StepsMatch'
  BY ReopenMoves, MoveKeeps DEF IInv, TypeOK
<1>. QED BY <1>1, <1>2, <1>3, <1>4, <1>5, <1>6, <1>7 DEF IInv, TypeOK

LEMMA MarkStaleKeeps ==
  ASSUME IInv, NEW p \in Procs, MarkStale(p)
  PROVE  IInv'
<1>1. ItemTyped' /\ LedgersTyped'
  BY ClaimConstants DEF MarkStale, Write, Tick, ends, IInv, TypeOK, ItemTyped, LedgersTyped,
                        Stamps, Statuses
<1>2. LockHeld'
  BY ClaimConstants DEF IInv, MarkStale, Write, GoTo, LockHeld
<1>3. StampsPast'
  BY DEF IInv, MarkStale, Write, Tick, GoTo, StepsMatch, TypeOK, ItemTyped, LedgersTyped,
         ProcsTyped, Job, Stamps, StampsPast, Completing
<1>4. SweptSoFar' /\ BackLater'
  BY DEF IInv, MarkStale, Write, SweptSoFar, BackLater
<1>5. EndedNoted'
  BY DEF IInv, MarkStale, Write, GoTo, ends, EndedNoted
<1>6. DoneIsUnclaimed'
  BY DEF IInv, MarkStale, Write, DoneIsUnclaimed
<1>7. ProcsTyped' /\ StepsMatch'
  BY MarkStaleMoves, MoveKeeps DEF IInv, TypeOK
<1>. QED BY <1>1, <1>2, <1>3, <1>4, <1>5, <1>6, <1>7 DEF IInv, TypeOK

LEMMA EndSweepKeeps ==
  ASSUME IInv, NEW p \in Procs, EndSweep(p)
  PROVE  IInv'
<1>1. ItemTyped' /\ LedgersTyped'
  BY DEF EndSweep, item, ends, IInv, TypeOK, ItemTyped, LedgersTyped, ProcsTyped, Job
<1>2. LockHeld'
  BY DEF IInv, EndSweep, Finish, GoTo, item, LockHeld
<1>3. StampsPast'
  BY DEF IInv, EndSweep, Finish, GoTo, item, TypeOK, ProcsTyped, StampsPast, Completing
<1>4. SweptSoFar' /\ BackLater'
  BY DEF IInv, EndSweep, Finish, GoTo, item, TypeOK, ProcsTyped, SweptSoFar, BackLater, Completing
<1>5. EndedNoted'
  BY DEF IInv, EndSweep, Finish, GoTo, ends, EndedNoted
<1>6. DoneIsUnclaimed'
  BY DEF IInv, EndSweep, item, DoneIsUnclaimed, SweptSoFar
<1>7. ProcsTyped' /\ StepsMatch'
  BY EndSweepMoves, MoveKeeps DEF IInv, TypeOK
<1>. QED BY <1>1, <1>2, <1>3, <1>4, <1>5, <1>6, <1>7 DEF IInv, TypeOK

LEMMA EndReconcileKeeps ==
  ASSUME IInv, NEW p \in Procs, EndReconcile(p)
  PROVE  IInv'
<1>1. ItemTyped' /\ LedgersTyped'
  BY DEF EndReconcile, item, ends, IInv, TypeOK, ItemTyped, LedgersTyped
<1>2. LockHeld'
  BY DEF IInv, EndReconcile, Finish, GoTo, item, LockHeld
<1>3. StampsPast'
  BY DEF IInv, EndReconcile, Finish, GoTo, item, StampsPast, Completing
<1>4. SweptSoFar' /\ BackLater'
  BY DEF IInv, EndReconcile, Finish, GoTo, item, SweptSoFar, BackLater, Completing
<1>5. EndedNoted'
  BY DEF IInv, EndReconcile, Finish, GoTo, ends, TypeOK, ProcsTyped, EndedNoted
<1>6. DoneIsUnclaimed'
  BY DEF IInv, EndReconcile, item, DoneIsUnclaimed
<1>7. ProcsTyped' /\ StepsMatch'
  BY EndReconcileMoves, MoveKeeps DEF IInv, TypeOK
<1>. QED BY <1>1, <1>2, <1>3, <1>4, <1>5, <1>6, <1>7 DEF IInv, TypeOK

LEMMA SweepShardKeeps ==
  ASSUME IInv, NEW p \in Procs, NEW s \in Sessions, SweepShard(p, s)
  PROVE  IInv'
<1>1. ItemTyped' /\ LedgersTyped'
  BY ClaimConstants DEF SweepShard, item, ends, IInv, TypeOK, ItemTyped, LedgersTyped, Stamps
<1>2. LockHeld'
  BY DEF IInv, SweepShard, item, LockHeld
<1>3. StampsPast'
  BY DEF IInv, SweepShard, item, TypeOK, ItemTyped, Stamps, StampsPast, Completing
<1>4. SweptSoFar' /\ BackLater'
  BY DEF IInv, SweepShard, item, TypeOK, LedgersTyped, SweptSoFar, BackLater, Completing,
         StampsPast
<1>5. EndedNoted'
  BY DEF IInv, SweepShard, ends, EndedNoted
<1>6. DoneIsUnclaimed'
  BY DEF IInv, SweepShard, item, DoneIsUnclaimed
<1>7. ProcsTyped' /\ StepsMatch'
  BY SweepShardMoves, MoveKeeps DEF IInv, TypeOK
<1>. QED BY <1>1, <1>2, <1>3, <1>4, <1>5, <1>6, <1>7 DEF IInv, TypeOK

LEMMA ExpireShardKeeps ==
  ASSUME IInv, NEW p \in Procs, NEW s \in Sessions, ExpireShard(p, s)
  PROVE  IInv'
<1>1. ItemTyped' /\ LedgersTyped'
  BY ClaimConstants DEF ExpireShard, CloseEpisode, item, ends, IInv, TypeOK, ItemTyped,
                        LedgersTyped, Stamps
<1>2. LockHeld'
  BY DEF IInv, ExpireShard, CloseEpisode, item, LockHeld
<1>3. StampsPast'
  BY DEF IInv, ExpireShard, CloseEpisode, item, TypeOK, ItemTyped, Stamps, StampsPast, Completing
<1>4. SweptSoFar' /\ BackLater'
  BY DEF IInv, ExpireShard, CloseEpisode, item, SweptSoFar, BackLater, Completing
<1>5. EndedNoted'
  BY DEF IInv, ExpireShard, CloseEpisode, ends, EndedNoted
<1>6. DoneIsUnclaimed'
  BY DEF IInv, ExpireShard, CloseEpisode, item, DoneIsUnclaimed
<1>7. ProcsTyped' /\ StepsMatch'
  BY ExpireShardMoves, MoveKeeps DEF IInv, TypeOK
<1>. QED BY <1>1, <1>2, <1>3, <1>4, <1>5, <1>6, <1>7 DEF IInv, TypeOK

LEMMA OpenRowKeeps ==
  ASSUME IInv, NEW p \in Procs, OpenRow(p)
  PROVE  IInv'
<1>1. ItemTyped' /\ LedgersTyped'
  BY DEF OpenRow, item, ends, IInv, TypeOK, ItemTyped, LedgersTyped, Row
<1>2. LockHeld'
  BY DEF IInv, OpenRow, GoTo, item, LockHeld
<1>3. StampsPast'
  BY DEF IInv, OpenRow, GoTo, item, StampsPast, Completing
<1>4. SweptSoFar' /\ BackLater'
  BY DEF IInv, OpenRow, GoTo, item, SweptSoFar, BackLater, Completing
<1>5. EndedNoted'
  BY DEF IInv, OpenRow, GoTo, ends, EndedNoted
<1>6. DoneIsUnclaimed'
  BY DEF IInv, OpenRow, item, DoneIsUnclaimed
<1>7. ProcsTyped' /\ StepsMatch'
  BY OpenRowMoves, MoveKeeps DEF IInv, TypeOK
<1>. QED BY <1>1, <1>2, <1>3, <1>4, <1>5, <1>6, <1>7 DEF IInv, TypeOK

LEMMA ReadNoteKeeps ==
  ASSUME IInv, NEW p \in Procs, NEW s \in Sessions, ReadNote(p, s)
  PROVE  IInv'
<1>1. ItemTyped' /\ LedgersTyped'
  BY DEF ReadNote, item, ends, IInv, TypeOK, ItemTyped, LedgersTyped
<1>2. LockHeld'
  BY DEF IInv, ReadNote, GoTo, item, TypeOK, ProcsTyped, LockHeld
<1>3. StampsPast'
  BY DEF IInv, ReadNote, GoTo, item, TypeOK, ProcsTyped, StampsPast, Completing
<1>4. SweptSoFar' /\ BackLater'
  BY DEF IInv, ReadNote, GoTo, item, TypeOK, ProcsTyped, SweptSoFar, BackLater, Completing
<1>5. EndedNoted'
  BY DEF IInv, ReadNote, GoTo, ends, TypeOK, ProcsTyped, Job, EndedNoted
<1>6. DoneIsUnclaimed'
  BY DEF IInv, ReadNote, item, DoneIsUnclaimed
<1>7. ProcsTyped' /\ StepsMatch'
  BY ReadNoteMoves, MoveKeeps DEF IInv, TypeOK
<1>. QED BY <1>1, <1>2, <1>3, <1>4, <1>5, <1>6, <1>7 DEF IInv, TypeOK

LEMMA MarkKeeps ==
  ASSUME IInv, NEW p \in Procs, Mark(p)
  PROVE  IInv'
<1>1. ItemTyped' /\ LedgersTyped'
  BY DEF Mark, item, IInv, TypeOK, ItemTyped, LedgersTyped, ProcsTyped, Job
<1>2. LockHeld'
  BY DEF IInv, Mark, GoTo, item, TypeOK, ProcsTyped, LockHeld
<1>3. StampsPast'
  BY DEF IInv, Mark, GoTo, item, TypeOK, ProcsTyped, StampsPast, Completing
<1>4. SweptSoFar' /\ BackLater'
  BY DEF IInv, Mark, GoTo, item, TypeOK, ProcsTyped, SweptSoFar, BackLater, Completing
<1>5. EndedNoted'
  BY DEF IInv, Mark, GoTo, TypeOK, ProcsTyped, EndedNoted
<1>6. DoneIsUnclaimed'
  BY DEF IInv, Mark, item, DoneIsUnclaimed
<1>7. ProcsTyped' /\ StepsMatch'
  BY MarkMoves, MoveKeeps DEF IInv, TypeOK
<1>. QED BY <1>1, <1>2, <1>3, <1>4, <1>5, <1>6, <1>7 DEF IInv, TypeOK

LEMMA EndCatchUpKeeps ==
  ASSUME IInv, NEW p \in Procs, EndCatchUp(p)
  PROVE  IInv'
<1>1. ItemTyped' /\ LedgersTyped'
  BY DEF EndCatchUp, item, ends, IInv, TypeOK, ItemTyped, LedgersTyped
<1>2. LockHeld'
  BY DEF IInv, EndCatchUp, Finish, GoTo, item, LockHeld
<1>3. StampsPast'
  BY DEF IInv, EndCatchUp, Finish, GoTo, item, StampsPast, Completing
<1>4. SweptSoFar' /\ BackLater'
  BY DEF IInv, EndCatchUp, Finish, GoTo, item, SweptSoFar, BackLater, Completing
<1>5. EndedNoted'
  BY DEF IInv, EndCatchUp, Finish, GoTo, ends, EndedNoted
<1>6. DoneIsUnclaimed'
  BY DEF IInv, EndCatchUp, item, DoneIsUnclaimed
<1>7. ProcsTyped' /\ StepsMatch'
  BY EndCatchUpMoves, MoveKeeps DEF IInv, TypeOK
<1>. QED BY <1>1, <1>2, <1>3, <1>4, <1>5, <1>6, <1>7 DEF IInv, TypeOK

LEMMA RecordNoteKeeps ==
  ASSUME IInv, NEW p \in Procs, RecordNote(p)
  PROVE  IInv'
<1>1. ItemTyped' /\ LedgersTyped'
  BY ClaimConstants DEF RecordNote, Tick, item, IInv, TypeOK, ItemTyped, LedgersTyped,
                        ProcsTyped, Stamps
<1>2. LockHeld'
  BY DEF IInv, RecordNote, GoTo, item, LockHeld
<1>3. StampsPast'
  BY DEF IInv, RecordNote, Tick, GoTo, item, TypeOK, ItemTyped, Stamps, StampsPast, Completing
<1>4. SweptSoFar' /\ BackLater'
  BY DEF IInv, RecordNote, GoTo, item, SweptSoFar, BackLater, Completing
<1>5. EndedNoted'
  BY DEF IInv, RecordNote, GoTo, StepsMatch, TypeOK, ItemTyped, LedgersTyped, ProcsTyped, Stamps,
         EndedNoted
<1>6. DoneIsUnclaimed'
  BY DEF IInv, RecordNote, item, DoneIsUnclaimed
<1>7. ProcsTyped' /\ StepsMatch'
  BY RecordNoteMoves, MoveKeeps DEF IInv, TypeOK
<1>. QED BY <1>1, <1>2, <1>3, <1>4, <1>5, <1>6, <1>7 DEF IInv, TypeOK

LEMMA CloseRowKeeps ==
  ASSUME IInv, NEW p \in Procs, CloseRow(p)
  PROVE  IInv'
<1>1. ItemTyped' /\ LedgersTyped'
  BY DEF CloseRow, item, ends, IInv, TypeOK, ItemTyped, LedgersTyped, Row
<1>2. LockHeld'
  BY DEF IInv, CloseRow, GoTo, item, LockHeld
<1>3. StampsPast'
  BY DEF IInv, CloseRow, GoTo, item, StampsPast, Completing
<1>4. SweptSoFar' /\ BackLater'
  BY DEF IInv, CloseRow, GoTo, item, SweptSoFar, BackLater, Completing
<1>5. EndedNoted'
  BY DEF IInv, CloseRow, GoTo, ends, EndedNoted
<1>6. DoneIsUnclaimed'
  BY DEF IInv, CloseRow, item, DoneIsUnclaimed
<1>7. ProcsTyped' /\ StepsMatch'
  BY CloseRowMoves, MoveKeeps DEF IInv, TypeOK
<1>. QED BY <1>1, <1>2, <1>3, <1>4, <1>5, <1>6, <1>7 DEF IInv, TypeOK

LEMMA CloseEpisodesKeeps ==
  ASSUME IInv, NEW p \in Procs, CloseEpisodes(p)
  PROVE  IInv'
<1>1. ItemTyped' /\ LedgersTyped'
  BY ClaimConstants DEF CloseEpisodes, EpisodesTried, CloseEpisode, item, ends, IInv, TypeOK, ItemTyped,
                        LedgersTyped, ProcsTyped, Stamps
<1>2. LockHeld'
  BY DEF IInv, CloseEpisodes, EpisodesTried, CloseEpisode, Finish, GoTo, item, TypeOK, ProcsTyped, LockHeld
<1>3. StampsPast'
  BY DEF IInv, CloseEpisodes, EpisodesTried, CloseEpisode, Finish, GoTo, item, TypeOK, ItemTyped, ProcsTyped,
         Stamps, StampsPast, Completing
<1>4. SweptSoFar' /\ BackLater'
  BY DEF IInv, CloseEpisodes, EpisodesTried, CloseEpisode, Finish, GoTo, item, TypeOK, ProcsTyped, SweptSoFar,
         BackLater, Completing
<1>5. EndedNoted'
  BY DEF IInv, CloseEpisodes, EpisodesTried, CloseEpisode, Finish, GoTo, ends, TypeOK, ProcsTyped, EndedNoted
<1>6. DoneIsUnclaimed'
  BY DEF IInv, CloseEpisodes, EpisodesTried, CloseEpisode, item, DoneIsUnclaimed
<1>7. ProcsTyped' /\ StepsMatch'
  BY CloseEpisodesMoves, MoveKeeps DEF IInv, TypeOK
<1>. QED BY <1>1, <1>2, <1>3, <1>4, <1>5, <1>6, <1>7 DEF IInv, TypeOK

\* A close that fails leaves a record of the end it was of.
LEMMA MissTyped ==
  ASSUME TypeOK, NEW p \in Procs, NEW what \in {"row", "episodes"},
         pc[p] \in {"closeRow", "closeEpisodes"}, Miss(p, what)
  PROVE  /\ missed' \subseteq Sessions \X Stamps \X {"row", "episodes"}
         /\ faults' \in 0 .. MaxFaults
<1>1. job[p].target \in Sessions /\ job[p].at \in Stamps
  BY DEF TypeOK, ProcsTyped, Job
<1>2. missed \subseteq Sessions \X Stamps \X {"row", "episodes"}
  BY DEF TypeOK, LedgersTyped
<1>3. faults' \in 0 .. MaxFaults
  BY ClaimConstants DEF TypeOK, ItemTyped, Miss, Fault
<1>. QED BY <1>1, <1>2, <1>3 DEF Miss

LEMMA CloseRowFailsKeeps ==
  ASSUME IInv, NEW p \in Procs, CloseRowFails(p)
  PROVE  IInv'
<1>1. ItemTyped' /\ LedgersTyped'
  BY MissTyped DEF CloseRowFails, item, IInv, TypeOK, ItemTyped, LedgersTyped
<1>2. LockHeld'
  BY DEF IInv, CloseRowFails, GoTo, item, LockHeld
<1>3. StampsPast'
  BY DEF IInv, CloseRowFails, GoTo, item, StampsPast, Completing
<1>4. SweptSoFar' /\ BackLater'
  BY DEF IInv, CloseRowFails, GoTo, item, SweptSoFar, BackLater, Completing
<1>5. EndedNoted'
  BY DEF IInv, CloseRowFails, GoTo, ends, EndedNoted
<1>6. DoneIsUnclaimed'
  BY DEF IInv, CloseRowFails, item, DoneIsUnclaimed
<1>7. ProcsTyped' /\ StepsMatch'
  BY CloseRowFailsMoves, MoveKeeps DEF IInv, TypeOK
<1>. QED BY <1>1, <1>2, <1>3, <1>4, <1>5, <1>6, <1>7 DEF IInv, TypeOK

LEMMA CloseEpisodesFailKeeps ==
  ASSUME IInv, NEW p \in Procs, CloseEpisodesFail(p)
  PROVE  IInv'
<1>1. ItemTyped' /\ LedgersTyped'
  BY MissTyped DEF CloseEpisodesFail, EpisodesTried, item, IInv, TypeOK, ItemTyped, LedgersTyped
<1>2. LockHeld'
  BY DEF IInv, CloseEpisodesFail, EpisodesTried, Finish, GoTo, item, TypeOK, ProcsTyped, LockHeld
<1>3. StampsPast'
  BY DEF IInv, CloseEpisodesFail, EpisodesTried, Finish, GoTo, item, TypeOK, ItemTyped, ProcsTyped,
         Stamps, StampsPast, Completing
<1>4. SweptSoFar' /\ BackLater'
  BY DEF IInv, CloseEpisodesFail, EpisodesTried, Finish, GoTo, item, TypeOK, ProcsTyped, SweptSoFar,
         BackLater, Completing
<1>5. EndedNoted'
  BY DEF IInv, CloseEpisodesFail, EpisodesTried, Finish, GoTo, ends, TypeOK, ProcsTyped, EndedNoted
<1>6. DoneIsUnclaimed'
  BY DEF IInv, CloseEpisodesFail, EpisodesTried, item, DoneIsUnclaimed
<1>7. ProcsTyped' /\ StepsMatch'
  BY CloseEpisodesFailMoves, MoveKeeps DEF IInv, TypeOK
<1>. QED BY <1>1, <1>2, <1>3, <1>4, <1>5, <1>6, <1>7 DEF IInv, TypeOK

LEMMA CrashKeeps ==
  ASSUME IInv, NEW p \in Procs, Crash(p)
  PROVE  IInv'
<1>1. ItemTyped' /\ LedgersTyped'
  BY ClaimConstants DEF Crash, Fault, Drop, ends, IInv, TypeOK, ItemTyped, LedgersTyped
<1>2. LockHeld'
  BY ClaimConstants DEF IInv, Crash, Drop, Finish, GoTo, TypeOK, ProcsTyped, LockHeld
<1>3. StampsPast'
  BY DEF IInv, Crash, Finish, GoTo, TypeOK, ProcsTyped, StampsPast, Completing
<1>4. SweptSoFar' /\ BackLater'
  BY DEF IInv, Crash, Finish, GoTo, TypeOK, ProcsTyped, SweptSoFar, BackLater, Completing
<1>5. EndedNoted'
  BY DEF IInv, Crash, Finish, GoTo, ends, TypeOK, ProcsTyped, EndedNoted
<1>6. DoneIsUnclaimed'
  BY DEF IInv, Crash, DoneIsUnclaimed
<1>7. ProcsTyped' /\ StepsMatch'
  BY CrashMoves, MoveKeeps DEF IInv, TypeOK
<1>. QED BY <1>1, <1>2, <1>3, <1>4, <1>5, <1>6, <1>7 DEF IInv, TypeOK

LEMMA BeginStartKeeps ==
  ASSUME IInv, NEW p \in Procs, NEW s \in Sessions, NEW cmd, BeginStart(p, s, cmd)
  PROVE  IInv'
<1>1. ItemTyped' /\ LedgersTyped'
  BY DEF BeginStart, Begin, item, ends, IInv, TypeOK, ItemTyped, LedgersTyped
<1>2. LockHeld'
  BY DEF IInv, BeginStart, Begin, GoTo, item, LockHeld
<1>3. StampsPast'
  BY DEF IInv, BeginStart, Begin, GoTo, item, StampsPast, Completing
<1>4. SweptSoFar' /\ BackLater'
  BY DEF IInv, BeginStart, Begin, GoTo, item, SweptSoFar, BackLater, Completing
<1>5. EndedNoted'
  BY DEF IInv, BeginStart, Begin, GoTo, ends, EndedNoted
<1>6. DoneIsUnclaimed'
  BY DEF IInv, BeginStart, Begin, item, DoneIsUnclaimed
<1>7. ProcsTyped' /\ StepsMatch'
  BY BeginStartMoves, MoveKeeps DEF IInv, TypeOK
<1>. QED BY <1>1, <1>2, <1>3, <1>4, <1>5, <1>6, <1>7 DEF IInv, TypeOK

LEMMA BeginCompleteKeeps ==
  ASSUME IInv, NEW p \in Procs, NEW s \in Sessions, BeginComplete(p, s)
  PROVE  IInv'
<1>1. ItemTyped' /\ LedgersTyped'
  BY DEF BeginComplete, Begin, item, ends, IInv, TypeOK, ItemTyped, LedgersTyped
<1>2. LockHeld'
  BY DEF IInv, BeginComplete, Begin, GoTo, item, LockHeld
<1>3. StampsPast'
  BY DEF IInv, BeginComplete, Begin, GoTo, item, StampsPast, Completing
<1>4. SweptSoFar' /\ BackLater'
  BY DEF IInv, BeginComplete, Begin, GoTo, item, SweptSoFar, BackLater, Completing
<1>5. EndedNoted'
  BY DEF IInv, BeginComplete, Begin, GoTo, ends, EndedNoted
<1>6. DoneIsUnclaimed'
  BY DEF IInv, BeginComplete, Begin, item, DoneIsUnclaimed
<1>7. ProcsTyped' /\ StepsMatch'
  BY BeginCompleteMoves, MoveKeeps DEF IInv, TypeOK
<1>. QED BY <1>1, <1>2, <1>3, <1>4, <1>5, <1>6, <1>7 DEF IInv, TypeOK

LEMMA BeginStaleKeeps ==
  ASSUME IInv, NEW p \in Procs, NEW s \in Sessions, BeginStale(p, s)
  PROVE  IInv'
<1>1. ItemTyped' /\ LedgersTyped'
  BY DEF BeginStale, Begin, item, ends, IInv, TypeOK, ItemTyped, LedgersTyped
<1>2. LockHeld'
  BY DEF IInv, BeginStale, Begin, GoTo, item, LockHeld
<1>3. StampsPast'
  BY DEF IInv, BeginStale, Begin, GoTo, item, StampsPast, Completing
<1>4. SweptSoFar' /\ BackLater'
  BY DEF IInv, BeginStale, Begin, GoTo, item, SweptSoFar, BackLater, Completing
<1>5. EndedNoted'
  BY DEF IInv, BeginStale, Begin, GoTo, ends, EndedNoted
<1>6. DoneIsUnclaimed'
  BY DEF IInv, BeginStale, Begin, item, DoneIsUnclaimed
<1>7. ProcsTyped' /\ StepsMatch'
  BY BeginStaleMoves, MoveKeeps DEF IInv, TypeOK
<1>. QED BY <1>1, <1>2, <1>3, <1>4, <1>5, <1>6, <1>7 DEF IInv, TypeOK

LEMMA BeginReconcileKeeps ==
  ASSUME IInv, NEW p \in Procs, NEW s \in Sessions, BeginReconcile(p, s)
  PROVE  IInv'
<1>1. ItemTyped' /\ LedgersTyped'
  BY DEF BeginReconcile, Begin, item, ends, IInv, TypeOK, ItemTyped, LedgersTyped
<1>2. LockHeld'
  BY DEF IInv, BeginReconcile, Begin, GoTo, item, LockHeld
<1>3. StampsPast'
  BY DEF IInv, BeginReconcile, Begin, GoTo, item, StampsPast, Completing
<1>4. SweptSoFar' /\ BackLater'
  BY DEF IInv, BeginReconcile, Begin, GoTo, item, SweptSoFar, BackLater, Completing
<1>5. EndedNoted'
  BY DEF IInv, BeginReconcile, Begin, GoTo, JobOf, ends, TypeOK, ProcsTyped, EndedNoted,
         EndedOthers
<1>6. DoneIsUnclaimed'
  BY DEF IInv, BeginReconcile, Begin, item, DoneIsUnclaimed
<1>7. ProcsTyped' /\ StepsMatch'
  BY BeginReconcileMoves, MoveKeeps DEF IInv, TypeOK
<1>. QED BY <1>1, <1>2, <1>3, <1>4, <1>5, <1>6, <1>7 DEF IInv, TypeOK

LEMMA LaunchKeeps ==
  ASSUME IInv, NEW p \in Procs, NEW s \in Sessions, Launch(p, s)
  PROVE  IInv'
<1>1. ItemTyped' /\ LedgersTyped'
  BY ClaimConstants DEF Launch, Tick, item, IInv, TypeOK, ItemTyped, LedgersTyped, Stamps
<1>2. LockHeld'
  BY DEF IInv, Launch, GoTo, item, LockHeld
<1>3. StampsPast'
  BY DEF IInv, Launch, Tick, GoTo, item, TypeOK, ItemTyped, Stamps, StampsPast, Completing
<1>4. SweptSoFar' /\ BackLater'
  BY DEF IInv, Launch, GoTo, item, SweptSoFar, BackLater, Completing
<1>5. EndedNoted'
  BY DEF IInv, Launch, GoTo, EndedNoted
<1>6. DoneIsUnclaimed'
  BY DEF IInv, Launch, item, DoneIsUnclaimed
<1>7. ProcsTyped' /\ StepsMatch'
  BY LaunchMoves, MoveKeeps DEF IInv, TypeOK
<1>. QED BY <1>1, <1>2, <1>3, <1>4, <1>5, <1>6, <1>7 DEF IInv, TypeOK

LEMMA ExitKeeps ==
  ASSUME IInv, NEW p \in Procs, NEW s \in Sessions, Exit(p, s)
  PROVE  IInv'
<1>1. ItemTyped' /\ LedgersTyped'
  BY DEF Exit, item, IInv, TypeOK, ItemTyped, LedgersTyped
<1>2. LockHeld'
  BY DEF IInv, Exit, GoTo, item, LockHeld
<1>3. StampsPast'
  BY DEF IInv, Exit, GoTo, item, StampsPast, Completing
<1>4. SweptSoFar' /\ BackLater'
  BY DEF IInv, Exit, GoTo, item, SweptSoFar, BackLater, Completing
<1>5. EndedNoted'
  BY DEF IInv, Exit, GoTo, EndedNoted
<1>6. DoneIsUnclaimed'
  BY DEF IInv, Exit, item, DoneIsUnclaimed
<1>7. ProcsTyped' /\ StepsMatch'
  BY ExitMoves, MoveKeeps DEF IInv, TypeOK
<1>. QED BY <1>1, <1>2, <1>3, <1>4, <1>5, <1>6, <1>7 DEF IInv, TypeOK

LEMMA BlockKeeps ==
  ASSUME IInv, NEW p \in Procs, NEW s \in Sessions, Block(p, s)
  PROVE  IInv'
<1>1. ItemTyped' /\ LedgersTyped'
  BY ClaimConstants DEF Block, Write, Tick, ends, IInv, TypeOK, ItemTyped, LedgersTyped, Stamps,
                        Statuses
<1>2. LockHeld'
  BY ClaimConstants DEF IInv, Block, Write, LockHeld
<1>3. StampsPast'
  BY DEF IInv, Block, Write, Tick, TypeOK, ItemTyped, LedgersTyped, ProcsTyped, Job, Stamps,
         StampsPast, Completing
<1>4. SweptSoFar' /\ BackLater'
  BY DEF IInv, Block, Write, SweptSoFar, BackLater
<1>5. EndedNoted'
  BY DEF IInv, Block, Write, ends, EndedNoted
<1>6. DoneIsUnclaimed'
  BY DEF IInv, Block, Write, DoneIsUnclaimed
<1>7. ProcsTyped' /\ StepsMatch'
  BY DEF Block, IInv, TypeOK, ProcsTyped, StepsMatch
<1>. QED BY <1>1, <1>2, <1>3, <1>4, <1>5, <1>6, <1>7 DEF IInv, TypeOK

LEMMA KillKeeps ==
  ASSUME IInv, NEW s \in Sessions, Kill(s)
  PROVE  IInv'
<1>1. ItemTyped' /\ LedgersTyped'
  BY ClaimConstants DEF Kill, Fault, Drop, IInv, TypeOK, ItemTyped, LedgersTyped
<1>2. LockHeld'
  BY ClaimConstants DEF IInv, Kill, Drop, LockHeld
<1>3. StampsPast'
  BY DEF IInv, Kill, StampsPast, Completing
<1>4. SweptSoFar' /\ BackLater'
  BY DEF IInv, Kill, SweptSoFar, BackLater, Completing
<1>5. EndedNoted'
  BY DEF IInv, Kill, EndedNoted
<1>6. DoneIsUnclaimed'
  BY DEF IInv, Kill, DoneIsUnclaimed
<1>7. ProcsTyped' /\ StepsMatch'
  <2>1. pc' \in [Procs -> PCs] /\ job' \in [Procs -> Job]
    BY IdleFits DEF Kill, IInv, TypeOK, ProcsTyped, Fits
  <2>2. \A q \in Procs : Fits(pc'[q], job'[q])
    BY IdleFits, FitsIsTyped DEF Kill, AllFit, IInv, TypeOK
  <2>. QED BY <2>1, <2>2 DEF Fits, ProcsTyped, StepsMatch, PCs, Job, AllCommands, Stamps
<1>. QED BY <1>1, <1>2, <1>3, <1>4, <1>5, <1>6, <1>7 DEF IInv, TypeOK

-----------------------------------------------------------------------------
(* The theorems *)

\* Nothing is claimed, swept or ended before the first step.
LEMMA InitFits == Init => IInv
<1>. SUFFICES ASSUME Init PROVE IInv
  OBVIOUS
<1>1. 0 \in Stamps /\ faults \in 0 .. MaxFaults
  BY ClaimConstants DEF Init, Stamps
<1>2. ItemTyped /\ LedgersTyped
  BY <1>1, ClaimConstants DEF Init, ItemTyped, LedgersTyped, Statuses, Row
<1>3. ProcsTyped /\ StepsMatch
  BY IdleFits DEF Init, ProcsTyped, StepsMatch, Fits, NoJob, JobOf
<1>4. LockHeld /\ StampsPast /\ SweptSoFar /\ BackLater /\ EndedNoted /\ DoneIsUnclaimed
  BY ClaimConstants DEF Init, LockHeld, StampsPast, SweptSoFar, BackLater, EndedNoted,
       DoneIsUnclaimed, Completing
<1>. QED BY <1>2, <1>3, <1>4 DEF IInv, TypeOK

\* The invariant is inductive.
LEMMA StepKeeps == IInv /\ [Next]_vars => IInv'
<1>. SUFFICES ASSUME IInv, [Next]_vars PROVE IInv'
  OBVIOUS
<1>1. CASE UNCHANGED vars
  BY <1>1 DEF vars, item, ends, IInv, TypeOK, ItemTyped, LedgersTyped, ProcsTyped,
       StepsMatch, LockHeld, StampsPast, SweptSoFar, BackLater, EndedNoted,
       DoneIsUnclaimed, Completing
<1>2. ASSUME NEW p \in Procs, StartStep(p) PROVE IInv'
  BY <1>2, WriteActiveKeeps, CloseStaleKeeps, OpenEpisodeKeeps DEF StartStep
<1>3. ASSUME NEW p \in Procs, CompleteStep(p) PROVE IInv'
  BY <1>3, WriteDoneKeeps, CloseOwnKeeps, CommitSticksKeeps, CommitFailsKeeps,
     ReopenKeeps DEF CompleteStep
<1>4. ASSUME NEW p \in Procs, SweepStep(p) PROVE IInv'
  BY <1>4, MarkStaleKeeps, EndSweepKeeps, EndReconcileKeeps, SweepShardKeeps,
     ExpireShardKeeps DEF SweepStep
<1>5. ASSUME NEW p \in Procs, HookStep(p) PROVE IInv'
  BY <1>5, OpenRowKeeps, EndCatchUpKeeps, MarkKeeps, RecordNoteKeeps, CloseRowKeeps,
     CloseRowFailsKeeps, CloseEpisodesKeeps, CloseEpisodesFailKeeps, ReadNoteKeeps DEF HookStep
<1>6. ASSUME NEW p \in Procs, NEW s \in Sessions, Request(p, s) PROVE IInv'
  BY <1>6, BeginStartKeeps, BeginCompleteKeeps, BeginStaleKeeps, BeginReconcileKeeps,
     BlockKeeps, LaunchKeeps, ExitKeeps DEF Request
<1>. QED BY <1>1, <1>2, <1>3, <1>4, <1>5, <1>6, CrashKeeps, KillKeeps DEF Next

\* The inductive invariant holds in every reachable state.
THEOREM ClaimsConsistent == Spec => []IInv
BY InitFits, StepKeeps, PTL DEF Spec

\* A completion that stuck leaves no session's claim on the item open, however
\* starts, other completions and session ends interleave with its sweep.
THEOREM CompletionUnclaims == Spec => []DoneIsUnclaimed
<1>1. IInv => DoneIsUnclaimed
  BY DEF IInv
<1>. QED BY <1>1, ClaimsConsistent, PTL

\* It holds along with the types in every reachable state.
THEOREM ClaimsStaySound == Spec => []ClaimsSound
<1>1. IInv => TypeOK
  BY DEF IInv
<1>. QED BY <1>1, ClaimsConsistent, CompletionUnclaims, PTL DEF ClaimsSound

\* A step that ends the claim of a running session without an end note is one
\* of its own processes, or of `wipnote stale`.
LEMMA OnlyEntitledEnd ==
  ASSUME IInv, Next, NEW s \in Sessions, note[s] = 0, ClaimEnds(s)
  PROVE  Entitled(s)
<1>1. ASSUME NEW p \in Procs, StartStep(p) PROVE Entitled(s)
  <2>1. CASE CloseStale(p)
    <3>1. job[p].session = s
      BY <2>1 DEF CloseStale, CloseEpisode, ClaimEnds, IInv, TypeOK, LedgersTyped
    <3>2. pc'[p] # pc[p]
      BY <2>1 DEF CloseStale, GoTo, IInv, TypeOK, ProcsTyped
    <3>. QED BY <3>1, <3>2 DEF Entitled, Acts
  <2>2. CASE WriteActive(p) \/ OpenEpisode(p)
    BY <2>2 DEF WriteActive, OpenEpisode, ClaimEnds, IInv, TypeOK, LedgersTyped
  <2>. QED BY <1>1, <2>1, <2>2 DEF StartStep
<1>2. ASSUME NEW p \in Procs, CompleteStep(p) PROVE Entitled(s)
  <2>1. CASE CloseOwn(p)
    <3>1. job[p].session = s
      BY <2>1 DEF CloseOwn, CloseEpisode, ClaimEnds, IInv, TypeOK, LedgersTyped
    <3>2. pc'[p] # pc[p]
      BY <2>1 DEF CloseOwn, GoTo, IInv, TypeOK, ProcsTyped
    <3>. QED BY <3>1, <3>2 DEF Entitled, Acts
  <2>2. CASE WriteDone(p) \/ CommitSticks(p) \/ CommitFails(p) \/ Reopen(p)
    BY <2>2 DEF WriteDone, CommitSticks, CommitFails, Reopen, ClaimEnds
  <2>. QED BY <1>2, <2>1, <2>2 DEF CompleteStep
<1>3. ASSUME NEW p \in Procs, SweepStep(p) PROVE Entitled(s)
  <2>1. ASSUME NEW t \in Sessions, SweepShard(p, t) PROVE Entitled(s)
    <3>1. t = s /\ (job[p].cmd = "stale" \/ shard[s] <= job[p].at)
      BY <2>1 DEF SweepShard, ClaimEnds, IInv, TypeOK, LedgersTyped
    <3>2. job[p].cmd # "complete"
      <4>1. SUFFICES ASSUME job[p].cmd = "complete" PROVE FALSE
        OBVIOUS
      <4>2. job[p].at < since
        BY <2>1, <4>1 DEF SweepShard, IInv, BackLater, Completing, ClaimEnds
      <4>3. shard[s] <= job[p].at /\ shard[s] >= since
        BY <3>1, <4>1 DEF ClaimEnds
      <4>. QED BY <4>2, <4>3 DEF IInv, TypeOK, ItemTyped, LedgersTyped, ProcsTyped, Job, Stamps
    <3>3. job[p].cmd = "stale"
      BY <2>1, <3>2 DEF SweepShard, IInv, StepsMatch
    <3>4. job'[p] # job[p]
      BY <2>1 DEF SweepShard, IInv, TypeOK, ProcsTyped, Job
    <3>. QED BY <3>3, <3>4 DEF Entitled, Acts
  <2>2. ASSUME NEW t \in Sessions, ExpireShard(p, t) PROVE Entitled(s)
    BY <2>2 DEF ExpireShard, CloseEpisode, ClaimEnds, IInv, TypeOK, LedgersTyped, EndedNoted
  <2>3. CASE MarkStale(p) \/ EndSweep(p) \/ EndReconcile(p)
    BY <2>3 DEF MarkStale, EndSweep, EndReconcile, ClaimEnds
  <2>. QED BY <1>3, <2>1, <2>2, <2>3 DEF SweepStep
<1>4. ASSUME NEW p \in Procs, HookStep(p) PROVE Entitled(s)
  <2>1. CASE CloseEpisodes(p)
    BY <2>1 DEF CloseEpisodes, EpisodesTried, CloseEpisode, ClaimEnds, IInv, TypeOK,
           LedgersTyped, EndedNoted
  <2>2. shard' = shard \/ CloseEpisodes(p)
    BY <1>4 DEF HookStep, OpenRow, EndCatchUp, Mark, RecordNote, CloseRow, CloseRowFails,
           CloseEpisodesFail, ReadNote
  <2>. QED BY <2>1, <2>2 DEF ClaimEnds
<1>5. ASSUME NEW p \in Procs, NEW t \in Sessions, Request(p, t) PROVE Entitled(s)
  BY <1>5 DEF Request, BeginStart, BeginComplete, BeginStale, BeginReconcile, Block,
       Launch, Exit, ClaimEnds
<1>6. ASSUME NEW p \in Procs, Crash(p) PROVE Entitled(s)
  BY <1>6 DEF Crash, ClaimEnds
<1>7. ASSUME NEW t \in Sessions, Kill(t) PROVE Entitled(s)
  BY <1>7 DEF Kill, ClaimEnds
<1>. QED BY <1>1, <1>2, <1>3, <1>4, <1>5, <1>6, <1>7 DEF Next

\* Sweeps, catch-ups and reconciles leave alone the claim of a running session
\* that never wrote an end note.
THEOREM FirstRunIsSafe == Spec => FirstRunClaimStands
<1>1. IInv /\ [Next]_vars =>
        [\A s \in Sessions : note[s] = 0 /\ ClaimEnds(s) => Entitled(s)]_vars
  BY OnlyEntitledEnd
<1>. QED BY <1>1, ClaimsConsistent, PTL DEF Spec, FirstRunClaimStands

-----------------------------------------------------------------------------
(* The ends of sessions *)

Closing == {"closeRow", "closeEpisodes", "mark"}

\* No note, launch or row is of the future, a marker is of a note, and only a
\* session that ended has a note younger than its launch.
NotesPast ==
  \A s \in Sessions :
    /\ note[s] <= now /\ launched[s] <= now /\ marker[s] <= note[s]
    /\ row[s].start <= launched[s]
    /\ alive[s] => note[s] <= launched[s]

\* What runs for a session runs while its harness does, but for the end hook,
\* which runs alone when the harness has ended.
RunBy ==
  \A p \in Procs : pc[p] # "idle" =>
    IF job[p].cmd = "exit"
    THEN /\ pc[p] \in {"note", "closeRow", "closeEpisodes"}
         /\ ~alive[job[p].session]
         /\ \A q \in Procs \ {p} : pc[q] # "idle" => job[q].session # job[p].session
    ELSE alive[job[p].session]

\* What a process that finishes the latest end of a session has done so far.
OnTheWay ==
  \A p \in Procs : pc[p] \in Closing =>
    LET t == job[p].target IN
    /\ job[p].at <= note[t]
    /\ job[p].at = note[t] /\ note[t] > launched[t] =>
         /\ pc[p] # "closeRow" /\ job[p].cmd # "exit" =>
              (row[t].state = "open" => <<t, note[t], "row">> \in missed)
         /\ pc[p] = "mark" => (shard[t] # 0 => <<t, note[t], "episodes">> \in missed)

EndInv == NotesPast /\ RunBy /\ OnTheWay /\ CaughtUp

\* Times are numbers.
LEMMA Times ==
  ASSUME TypeOK
  PROVE  /\ now \in Nat
         /\ \A s \in Sessions : /\ note[s] \in Nat /\ launched[s] \in Nat /\ marker[s] \in Nat
                                /\ row[s].start \in Nat /\ alive[s] \in BOOLEAN
         /\ \A p \in Procs : job[p].at \in Nat
<1>1. Stamps \subseteq Nat
  BY ClaimConstants DEF Stamps
<1>2. now \in Stamps
  BY DEF TypeOK, ItemTyped
<1>3. ASSUME NEW s \in Sessions
      PROVE  /\ note[s] \in Stamps /\ launched[s] \in Stamps /\ marker[s] \in Stamps
             /\ row[s].start \in Stamps /\ alive[s] \in BOOLEAN
  BY DEF TypeOK, LedgersTyped, Row
<1>4. ASSUME NEW p \in Procs PROVE job[p].at \in Stamps
  BY DEF TypeOK, ProcsTyped, Job
<1> QED BY <1>1, <1>2, <1>3, <1>4

\* A step of a command leaves the ends of sessions alone: it closes episodes,
\* and opens one of a running session.
OfCommand(p) ==
  /\ UNCHANGED <<row, ends>> /\ (now' = now \/ now' = now + 1)
  /\ \A s \in Sessions : shard'[s] \in {0, shard[s]} \/ alive[s]
  /\ \A q \in Procs \ {p} : pc'[q] = pc[q] /\ job'[q] = job[q]
  /\ \/ pc'[p] = "idle"
     \/ /\ pc'[p] \notin Closing /\ job'[p].cmd # "exit" /\ alive[job'[p].session]

LEMMA CommandsKeepEnds ==
  ASSUME IInv, EndInv, NEW p \in Procs, OfCommand(p)
  PROVE  EndInv'
<1>1. TypeOK
  BY DEF IInv
<1>2. NotesPast'
  BY <1>1, Times DEF EndInv, NotesPast, OfCommand, ends
<1>3. RunBy'
  BY DEF EndInv, RunBy, OfCommand, ends
<1>4. ASSUME NEW s \in Sessions, note[s] > launched[s]
      PROVE  ~alive[s] /\ (shard[s] = 0 => shard'[s] = 0)
  BY <1>1, <1>4, Times DEF EndInv, NotesPast, OfCommand
<1>5. OnTheWay'
  <2> SUFFICES ASSUME NEW q \in Procs, pc'[q] \in Closing
               PROVE  LET t == job'[q].target IN
                      /\ job'[q].at <= note'[t]
                      /\ job'[q].at = note'[t] /\ note'[t] > launched'[t] =>
                           /\ pc'[q] # "closeRow" /\ job'[q].cmd # "exit" =>
                                (row'[t].state = "open" => <<t, note'[t], "row">> \in missed')
                           /\ pc'[q] = "mark" =>
                                (shard'[t] # 0 => <<t, note'[t], "episodes">> \in missed')
    BY DEF OnTheWay
  <2>1. q # p /\ pc'[q] = pc[q] /\ job'[q] = job[q]
    BY DEF OfCommand, Closing
  <2>2. job[q].target \in Sessions
    BY <1>1, <2>1 DEF TypeOK, ProcsTyped, Closing
  <2> QED BY <1>4, <2>1, <2>2 DEF EndInv, OnTheWay, OfCommand, ends
<1>6. CaughtUp'
  BY <1>4 DEF EndInv, CaughtUp, OfCommand, ends
<1> QED BY <1>2, <1>3, <1>5, <1>6 DEF EndInv

\* A step that no hook takes.
LEMMA WorkKeepsEnds ==
  ASSUME IInv, EndInv, NEW p \in Procs,
         StartStep(p) \/ CompleteStep(p) \/ SweepStep(p) \/ Crash(p) \/ EndCatchUp(p)
  PROVE  EndInv'
<1>1. TypeOK /\ StepsMatch
  BY DEF IInv
<1>2. /\ pc \in [Procs -> PCs] /\ job \in [Procs -> Job] /\ shard \in [Sessions -> Stamps]
      /\ pc[p] # "idle"
      /\ ~Crash(p) => job[p].session \in Sessions /\ job[p].cmd # "exit" /\ alive[job[p].session]
  <2>1. pc[p] # "idle"
    BY DEF StartStep, WriteActive, CloseStale, OpenEpisode,
           CompleteStep, WriteDone, CloseOwn, CommitSticks, CommitFails, Reopen,
           SweepStep, MarkStale, EndSweep, EndReconcile, SweepShard, ExpireShard,
           Crash, EndCatchUp
  <2>2. job[p].cmd = "exit" => pc[p] \in {"note", "closeRow", "closeEpisodes"}
    BY <2>1 DEF EndInv, RunBy
  <2>3. ~Crash(p) => pc[p] \notin {"note", "closeRow", "closeEpisodes"}
    BY DEF StartStep, WriteActive, CloseStale, OpenEpisode,
           CompleteStep, WriteDone, CloseOwn, CommitSticks, CommitFails, Reopen,
           SweepStep, MarkStale, EndSweep, EndReconcile, SweepShard, ExpireShard, EndCatchUp
  <2>4. job[p].cmd # "exit" => alive[job[p].session]
    BY <2>1 DEF EndInv, RunBy
  <2> QED BY <1>1, <2>1, <2>2, <2>3, <2>4 DEF TypeOK, ProcsTyped, LedgersTyped
<1>3. OfCommand(p)
  <2>1. CASE StartStep(p)
    BY <1>2, <2>1 DEF StartStep, WriteActive, CloseStale, OpenEpisode, Write, Tick, Finish, GoTo,
         CloseEpisode, OfCommand, Closing, Job, Crash
  <2>2. CASE CompleteStep(p)
    BY <1>2, <2>2 DEF CompleteStep, WriteDone, CloseOwn, CommitSticks, CommitFails, Reopen, Write,
         Tick, Finish, GoTo, CloseEpisode, OfCommand, Closing, Job, Crash
  <2>3. CASE SweepStep(p)
    BY <1>2, <2>3 DEF SweepStep, MarkStale, EndSweep, EndReconcile, SweepShard, ExpireShard, Write,
         Tick, Finish, GoTo, CloseEpisode, OfCommand, Closing, Job, Crash
  <2>4. CASE Crash(p) \/ EndCatchUp(p)
    BY <1>2, <2>4 DEF Crash, EndCatchUp, Finish, GoTo, OfCommand
  <2> QED BY <2>1, <2>2, <2>3, <2>4
<1> QED BY <1>3, CommandsKeepEnds

LEMMA RequestsKeepEnds ==
  ASSUME IInv, EndInv, NEW p \in Procs, NEW s \in Sessions,
         \/ \E cmd \in {"start", "force"} : BeginStart(p, s, cmd)
         \/ BeginComplete(p, s) \/ BeginStale(p, s) \/ BeginReconcile(p, s) \/ Block(p, s)
  PROVE  EndInv'
<1>1. TypeOK /\ pc \in [Procs -> PCs] /\ job \in [Procs -> Job]
  BY DEF IInv, TypeOK, ProcsTyped
<1>2. CASE Block(p, s)
  <2>1. OfCommand(p)
    BY <1>1, <1>2 DEF Block, Write, Tick, OfCommand
  <2> QED BY <2>1, CommandsKeepEnds
<1>3. CASE ~Block(p, s)
  <2>1. /\ UNCHANGED <<item, shard, row, ends, now>> /\ alive[s]
        /\ \E cmd \in AllCommands, step \in {"starting", "completing", "marking", "expire"} :
           \E todo : /\ pc' = [pc EXCEPT ![p] = step]
                     /\ job' = [job EXCEPT ![p] = JobOf(cmd, s, NoSession, todo)]
    BY <1>3 DEF BeginStart, BeginComplete, BeginStale, BeginReconcile, Begin, Ready, GoTo,
         AllCommands
  <2>2. OfCommand(p)
    BY <1>1, <2>1 DEF OfCommand, Closing, JobOf, AllCommands
  <2> QED BY <2>2, CommandsKeepEnds
<1> QED BY <1>2, <1>3

\* The start hook adds its own session's row, which has no note younger than
\* its launch while the hook runs.
LEMMA OpenRowKeepsEnds ==
  ASSUME IInv, EndInv, NEW p \in Procs, OpenRow(p)
  PROVE  EndInv'
<1> DEFINE s == job[p].session
<1>1. /\ TypeOK /\ pc \in [Procs -> PCs] /\ row \in [Sessions -> Row] /\ s \in Sessions
      /\ pc[p] = "openRow" /\ job[p].cmd = "launch" /\ UNCHANGED <<item, shard, ends, job, now>>
  BY DEF IInv, TypeOK, ProcsTyped, LedgersTyped, StepsMatch, OpenRow
<1>2. alive[s] /\ note[s] <= launched[s]
  BY <1>1 DEF EndInv, RunBy, NotesPast
<1>3. /\ pc'[p] = "catchUp" /\ \A q \in Procs \ {p} : pc'[q] = pc[q]
      /\ \A t \in Sessions \ {s} : row'[t] = row[t]
      /\ row'[s] = row[s] \/ row'[s].start = launched[s]
  BY <1>1 DEF OpenRow, GoTo
<1>4. NotesPast'
  BY <1>1, <1>3, Times DEF EndInv, NotesPast, ends
<1>5. RunBy'
  BY <1>1, <1>3 DEF EndInv, RunBy, ends
<1>6. OnTheWay'
  <2> SUFFICES ASSUME NEW q \in Procs, pc'[q] \in Closing
               PROVE  LET t == job'[q].target IN
                      /\ job'[q].at <= note'[t]
                      /\ job'[q].at = note'[t] /\ note'[t] > launched'[t] =>
                           /\ pc'[q] # "closeRow" /\ job'[q].cmd # "exit" =>
                                (row'[t].state = "open" => <<t, note'[t], "row">> \in missed')
                           /\ pc'[q] = "mark" =>
                                (shard'[t] # 0 => <<t, note'[t], "episodes">> \in missed')
    BY DEF OnTheWay
  <2>1. q # p /\ pc'[q] = pc[q] /\ job[q].target \in Sessions
    BY <1>1, <1>3 DEF TypeOK, ProcsTyped, Closing
  <2>2. note[s] > launched[s] => FALSE
    BY <1>1, <1>2, Times
  <2> QED BY <1>1, <1>3, <2>1, <2>2 DEF EndInv, OnTheWay, ends
<1>7. CaughtUp'
  <2>1. note[s] > launched[s] => FALSE
    BY <1>1, <1>2, Times
  <2> QED BY <1>1, <1>3, <2>1 DEF EndInv, CaughtUp, ends
<1> QED BY <1>4, <1>5, <1>6, <1>7 DEF EndInv

\* A step of a hook that stays with its session's job, apart from what the job
\* works on, leaves every process run by its session.
LEMMA HookRunsOn ==
  ASSUME IInv, EndInv, NEW p \in Procs, pc[p] # "idle", UNCHANGED <<alive>>,
         \A q \in Procs \ {p} : pc'[q] = pc[q] /\ job'[q] = job[q],
         \/ pc'[p] = "idle"
         \/ /\ job'[p].session = job[p].session /\ job'[p].cmd = job[p].cmd
            /\ job[p].cmd = "exit" => pc'[p] \in {"note", "closeRow", "closeEpisodes"}
  PROVE  RunBy'
<1>1. ASSUME NEW r \in Procs, pc'[r] # "idle"
      PROVE  pc[r] # "idle" /\ job'[r].session = job[r].session /\ job'[r].cmd = job[r].cmd
  BY <1>1
<1> SUFFICES ASSUME NEW q \in Procs, pc'[q] # "idle"
             PROVE  IF job'[q].cmd = "exit"
                    THEN /\ pc'[q] \in {"note", "closeRow", "closeEpisodes"}
                         /\ ~alive'[job'[q].session]
                         /\ \A r \in Procs \ {q} :
                              pc'[r] # "idle" => job'[r].session # job'[q].session
                    ELSE alive'[job'[q].session]
  BY DEF RunBy
<1>2. CASE job[q].cmd = "exit"
  <2>1. /\ pc[q] \in {"note", "closeRow", "closeEpisodes"} /\ ~alive[job[q].session]
        /\ \A r \in Procs \ {q} : pc[r] # "idle" => job[r].session # job[q].session
    BY <1>1, <1>2 DEF EndInv, RunBy
  <2> QED BY <1>1, <1>2, <2>1
<1>3. CASE job[q].cmd # "exit"
  BY <1>1, <1>3 DEF EndInv, RunBy
<1> QED BY <1>2, <1>3

LEMMA ReadNoteKeepsEnds ==
  ASSUME IInv, EndInv, NEW p \in Procs, NEW t \in Sessions, ReadNote(p, t)
  PROVE  EndInv'
<1>1. /\ TypeOK /\ pc \in [Procs -> PCs] /\ job \in [Procs -> Job]
      /\ pc[p] = "catchUp" /\ job[p].cmd = "launch" /\ UNCHANGED <<item, shard, row, ends, now>>
  BY DEF IInv, TypeOK, ProcsTyped, StepsMatch, ReadNote
<1>2. /\ \A q \in Procs \ {p} : pc'[q] = pc[q] /\ job'[q] = job[q]
      /\ job'[p].session = job[p].session /\ job'[p].cmd = job[p].cmd
      /\ \/ pc'[p] = "catchUp"
         \/ pc'[p] = "closeRow" /\ job'[p].target = t /\ job'[p].at = note[t]
  <2>1. CASE note[t] # 0 /\ marker[t] # note[t]
    BY <1>1, <2>1 DEF ReadNote, GoTo, Job
  <2>2. CASE ~(note[t] # 0 /\ marker[t] # note[t])
    BY <1>1, <2>2 DEF ReadNote, GoTo, Job
  <2> QED BY <2>1, <2>2
<1>3. NotesPast' /\ CaughtUp'
  BY <1>1 DEF EndInv, NotesPast, CaughtUp, ends
<1>4. RunBy'
  BY <1>1, <1>2, HookRunsOn DEF ends
<1>5. OnTheWay'
  <2> SUFFICES ASSUME NEW q \in Procs, pc'[q] \in Closing
               PROVE  LET r == job'[q].target IN
                      /\ job'[q].at <= note'[r]
                      /\ job'[q].at = note'[r] /\ note'[r] > launched'[r] =>
                           /\ pc'[q] # "closeRow" /\ job'[q].cmd # "exit" =>
                                (row'[r].state = "open" => <<r, note'[r], "row">> \in missed')
                           /\ pc'[q] = "mark" =>
                                (shard'[r] # 0 => <<r, note'[r], "episodes">> \in missed')
    BY DEF OnTheWay
  <2>1. CASE q = p
    <3>1. pc'[p] = "closeRow" /\ job'[p].target = t /\ job'[p].at = note[t]
      BY <1>2, <2>1 DEF Closing
    <3> QED BY <1>1, <2>1, <3>1, Times DEF ends
  <2>2. CASE q # p
    BY <1>1, <1>2, <2>2 DEF EndInv, OnTheWay, ends
  <2> QED BY <2>1, <2>2
<1> QED BY <1>3, <1>4, <1>5 DEF EndInv

LEMMA MarkKeepsEnds ==
  ASSUME IInv, EndInv, NEW p \in Procs, Mark(p)
  PROVE  EndInv'
<1> DEFINE t == job[p].target
<1>1. /\ TypeOK /\ pc \in [Procs -> PCs] /\ job \in [Procs -> Job] /\ t \in Sessions
      /\ marker \in [Sessions -> Stamps]
      /\ pc[p] = "mark" /\ job[p].cmd = "launch"
      /\ UNCHANGED <<shard, row, note, alive, launched, missed, now>>
  BY DEF IInv, TypeOK, ProcsTyped, LedgersTyped, StepsMatch, Mark
<1>2. /\ \A q \in Procs \ {p} : pc'[q] = pc[q] /\ job'[q] = job[q]
      /\ pc'[p] = "catchUp" /\ job'[p].session = job[p].session /\ job'[p].cmd = job[p].cmd
      /\ marker'[t] = job[p].at /\ \A s \in Sessions \ {t} : marker'[s] = marker[s]
  BY <1>1 DEF Mark, GoTo, Job
<1>3. /\ job[p].at <= note[t]
      /\ job[p].at = note[t] /\ note[t] > launched[t] =>
           /\ row[t].state = "open" => <<t, note[t], "row">> \in missed
           /\ shard[t] # 0 => <<t, note[t], "episodes">> \in missed
  BY <1>1 DEF EndInv, OnTheWay, Closing
<1>4. NotesPast'
  BY <1>1, <1>2, <1>3 DEF EndInv, NotesPast
<1>5. RunBy'
  BY <1>1, <1>2, HookRunsOn
<1>6. OnTheWay'
  BY <1>1, <1>2 DEF EndInv, OnTheWay, Closing
<1>7. CaughtUp'
  BY <1>1, <1>2, <1>3 DEF EndInv, CaughtUp
<1> QED BY <1>4, <1>5, <1>6, <1>7 DEF EndInv

\* A new note has no marker yet, and what still works on an older one is late.
LEMMA RecordNoteKeepsEnds ==
  ASSUME IInv, EndInv, NEW p \in Procs, RecordNote(p)
  PROVE  EndInv'
<1> DEFINE s == job[p].session
<1>1. /\ TypeOK /\ pc \in [Procs -> PCs] /\ job \in [Procs -> Job] /\ s \in Sessions
      /\ note \in [Sessions -> Stamps] /\ now' = now + 1
      /\ pc[p] = "note" /\ job[p].cmd = "exit" /\ job[p].target = s
      /\ UNCHANGED <<shard, row, marker, alive, launched, missed>>
  BY DEF IInv, TypeOK, ProcsTyped, LedgersTyped, StepsMatch, RecordNote, Tick
<1>2. /\ \A q \in Procs \ {p} : pc'[q] = pc[q] /\ job'[q] = job[q]
      /\ pc'[p] = "closeRow" /\ job'[p].session = s /\ job'[p].cmd = "exit"
      /\ job'[p].target = s /\ job'[p].at = now + 1
      /\ note'[s] = now + 1 /\ \A r \in Sessions \ {s} : note'[r] = note[r]
  BY <1>1 DEF RecordNote, GoTo, Job
<1>3. ~alive[s] /\ marker[s] <= now /\ note[s] <= now
  BY <1>1, Times DEF EndInv, RunBy, NotesPast
<1>4. NotesPast'
  BY <1>1, <1>2, <1>3, Times DEF EndInv, NotesPast
<1>5. RunBy'
  BY <1>1, <1>2, HookRunsOn
<1>6. OnTheWay'
  <2> SUFFICES ASSUME NEW q \in Procs, pc'[q] \in Closing
               PROVE  LET t == job'[q].target IN
                      /\ job'[q].at <= note'[t]
                      /\ job'[q].at = note'[t] /\ note'[t] > launched'[t] =>
                           /\ pc'[q] # "closeRow" /\ job'[q].cmd # "exit" =>
                                (row'[t].state = "open" => <<t, note'[t], "row">> \in missed')
                           /\ pc'[q] = "mark" =>
                                (shard'[t] # 0 => <<t, note'[t], "episodes">> \in missed')
    BY DEF OnTheWay
  <2>1. CASE q = p
    BY <1>1, <1>2, <2>1, Times
  <2>2. CASE q # p
    <3>1. pc'[q] = pc[q] /\ job'[q] = job[q] /\ job[q].target \in Sessions
      BY <1>1, <1>2, <2>2 DEF TypeOK, ProcsTyped, Closing
    <3>2. CASE job[q].target = s
      <4>1. job[q].at <= note[s]
        BY <3>1, <3>2 DEF EndInv, OnTheWay
      <4>2. job[q].at <= now
        BY <1>1, <1>3, <4>1, Times
      <4> QED BY <1>1, <1>2, <3>1, <3>2, <4>2, Times
    <3>3. CASE job[q].target # s
      BY <1>1, <1>2, <3>1, <3>3 DEF EndInv, OnTheWay
    <3> QED BY <3>2, <3>3
  <2> QED BY <2>1, <2>2
<1>7. CaughtUp'
  BY <1>1, <1>2, <1>3, Times DEF EndInv, CaughtUp
<1> QED BY <1>4, <1>5, <1>6, <1>7 DEF EndInv

\* An end younger than the launch is no older than the row's run: it ends it.
LEMMA CloseRowKeepsEnds ==
  ASSUME IInv, EndInv, NEW p \in Procs, CloseRow(p)
  PROVE  EndInv'
<1> DEFINE t == job[p].target
<1>1. /\ TypeOK /\ pc \in [Procs -> PCs] /\ row \in [Sessions -> Row] /\ t \in Sessions
      /\ pc[p] = "closeRow" /\ UNCHANGED <<item, shard, ends, job, now>>
  BY DEF IInv, TypeOK, ProcsTyped, LedgersTyped, CloseRow
<1>2. /\ \A q \in Procs \ {p} : pc'[q] = pc[q] /\ job'[q] = job[q]
      /\ pc'[p] = "closeEpisodes" /\ job'[p] = job[p]
  BY <1>1 DEF CloseRow, GoTo
<1>3. \A s \in Sessions : /\ row'[s].start = row[s].start
                          /\ row[s].state # "open" => row'[s].state # "open"
  BY <1>1 DEF CloseRow, Row
<1>4. ASSUME job[p].at = note[t], note[t] > launched[t]
      PROVE  row'[t].state # "open"
  <2>1. ~(job[p].at < row[t].start)
    BY <1>1, <1>4, Times DEF EndInv, NotesPast
  <2> QED BY <1>1, <2>1 DEF CloseRow, Row
<1>5. NotesPast' /\ CaughtUp'
  BY <1>1, <1>3 DEF EndInv, NotesPast, CaughtUp, ends
<1>6. RunBy'
  BY <1>1, <1>2, HookRunsOn DEF ends
<1>7. OnTheWay'
  <2> SUFFICES ASSUME NEW q \in Procs, pc'[q] \in Closing
               PROVE  LET r == job'[q].target IN
                      /\ job'[q].at <= note'[r]
                      /\ job'[q].at = note'[r] /\ note'[r] > launched'[r] =>
                           /\ pc'[q] # "closeRow" /\ job'[q].cmd # "exit" =>
                                (row'[r].state = "open" => <<r, note'[r], "row">> \in missed')
                           /\ pc'[q] = "mark" =>
                                (shard'[r] # 0 => <<r, note'[r], "episodes">> \in missed')
    BY DEF OnTheWay
  <2>1. CASE q = p
    BY <1>1, <1>2, <1>4, <2>1 DEF EndInv, OnTheWay, Closing, ends
  <2>2. CASE q # p
    <3>1. pc'[q] = pc[q] /\ job'[q] = job[q] /\ job[q].target \in Sessions
      BY <1>1, <1>2, <2>2 DEF TypeOK, ProcsTyped, Closing
    <3> QED BY <1>1, <1>3, <3>1 DEF EndInv, OnTheWay, ends
  <2> QED BY <2>1, <2>2
<1> QED BY <1>5, <1>6, <1>7 DEF EndInv

\* A close that failed is remembered as such; what was closed stays closed.
LEMMA CloseRowFailsKeepsEnds ==
  ASSUME IInv, EndInv, NEW p \in Procs, CloseRowFails(p)
  PROVE  EndInv'
<1> DEFINE t == job[p].target
<1>1. /\ TypeOK /\ pc \in [Procs -> PCs] /\ t \in Sessions
      /\ pc[p] = "closeRow"
      /\ UNCHANGED <<shard, row, note, marker, alive, launched, job, now>>
  BY DEF IInv, TypeOK, ProcsTyped, CloseRowFails
<1>2. /\ \A q \in Procs \ {p} : pc'[q] = pc[q] /\ job'[q] = job[q]
      /\ pc'[p] = "closeEpisodes" /\ job'[p] = job[p]
  BY <1>1 DEF CloseRowFails, GoTo
<1>3. /\ missed \subseteq missed'
      /\ job[p].cmd # "exit" => <<t, job[p].at, "row">> \in missed'
  BY DEF CloseRowFails, Miss
<1>4. NotesPast' /\ CaughtUp'
  BY <1>1, <1>3 DEF EndInv, NotesPast, CaughtUp
<1>5. RunBy'
  BY <1>1, <1>2, HookRunsOn
<1>6. OnTheWay'
  <2> SUFFICES ASSUME NEW q \in Procs, pc'[q] \in Closing
               PROVE  LET r == job'[q].target IN
                      /\ job'[q].at <= note'[r]
                      /\ job'[q].at = note'[r] /\ note'[r] > launched'[r] =>
                           /\ pc'[q] # "closeRow" /\ job'[q].cmd # "exit" =>
                                (row'[r].state = "open" => <<r, note'[r], "row">> \in missed')
                           /\ pc'[q] = "mark" =>
                                (shard'[r] # 0 => <<r, note'[r], "episodes">> \in missed')
    BY DEF OnTheWay
  <2>1. CASE q = p
    BY <1>1, <1>2, <1>3, <2>1 DEF EndInv, OnTheWay, Closing
  <2>2. CASE q # p
    BY <1>1, <1>2, <1>3, <2>2 DEF EndInv, OnTheWay
  <2> QED BY <2>1, <2>2
<1> QED BY <1>4, <1>5, <1>6 DEF EndInv

LEMMA CloseEpisodesKeepsEnds ==
  ASSUME IInv, EndInv, NEW p \in Procs, CloseEpisodes(p)
  PROVE  EndInv'
<1> DEFINE t == job[p].target
<1>1. /\ TypeOK /\ pc \in [Procs -> PCs] /\ job \in [Procs -> Job] /\ t \in Sessions
      /\ shard \in [Sessions -> Stamps]
      /\ pc[p] = "closeEpisodes" /\ UNCHANGED <<item, row, ends, now>>
  BY DEF IInv, TypeOK, ProcsTyped, LedgersTyped, CloseEpisodes, EpisodesTried, ends
<1>2. /\ \A q \in Procs \ {p} : pc'[q] = pc[q] /\ job'[q] = job[q]
      /\ pc'[p] = "idle" \/ (pc'[p] = "mark" /\ job'[p] = job[p] /\ job[p].cmd # "exit")
      /\ shard'[t] = 0 /\ \A s \in Sessions \ {t} : shard'[s] = shard[s]
  <2>1. CASE job[p].cmd = "exit"
    BY <1>1, <2>1 DEF CloseEpisodes, EpisodesTried, CloseEpisode, Finish, GoTo
  <2>2. CASE job[p].cmd # "exit"
    BY <1>1, <2>2 DEF CloseEpisodes, EpisodesTried, CloseEpisode, GoTo
  <2> QED BY <2>1, <2>2
<1>3. NotesPast'
  BY <1>1 DEF EndInv, NotesPast, ends
<1>4. RunBy'
  BY <1>1, <1>2, HookRunsOn DEF ends
<1>5. OnTheWay'
  <2> SUFFICES ASSUME NEW q \in Procs, pc'[q] \in Closing
               PROVE  LET r == job'[q].target IN
                      /\ job'[q].at <= note'[r]
                      /\ job'[q].at = note'[r] /\ note'[r] > launched'[r] =>
                           /\ pc'[q] # "closeRow" /\ job'[q].cmd # "exit" =>
                                (row'[r].state = "open" => <<r, note'[r], "row">> \in missed')
                           /\ pc'[q] = "mark" =>
                                (shard'[r] # 0 => <<r, note'[r], "episodes">> \in missed')
    BY DEF OnTheWay
  <2>1. CASE q = p
    <3>1. pc'[p] = "mark" /\ job'[p] = job[p]
      BY <1>2, <2>1 DEF Closing
    <3> QED BY <1>1, <1>2, <2>1, <3>1 DEF EndInv, OnTheWay, Closing, ends
  <2>2. CASE q # p
    <3>1. pc'[q] = pc[q] /\ job'[q] = job[q] /\ job[q].target \in Sessions
      BY <1>1, <1>2, <2>2 DEF TypeOK, ProcsTyped, Closing
    <3> QED BY <1>1, <1>2, <3>1 DEF EndInv, OnTheWay, ends
  <2> QED BY <2>1, <2>2
<1>6. CaughtUp'
  BY <1>1, <1>2 DEF EndInv, CaughtUp, ends
<1> QED BY <1>3, <1>4, <1>5, <1>6 DEF EndInv

LEMMA CloseEpisodesFailKeepsEnds ==
  ASSUME IInv, EndInv, NEW p \in Procs, CloseEpisodesFail(p)
  PROVE  EndInv'
<1> DEFINE t == job[p].target
<1>1. /\ TypeOK /\ pc \in [Procs -> PCs] /\ job \in [Procs -> Job] /\ t \in Sessions
      /\ pc[p] = "closeEpisodes"
      /\ UNCHANGED <<shard, row, note, marker, alive, launched, now>>
  BY DEF IInv, TypeOK, ProcsTyped, CloseEpisodesFail, EpisodesTried
<1>2. /\ \A q \in Procs \ {p} : pc'[q] = pc[q] /\ job'[q] = job[q]
      /\ pc'[p] = "idle" \/ (pc'[p] = "mark" /\ job'[p] = job[p] /\ job[p].cmd # "exit")
  <2>1. CASE job[p].cmd = "exit"
    BY <1>1, <2>1 DEF CloseEpisodesFail, EpisodesTried, Finish, GoTo
  <2>2. CASE job[p].cmd # "exit"
    BY <1>1, <2>2 DEF CloseEpisodesFail, EpisodesTried, GoTo
  <2> QED BY <2>1, <2>2
<1>3. /\ missed \subseteq missed'
      /\ job[p].cmd # "exit" => <<t, job[p].at, "episodes">> \in missed'
  BY DEF CloseEpisodesFail, Miss
<1>4. NotesPast' /\ CaughtUp'
  BY <1>1, <1>3 DEF EndInv, NotesPast, CaughtUp
<1>5. RunBy'
  BY <1>1, <1>2, HookRunsOn
<1>6. OnTheWay'
  <2> SUFFICES ASSUME NEW q \in Procs, pc'[q] \in Closing
               PROVE  LET r == job'[q].target IN
                      /\ job'[q].at <= note'[r]
                      /\ job'[q].at = note'[r] /\ note'[r] > launched'[r] =>
                           /\ pc'[q] # "closeRow" /\ job'[q].cmd # "exit" =>
                                (row'[r].state = "open" => <<r, note'[r], "row">> \in missed')
                           /\ pc'[q] = "mark" =>
                                (shard'[r] # 0 => <<r, note'[r], "episodes">> \in missed')
    BY DEF OnTheWay
  <2>1. CASE q = p
    <3>1. pc'[p] = "mark" /\ job'[p] = job[p] /\ job[p].cmd # "exit"
      BY <1>2, <2>1 DEF Closing
    <3> QED BY <1>1, <1>3, <2>1, <3>1 DEF EndInv, OnTheWay, Closing
  <2>2. CASE q # p
    BY <1>1, <1>2, <1>3, <2>2 DEF EndInv, OnTheWay
  <2> QED BY <2>1, <2>2
<1> QED BY <1>4, <1>5, <1>6 DEF EndInv

\* A launch is younger than every note, so it asks nothing of the session.
LEMMA LaunchKeepsEnds ==
  ASSUME IInv, EndInv, NEW p \in Procs, NEW s \in Sessions, Launch(p, s)
  PROVE  EndInv'
<1>1. /\ TypeOK /\ pc \in [Procs -> PCs] /\ job \in [Procs -> Job] /\ now' = now + 1
      /\ alive \in [Sessions -> BOOLEAN] /\ launched \in [Sessions -> Stamps]
      /\ \A q \in Procs : pc[q] # "idle" => job[q].session # s
      /\ UNCHANGED <<item, shard, row, note, marker, missed>>
  BY DEF IInv, TypeOK, ProcsTyped, LedgersTyped, Launch, Busy, Tick
<1>2. /\ \A q \in Procs \ {p} : pc'[q] = pc[q] /\ job'[q] = job[q]
      /\ pc'[p] = "openRow" /\ job'[p].session = s /\ job'[p].cmd = "launch"
      /\ launched'[s] = now + 1 /\ alive'[s]
      /\ \A r \in Sessions \ {s} : launched'[r] = launched[r] /\ alive'[r] = alive[r]
  BY <1>1 DEF Launch, GoTo, JobOf
<1>3. note[s] <= now /\ launched[s] <= now /\ ~(note[s] > now + 1)
  BY <1>1, Times DEF EndInv, NotesPast
<1>4. NotesPast'
  BY <1>1, <1>2, <1>3, Times DEF EndInv, NotesPast
<1>5. RunBy'
  <2>1. \A q \in Procs \ {p} : pc[q] # "idle" => job[q].session \in Sessions \ {s}
    BY <1>1 DEF TypeOK, ProcsTyped
  <2> QED BY <1>2, <2>1 DEF EndInv, RunBy
<1>6. OnTheWay'
  <2> SUFFICES ASSUME NEW q \in Procs, pc'[q] \in Closing
               PROVE  LET t == job'[q].target IN
                      /\ job'[q].at <= note'[t]
                      /\ job'[q].at = note'[t] /\ note'[t] > launched'[t] =>
                           /\ pc'[q] # "closeRow" /\ job'[q].cmd # "exit" =>
                                (row'[t].state = "open" => <<t, note'[t], "row">> \in missed')
                           /\ pc'[q] = "mark" =>
                                (shard'[t] # 0 => <<t, note'[t], "episodes">> \in missed')
    BY DEF OnTheWay
  <2>1. q # p /\ pc'[q] = pc[q] /\ job'[q] = job[q] /\ job[q].target \in Sessions
    BY <1>1, <1>2 DEF TypeOK, ProcsTyped, Closing
  <2> QED BY <1>1, <1>2, <1>3, <2>1 DEF EndInv, OnTheWay
<1>7. CaughtUp'
  BY <1>1, <1>2, <1>3 DEF EndInv, CaughtUp
<1> QED BY <1>4, <1>5, <1>6, <1>7 DEF EndInv

LEMMA ExitKeepsEnds ==
  ASSUME IInv, EndInv, NEW p \in Procs, NEW s \in Sessions, Exit(p, s)
  PROVE  EndInv'
<1>1. /\ TypeOK /\ pc \in [Procs -> PCs] /\ job \in [Procs -> Job]
      /\ alive \in [Sessions -> BOOLEAN]
      /\ \A q \in Procs : pc[q] # "idle" => job[q].session # s
      /\ UNCHANGED <<item, shard, row, note, marker, launched, missed, now>>
  BY DEF IInv, TypeOK, ProcsTyped, LedgersTyped, Exit, Busy
<1>2. /\ \A q \in Procs \ {p} : pc'[q] = pc[q] /\ job'[q] = job[q]
      /\ pc'[p] = "note" /\ job'[p].session = s /\ job'[p].cmd = "exit"
      /\ ~alive'[s] /\ \A r \in Sessions \ {s} : alive'[r] = alive[r]
  BY <1>1 DEF Exit, GoTo, JobOf
<1>3. NotesPast'
  BY <1>1, <1>2 DEF EndInv, NotesPast
<1>4. RunBy'
  <2>1. \A q \in Procs \ {p} : pc[q] # "idle" => job[q].session \in Sessions \ {s}
    BY <1>1 DEF TypeOK, ProcsTyped
  <2> QED BY <1>2, <2>1 DEF EndInv, RunBy
<1>5. OnTheWay' /\ CaughtUp'
  BY <1>1, <1>2 DEF EndInv, OnTheWay, CaughtUp, Closing
<1> QED BY <1>3, <1>4, <1>5 DEF EndInv

LEMMA KillKeepsEnds ==
  ASSUME IInv, EndInv, NEW s \in Sessions, Kill(s)
  PROVE  EndInv'
<1> DEFINE its == {p \in Procs : pc[p] # "idle" /\ job[p].session = s}
<1>1. /\ TypeOK /\ alive \in [Sessions -> BOOLEAN]
      /\ UNCHANGED <<shard, row, note, marker, launched, missed, now>>
  BY DEF IInv, TypeOK, LedgersTyped, Kill
<1>2. /\ ~alive'[s] /\ \A r \in Sessions \ {s} : alive'[r] = alive[r]
      /\ \A q \in Procs : q \in its => pc'[q] = "idle"
      /\ \A q \in Procs : q \notin its => pc'[q] = pc[q] /\ job'[q] = job[q]
  BY <1>1 DEF Kill
<1>3. NotesPast'
  BY <1>1, <1>2 DEF EndInv, NotesPast
<1>4. ASSUME NEW q \in Procs, pc'[q] # "idle"
      PROVE  /\ pc'[q] = pc[q] /\ job'[q] = job[q] /\ job[q].session \in Sessions \ {s}
  BY <1>1, <1>2, <1>4 DEF TypeOK, ProcsTyped
<1>5. RunBy'
  BY <1>2, <1>4 DEF EndInv, RunBy
<1>6. OnTheWay' /\ CaughtUp'
  BY <1>1, <1>4 DEF EndInv, OnTheWay, CaughtUp, Closing
<1> QED BY <1>3, <1>5, <1>6 DEF EndInv

LEMMA StepKeepsEnds == IInv /\ EndInv /\ [Next]_vars => EndInv'
<1> SUFFICES ASSUME IInv, EndInv, [Next]_vars PROVE EndInv'
  OBVIOUS
<1>1. ASSUME NEW p \in Procs, HookStep(p) PROVE EndInv'
  BY <1>1, OpenRowKeepsEnds, WorkKeepsEnds, MarkKeepsEnds, RecordNoteKeepsEnds,
     CloseRowKeepsEnds, CloseRowFailsKeepsEnds, CloseEpisodesKeepsEnds,
     CloseEpisodesFailKeepsEnds, ReadNoteKeepsEnds DEF HookStep
<1>2. ASSUME NEW p \in Procs, NEW s \in Sessions, Request(p, s) PROVE EndInv'
  BY <1>2, RequestsKeepEnds, LaunchKeepsEnds, ExitKeepsEnds DEF Request
<1>3. CASE UNCHANGED vars
  BY <1>3 DEF vars, item, ends, EndInv, NotesPast, RunBy, OnTheWay, CaughtUp
<1> QED BY <1>1, <1>2, <1>3, WorkKeepsEnds, KillKeepsEnds DEF Next

\* Once a session has an end note and a marker for it, its row is not open and
\* it holds no episode, until it is launched again, but for what a catch-up of
\* that end failed to write: the marker comes last, a failure or a cancelled end
\* hook is made good by the catch-up, and nothing of an older end or of another
\* session's start undoes the work.
THEOREM EndsStayCaughtUp == Spec => []CaughtUp
<1>1. Init => EndInv
  BY ClaimConstants DEF Init, EndInv, NotesPast, RunBy, OnTheWay, CaughtUp, Closing
<1>2. EndInv => CaughtUp
  BY DEF EndInv
<1> QED BY <1>1, <1>2, ClaimsConsistent, StepKeepsEnds, PTL DEF Spec

=============================================================================

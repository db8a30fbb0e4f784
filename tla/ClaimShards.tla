---------------------------- MODULE ClaimShards ----------------------------
(***************************************************************************)
(* The claim shard of one root session as a file: the guard around it, the *)
(* append that opens an episode, the rewrite that ends one, the fold of a  *)
(* container worker's own shard, and the archive that moves a finished     *)
(* shard away while taking no guard on it (core/claimledger, core/filelock,*)
(* core/htmlledger).                                                       *)
(*                                                                         *)
(* An episode is an element of Episodes on the item Item[e]; a row is open *)
(* or ended.  The end of the file is "clean" (the footer), "bare" (cut at  *)
(* the end of a row), "torn" (half a row that no reader takes for one) or  *)
(* an episode: half a row whose opening tag is whole, which a reader takes *)
(* for an open row.                                                        *)
(*                                                                         *)
(* The lock is held on an inode: `sidecar' counts the sidecar files the    *)
(* archive has unlinked, and a process waits only for holders of the one   *)
(* it opened.                                                              *)
(***************************************************************************)
EXTENDS Integers, FiniteSets

CONSTANTS Writers,      \* processes of the session and of the host
          Archivers,    \* runs of `wipnote claims archive`
          Workers,      \* episodes a container worker opens in its own shard
          Sessions,     \* episodes the session opens
          Item,         \* the work item of each episode
          MaxArchives,  \* bound: sidecars unlinked
          MaxFaults     \* bound: deaths and failed writes

Episodes == Workers \cup Sessions
Items == {Item[e] : e \in Episodes}

ASSUME ShardAssumption ==
  /\ Workers \cap Sessions = {}
  /\ Writers \cap Archivers = {}
  /\ {"absent", "clean", "bare", "torn"} \cap Episodes = {}
  /\ MaxArchives \in Nat /\ MaxFaults \in Nat

VARIABLES shard,     \* the file: its open and ended rows and its end
          archive,   \* the ended episodes in the archive ledger
          own,       \* the container worker's own shard
          live,      \* the root session is running
          sidecar,   \* the inode of the lock file
          pc, job,   \* what each process is doing
          inode,     \* the lock file each writer opened
          seen,      \* what each process read
          linked,    \* the file a writer appends to is still the shard
          used,      \* episode ids drawn
          crossed,   \* history: writers whose critical section was not theirs alone
          told,      \* history: what a caller was last told of each episode
          faults

files == <<shard, archive, own>>
local == <<pc, job, inode, seen, linked, crossed>>
vars == <<shard, archive, own, live, sidecar, pc, job, inode, seen, linked,
          used, crossed, told, faults>>

Rows == [open : SUBSET Episodes, ended : SUBSET Episodes]
NoRows == [open |-> {}, ended |-> {}]
Absent == [open |-> {}, ended |-> {}, tail |-> "absent"]
Ends == {"absent", "clean", "bare", "torn"} \cup Episodes
Jobs == {<<"open", w>> : w \in Items} \cup {<<"end", w>> : w \in Items}
        \cup {<<"expire", "all">>, <<"fold", "all">>}

TypeOK ==
  /\ shard \in [open : SUBSET Episodes, ended : SUBSET Episodes, tail : Ends]
  /\ archive \subseteq Episodes
  /\ own \in Rows
  /\ live \in BOOLEAN /\ sidecar \in Nat
  /\ pc \in [Writers \cup Archivers ->
               {"idle", "waiting", "append", "write", "rewrite", "merge", "remove", "unlock"}]
  /\ job \in [Writers -> Jobs \cup {<<"none", "all">>}]
  /\ inode \in [Writers -> Nat]
  /\ seen \in [Writers \cup Archivers -> Rows]
  /\ linked \in [Writers -> BOOLEAN]
  /\ used \subseteq Episodes /\ crossed \subseteq Writers
  /\ told \in [Episodes -> {"none", "open", "ended"}]
  /\ faults \in Nat

Init ==
  /\ shard = Absent /\ archive = {} /\ own = NoRows
  /\ live = TRUE /\ sidecar = 0
  /\ pc = [p \in Writers \cup Archivers |-> "idle"]
  /\ job = [p \in Writers |-> <<"none", "all">>]
  /\ inode = [p \in Writers |-> 0]
  /\ seen = [p \in Writers \cup Archivers |-> NoRows]
  /\ linked = [p \in Writers |-> FALSE]
  /\ used = {} /\ crossed = {} /\ told = [e \in Episodes |-> "none"]
  /\ faults = 0

-----------------------------------------------------------------------------
(* Reading, writing and the guard.                                         *)

Whole(rows) == [open |-> rows.open, ended |-> rows.ended, tail |-> "clean"]

\* ReadFile: a half row with its opening tag reads as an open row.
Read(f) == [open |-> f.open \cup ({f.tail} \cap Episodes), ended |-> f.ended]

\* Mutant: the append starts after whatever the file ends with.
AppendsAtEnd(f) == f

\* appendOffset: the append starts at the footer, or after the last whole row;
\* a half row is cut off.
AppendsTo(f) == [f EXCEPT !.tail = "bare"]

Inside == {p \in Writers : pc[p] \in {"append", "write", "rewrite"}}
Archiving == {a \in Archivers : pc[a] \in {"merge", "remove"}}

\* The file under the shard's name becomes another one, or none.
Replaced(f) == shard' = f /\ linked' = [p \in Writers |-> FALSE]

\* Mutant: every guard opens its own lock file.
HeldByNobody(p) == TRUE

\* Guard: flock on the sidecar this process opened.
Held(p) == \A q \in Inside : inode[q] # inode[p]

\* The others a critical section overlaps that begins now.
Strangers(p) == {q \in Inside : inode[q] # inode[p]}
Alone(p) == Strangers(p) = {} /\ Archiving = {}
Cross(p) ==
  crossed' = IF Alone(p) THEN crossed \ {p}
             ELSE crossed \cup {p} \cup Strangers(p)

\* What a call reports of the episodes it wrote; a section that was not its
\* process's alone is no ground for either.
Tell(p, es, state) ==
  told' = [e \in Episodes |-> IF e \notin es THEN told[e]
                              ELSE IF p \in crossed THEN "none" ELSE state]

\* The call returns: its lock, its file and what it read are gone.
Leave(p) ==
  /\ pc' = [pc EXCEPT ![p] = "idle"] /\ job' = [job EXCEPT ![p] = <<"none", "all">>]
  /\ inode' = [inode EXCEPT ![p] = 0] /\ seen' = [seen EXCEPT ![p] = NoRows]
  /\ crossed' = crossed \ {p}
Unlink(p) == linked' = [linked EXCEPT ![p] = FALSE]

-----------------------------------------------------------------------------
(* The session and the container worker around the shard.                  *)

\* The session ends, or is resumed.
Live ==
  /\ live' = ~live
  /\ UNCHANGED <<shard, archive, own, sidecar, pc, job, inode, seen, linked, used, crossed, told, faults>>

\* openRowLocked in a container: the worker's own shard is rewritten by rename,
\* with no guard but its own.
WorkerOpens ==
  /\ \E e \in Workers \ used :
       /\ \A o \in own.open : Item[o] # Item[e]
       /\ own' = [own EXCEPT !.open = @ \cup {e}]
       /\ used' = used \cup {e}
  /\ UNCHANGED <<shard, archive, live, sidecar, pc, job, inode, seen, linked, crossed, told, faults>>

WorkerEnds ==
  /\ \E e \in own.open :
       own' = [open |-> own.open \ {e}, ended |-> own.ended \cup {e}]
  /\ UNCHANGED <<shard, archive, live, sidecar, pc, job, inode, seen, linked, used, crossed, told, faults>>

-----------------------------------------------------------------------------
(* A writer: Open, Close and CloseWorkItem, CloseAllForSession, and the    *)
(* fold of the worker's own shard.                                         *)

\* Only a running session opens; only a dead one is expired; one fold at a time
\* (the fold lock) works from what it reads of the worker's file.
Start(p, j) ==
  /\ pc[p] = "idle"
  /\ j[1] = "open" => live
  /\ j[1] = "expire" => ~live
  /\ j[1] = "fold" => /\ \A q \in Writers : job[q][1] # "fold"
                      /\ own # NoRows
  /\ pc' = [pc EXCEPT ![p] = "waiting"] /\ job' = [job EXCEPT ![p] = j]
  /\ inode' = [inode EXCEPT ![p] = sidecar]
  /\ seen' = [seen EXCEPT ![p] = IF j[1] = "fold" THEN own ELSE NoRows]
  /\ UNCHANGED <<files, live, sidecar, linked, used, crossed, told, faults>>

Open(rows, w) == {e \in rows.open \cap Sessions : Item[e] = w}

\* Mutant: a renewal is an episode of its own.
RenewsNever(rows, w) == FALSE

\* findOpen: the claim is held already.
Renews(rows, w) == Open(rows, w) # {}

\* Ended by the job: Close and CloseWorkItem end an item's, the expiry all.
EndedBy(j, rows) ==
  IF j[1] = "expire" THEN rows.open ELSE {e \in rows.open : Item[e] = j[2]}

\* Mutant: the worker's copy wins.
MergeOverwrites(have, mine) ==
  LET all == have.open \cup have.ended \cup mine.open \cup mine.ended
      open == mine.open \cup (have.open \ mine.ended)
  IN [open |-> open, ended |-> all \ open]

\* mergeEpisodes: what the shard lacks is added, an end the worker recorded on
\* an episode still open is set, what the shard has ended stays ended.
Merge(have, mine) ==
  LET ended == have.ended \cup mine.ended
  IN [open |-> (have.open \cup mine.open) \ ended, ended |-> ended]

\* What the job makes of the rows.
Result(j, rows, mine) ==
  IF j[1] = "fold" THEN Merge(rows, mine)
  ELSE LET es == EndedBy(j, rows)
       IN [open |-> rows.open \ es, ended |-> rows.ended \cup es]

(* The lock is had and the shard is read: a renewal and a job with nothing *)
(* to change write nothing.                                                *)
Enter(p) ==
  LET rows == Read(shard) j == job[p] IN
  /\ pc[p] = "waiting" /\ Held(p)
  /\ IF j[1] = "open"
     THEN IF Renews(rows, j[2])
          THEN /\ Leave(p)
               /\ told' = [e \in Episodes |-> IF Open(shard, j[2]) = {e} /\ Alone(p)
                                              THEN "open" ELSE told[e]]
          ELSE /\ pc' = [pc EXCEPT ![p] = "append"] /\ Cross(p)
               /\ UNCHANGED <<job, inode, seen, told>>
     ELSE IF Result(j, rows, seen[p]) = rows
          THEN Leave(p) /\ UNCHANGED told
          ELSE /\ pc' = [pc EXCEPT ![p] = "rewrite"] /\ Cross(p)
               /\ seen' = [seen EXCEPT ![p] = Result(j, rows, @)]
               /\ UNCHANGED <<job, inode, told>>
  /\ UNCHANGED <<files, live, sidecar, linked, used, faults>>

(* AppendRow opens or creates the file and truncates it.                   *)
Truncate(p) ==
  LET f == AppendsTo(shard) IN
  /\ pc[p] = "append"
  /\ shard' = f
  /\ seen' = [seen EXCEPT ![p] = [open |-> f.open, ended |-> f.ended]]
  /\ linked' = [linked EXCEPT ![p] = TRUE]
  /\ pc' = [pc EXCEPT ![p] = "write"]
  /\ UNCHANGED <<archive, own, live, sidecar, job, inode, used, crossed, told, faults>>

\* A row written behind half a row is part of it.
Row(p, e) ==
  IF ~linked[p] THEN shard
  ELSE IF shard.tail \in {"torn"} \cup Episodes THEN [shard EXCEPT !.tail = "torn"]
  ELSE [open |-> seen[p].open \cup {e}, ended |-> seen[p].ended, tail |-> "clean"]

(* The row and the footer are written and synced.                          *)
Write(p) ==
  /\ pc[p] = "write"
  /\ \E e \in Sessions \ used :
       /\ Item[e] = job[p][2] /\ used' = used \cup {e}
       /\ shard' = Row(p, e)
       /\ Tell(p, {e}, "open")
  /\ Leave(p) /\ Unlink(p)
  /\ UNCHANGED <<archive, own, live, sidecar, faults>>

(* The write is cut short, by a full disk or the death of the process:     *)
(* before the footer, within the row, within its opening tag.              *)
WriteShort(p) ==
  /\ pc[p] = "write" /\ faults < MaxFaults /\ faults' = faults + 1
  /\ \E e \in Sessions \ used :
       /\ Item[e] = job[p][2] /\ used' = used \cup {e}
       /\ IF ~linked[p] THEN UNCHANGED shard
          ELSE \/ shard' = [Row(p, e) EXCEPT !.tail = "bare"]
               \/ \E t \in {"torn", e} :
                    shard' = [open |-> seen[p].open, ended |-> seen[p].ended, tail |-> t]
  /\ Leave(p) /\ Unlink(p)
  /\ UNCHANGED <<archive, own, live, sidecar, told>>

(* WriteAll: a temporary file is renamed over the shard.                   *)
Rewrite(p) ==
  /\ pc[p] = "rewrite"
  /\ Replaced(Whole(seen[p]))
  /\ told' = [e \in Episodes |->
                IF e \in seen[p].ended THEN IF p \in crossed THEN "none" ELSE "ended"
                ELSE IF e \in seen[p].open /\ p \in crossed THEN "none"
                ELSE IF e \in seen[p].open \cap Workers /\ told[e] = "none" THEN "open"
                ELSE told[e]]
  /\ Leave(p)
  /\ UNCHANGED <<archive, own, live, sidecar, used, faults>>

(* A writer dies, or gives up with an error, before its write: the kernel  *)
(* drops its lock.                                                         *)
Die(p) ==
  /\ pc[p] # "idle" /\ faults < MaxFaults /\ faults' = faults + 1
  /\ Leave(p) /\ Unlink(p)
  /\ UNCHANGED <<files, live, sidecar, used, told>>

-----------------------------------------------------------------------------
(* `wipnote claims archive`.                                               *)

\* A shard whose session is dead, with rows and every row ended (and old).
Finished == ~live /\ Read(shard).open = {} /\ shard.ended # {}

\* CollectArchiveCandidates reads the shard without its guard.
Collect(a) ==
  /\ pc[a] = "idle" /\ Finished
  /\ sidecar + Cardinality({b \in Archivers : pc[b] # "idle"}) < MaxArchives
  /\ pc' = [pc EXCEPT ![a] = "merge"]
  /\ seen' = [seen EXCEPT ![a] = Read(shard)]
  /\ crossed' = crossed \cup Inside
  /\ UNCHANGED <<files, live, sidecar, job, inode, linked, used, told, faults>>

\* Mutant: the archive is rewritten with the candidates alone.
MergeReplaces(a) ==
  /\ pc[a] = "merge"
  /\ archive' = seen[a].ended
  /\ pc' = [pc EXCEPT ![a] = "remove"]
  /\ UNCHANGED <<shard, own, live, sidecar, job, inode, seen, linked, used, crossed, told, faults>>

(* mergeIntoArchive: the archive's rows and the candidates', by id, in one *)
(* rename under the archive's own guard.                                   *)
MergeIntoArchive(a) ==
  /\ pc[a] = "merge"
  /\ archive' = archive \cup seen[a].ended
  /\ pc' = [pc EXCEPT ![a] = "remove"]
  /\ UNCHANGED <<shard, own, live, sidecar, job, inode, seen, linked, used, crossed, told, faults>>

(* The shard goes ...                                                      *)
RemoveShard(a) ==
  /\ pc[a] = "remove"
  /\ Replaced(Absent)
  /\ pc' = [pc EXCEPT ![a] = "unlock"]
  /\ UNCHANGED <<archive, own, live, sidecar, job, inode, seen, used, crossed, told, faults>>

(* ... and its lock file with it, whoever holds or awaits it.              *)
RemoveSidecar(a) ==
  /\ pc[a] = "unlock"
  /\ sidecar' = sidecar + 1
  /\ pc' = [pc EXCEPT ![a] = "idle"] /\ seen' = [seen EXCEPT ![a] = NoRows]
  /\ UNCHANGED <<files, live, job, inode, linked, used, crossed, told, faults>>

DieArchiving(a) ==
  /\ pc[a] # "idle" /\ faults < MaxFaults /\ faults' = faults + 1
  /\ pc' = [pc EXCEPT ![a] = "idle"] /\ seen' = [seen EXCEPT ![a] = NoRows]
  /\ UNCHANGED <<files, live, sidecar, job, inode, linked, used, crossed, told>>

-----------------------------------------------------------------------------
Next ==
  \/ Live \/ WorkerOpens \/ WorkerEnds
  \/ \E p \in Writers :
       \/ \E j \in Jobs : Start(p, j)
       \/ Enter(p) \/ Truncate(p) \/ Write(p) \/ WriteShort(p) \/ Rewrite(p) \/ Die(p)
  \/ \E a \in Archivers :
       \/ Collect(a) \/ MergeIntoArchive(a) \/ RemoveShard(a) \/ RemoveSidecar(a)
       \/ DieArchiving(a)

Spec == Init /\ [][Next]_vars

-----------------------------------------------------------------------------
(* An episode a caller was told of stays on record, in the shard or in the *)
(* archive: through torn writes and their repair, concurrent rewrites,     *)
(* folds, and an archive that dies anywhere.  (Callers whose critical      *)
(* section was not theirs alone, because an archive was moving the shard   *)
(* or had unlinked the lock file they held, are told nothing to rely on.)  *)
EpisodesKept ==
  \A e \in Episodes :
    told[e] # "none" => e \in shard.open \cup shard.ended \cup archive

(* An end on record stays: no rewrite, fold or repair reads the episode as *)
(* open again (but for a worker's episode that was archived while its own  *)
(* file had it open: a later fold adds that one anew).                     *)
EndsKept ==
  \A e \in Episodes :
    told[e] = "ended" /\ e \notin archive \cap Workers => e \notin Read(shard).open

(* At most one of the session's claims on an item is open at a time by     *)
(* what its callers were told, and none while its row is ended.            *)
OneOpen ==
  \A e, f \in Sessions :
    told[e] = "open" /\ told[f] = "open" /\ Item[e] = Item[f] => e = f

(* The lock, the rows and the record are consistent.                       *)
ShardSound == TypeOK /\ OneOpen
=============================================================================

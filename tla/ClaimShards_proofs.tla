------------------------- MODULE ClaimShards_proofs -------------------------
(***************************************************************************)
(* Proofs about ClaimShards for any number of writers, archivers, episodes *)
(* and faults: what a caller was told of an episode stays on record.       *)
(***************************************************************************)
EXTENDS ClaimShards, TLAPS

Processes == Writers \cup Archivers
Told == {e \in Episodes : told[e] # "none"}
On(rows) == rows.open \cup rows.ended

\* Two writers are inside at a time only when an archive unlinked the lock file
\* of one of them; both know no better than to go on, and neither is alone.  A
\* writer is not alone either while an archive moves the shard.
OneInside == \A p, q \in Inside : p # q => inode[p] # inode[q] /\ p \in crossed
NoneArchived == Archiving # {} => Inside \subseteq crossed

\* A writer that was alone appends to the file it found and cut.
AloneAppends ==
  \A p \in Writers : pc[p] = "write" /\ p \notin crossed =>
    linked[p] /\ shard = [open |-> seen[p].open, ended |-> seen[p].ended, tail |-> "bare"]

\* What a writer is about to make of the shard, and what an archive is about to
\* leave of it, has every episode some caller was told of.
WriterHasAll ==
  \A p \in Writers :
    /\ pc[p] \in {"write", "rewrite"} => Told \subseteq On(seen[p]) \cup archive
    /\ pc[p] = "idle" => p \notin crossed
ArchiverHasAll ==
  \A a \in Archiving :
    /\ Told \subseteq seen[a].ended \cup archive
    /\ pc[a] = "remove" => seen[a].ended \subseteq archive

KeptInv == /\ TypeOK /\ EpisodesKept /\ OneInside /\ NoneArchived /\ AloneAppends
           /\ WriterHasAll /\ ArchiverHasAll

-----------------------------------------------------------------------------
LEMMA InitHolds == Init => KeptInv
<1> SUFFICES ASSUME Init PROVE KeptInv
  OBVIOUS
<1>1. TypeOK
  BY DEF Init, TypeOK, Absent, NoRows, Rows, Ends, Jobs
<1>2. \A p \in Processes : pc[p] = "idle"
  BY DEF Init, Processes
<1>3. Inside = {} /\ Archiving = {}
  BY <1>2 DEF Inside, Archiving, Processes
<1>4. EpisodesKept
  BY DEF Init, EpisodesKept
<1>5. AloneAppends /\ WriterHasAll
  BY <1>2 DEF Init, AloneAppends, WriterHasAll, Processes
<1> QED BY <1>1, <1>3, <1>4, <1>5 DEF KeptInv, OneInside, NoneArchived, ArchiverHasAll

\* Rows keep their type through every rewrite.
LEMMA ReadRows ==
  ASSUME TypeOK PROVE Read(shard) \in Rows /\ On(shard) \subseteq On(Read(shard))
BY DEF TypeOK, Read, Rows, On

LEMMA ResultRows ==
  ASSUME NEW j, NEW rows \in Rows, NEW mine \in Rows
  PROVE  Result(j, rows, mine) \in Rows /\ On(rows) \subseteq On(Result(j, rows, mine))
<1>1. Merge(rows, mine) \in Rows /\ On(rows) \subseteq On(Merge(rows, mine))
  BY DEF Merge, Rows, On
<1>2. EndedBy(j, rows) \subseteq rows.open
  BY DEF EndedBy
<1>3. ASSUME NEW es \in SUBSET rows.open
      PROVE  LET r == [open |-> rows.open \ es, ended |-> rows.ended \cup es]
             IN r \in Rows /\ On(rows) \subseteq On(r)
  BY DEF Rows, On
<1> QED BY <1>1, <1>2, <1>3 DEF Result

LEMMA WholeRows ==
  ASSUME NEW rows \in Rows
  PROVE  /\ Whole(rows) \in [open : SUBSET Episodes, ended : SUBSET Episodes, tail : Ends]
         /\ On(Whole(rows)) = On(rows)
BY DEF Whole, Rows, On, Ends

LEMMA RowTyped ==
  ASSUME TypeOK, NEW p \in Writers, NEW e \in Episodes
  PROVE  Row(p, e) \in [open : SUBSET Episodes, ended : SUBSET Episodes, tail : Ends]
<1>1. seen[p] \in Rows
  BY DEF TypeOK
<1>2. [open |-> seen[p].open \cup {e}, ended |-> seen[p].ended, tail |-> "clean"]
        \in [open : SUBSET Episodes, ended : SUBSET Episodes, tail : Ends]
  BY <1>1 DEF Rows, Ends
<1>3. [shard EXCEPT !.tail = "torn"]
        \in [open : SUBSET Episodes, ended : SUBSET Episodes, tail : Ends]
  BY DEF TypeOK, Ends
<1> QED BY <1>2, <1>3 DEF Row, TypeOK

\* A call that returns leaves nothing of the wrong type behind.
LEMMA LeaveTyped ==
  ASSUME TypeOK, NEW p \in Writers, Leave(p)
  PROVE  /\ pc' \in [Processes -> {"idle", "waiting", "append", "write", "rewrite", "merge",
                                    "remove", "unlock"}]
         /\ job' \in [Writers -> Jobs \cup {<<"none", "all">>}]
         /\ inode' \in [Writers -> Nat] /\ seen' \in [Processes -> Rows]
         /\ crossed' \subseteq Writers
BY DEF TypeOK, Leave, Processes, NoRows, Rows

LEMMA TellTyped ==
  ASSUME TypeOK, NEW p, NEW es, NEW state \in {"open", "ended"}, Tell(p, es, state)
  PROVE  told' \in [Episodes -> {"none", "open", "ended"}]
BY DEF TypeOK, Tell

LEMMA TypeKept ==
  ASSUME TypeOK, Next PROVE TypeOK'
<1> DEFINE Files == [open : SUBSET Episodes, ended : SUBSET Episodes, tail : Ends]
<1>0. NoRows \in Rows /\ Absent \in Files
  BY DEF NoRows, Absent, Rows, Ends
<1>1. CASE Live
  BY <1>1 DEF Live, TypeOK
<1>2. CASE WorkerOpens
  <2>1. own' \in Rows /\ used' \subseteq Episodes
    BY <1>2 DEF WorkerOpens, TypeOK, Rows, Episodes
  <2> QED BY <1>2, <2>1 DEF WorkerOpens, TypeOK
<1>3. CASE WorkerEnds
  <2>1. own' \in Rows
    BY <1>3 DEF WorkerEnds, TypeOK, Rows
  <2> QED BY <1>3, <2>1 DEF WorkerEnds, TypeOK
<1>4. ASSUME NEW p \in Writers, NEW j \in Jobs, Start(p, j) PROVE TypeOK'
  <2>1. seen' \in [Processes -> Rows]
    BY <1>4, <1>0 DEF Start, TypeOK, Processes
  <2> QED BY <1>4, <2>1 DEF Start, TypeOK, files, Processes
<1>5. ASSUME NEW p \in Writers, Enter(p) PROVE TypeOK'
  <2> DEFINE rows == Read(shard)
  <2>1. rows \in Rows /\ seen[p] \in Rows
    BY ReadRows DEF TypeOK
  <2>2. Result(job[p], rows, seen[p]) \in Rows
    BY <2>1, ResultRows
  <2>3. UNCHANGED <<shard, archive, own, live, sidecar, linked, used, faults>>
    BY <1>5 DEF Enter, files
  <2>4. told' \in [Episodes -> {"none", "open", "ended"}]
    BY <1>5 DEF Enter, TypeOK
  <2>5. \/ Leave(p)
        \/ /\ Cross(p) /\ UNCHANGED <<job, inode>>
           /\ \/ pc' = [pc EXCEPT ![p] = "append"] /\ UNCHANGED seen
              \/ /\ pc' = [pc EXCEPT ![p] = "rewrite"]
                 /\ seen' = [seen EXCEPT ![p] = Result(job[p], rows, seen[p])]
    BY <1>5 DEF Enter
  <2>6. CASE Leave(p)
    BY <2>3, <2>4, <2>6, LeaveTyped DEF TypeOK, Processes
  <2>7. CASE ~Leave(p)
    <3>1. crossed' \subseteq Writers
      BY <2>5, <2>7 DEF Cross, Strangers, Inside, TypeOK
    <3>2. seen' \in [Processes -> Rows]
      BY <2>2, <2>5, <2>7 DEF TypeOK, Processes
    <3> QED BY <2>3, <2>4, <2>5, <2>7, <3>1, <3>2 DEF TypeOK, Processes
  <2> QED BY <2>6, <2>7
<1>6. ASSUME NEW p \in Writers, Truncate(p) PROVE TypeOK'
  <2>1. shard' \in Files
    BY <1>6 DEF Truncate, TypeOK, AppendsTo, Ends
  <2>2. [open |-> AppendsTo(shard).open, ended |-> AppendsTo(shard).ended] \in Rows
    BY <1>6 DEF TypeOK, AppendsTo, Rows
  <2>3. seen' \in [Processes -> Rows]
    BY <1>6, <2>2 DEF Truncate, TypeOK, Processes
  <2> QED BY <1>6, <2>1, <2>3 DEF Truncate, TypeOK, Processes
<1>7. ASSUME NEW p \in Writers, Write(p) PROVE TypeOK'
  <2>1. PICK e \in Sessions \ used :
          used' = used \cup {e} /\ shard' = Row(p, e) /\ Tell(p, {e}, "open")
    BY <1>7 DEF Write
  <2>2. e \in Episodes
    BY DEF Episodes
  <2>3. shard' \in Files /\ told' \in [Episodes -> {"none", "open", "ended"}]
    BY <2>1, <2>2, RowTyped, TellTyped
  <2>4. linked' \in [Writers -> BOOLEAN]
    BY <1>7 DEF Write, Unlink, TypeOK
  <2>5. Leave(p) /\ UNCHANGED <<archive, own, live, sidecar, faults>>
    BY <1>7 DEF Write
  <2> QED BY <2>1, <2>2, <2>3, <2>4, <2>5, LeaveTyped DEF TypeOK, Processes
<1>8. ASSUME NEW p \in Writers, WriteShort(p) PROVE TypeOK'
  <2>1. PICK e \in Sessions \ used :
          /\ used' = used \cup {e}
          /\ IF ~linked[p] THEN UNCHANGED shard
             ELSE \/ shard' = [Row(p, e) EXCEPT !.tail = "bare"]
                  \/ \E t \in {"torn", e} :
                       shard' = [open |-> seen[p].open, ended |-> seen[p].ended, tail |-> t]
    BY <1>8 DEF WriteShort
  <2>2. e \in Episodes
    BY DEF Episodes
  <2>3. seen[p] \in Rows /\ shard \in Files /\ Row(p, e) \in Files
    BY <2>2, RowTyped DEF TypeOK
  <2>4. shard' \in Files
    BY <2>1, <2>2, <2>3 DEF Rows, Ends
  <2>5. linked' \in [Writers -> BOOLEAN]
    BY <1>8 DEF WriteShort, Unlink, TypeOK
  <2>6. Leave(p) /\ UNCHANGED <<archive, own, live, sidecar, told>> /\ faults' = faults + 1
    BY <1>8 DEF WriteShort
  <2> QED BY <2>1, <2>2, <2>4, <2>5, <2>6, LeaveTyped DEF TypeOK, Processes
<1>9. ASSUME NEW p \in Writers, Rewrite(p) PROVE TypeOK'
  <2>1. shard' \in Files
    BY <1>9, WholeRows DEF Rewrite, Replaced, TypeOK
  <2>2. linked' \in [Writers -> BOOLEAN] /\ told' \in [Episodes -> {"none", "open", "ended"}]
    BY <1>9 DEF Rewrite, Replaced, TypeOK
  <2>3. Leave(p) /\ UNCHANGED <<archive, own, live, sidecar, used, faults>>
    BY <1>9 DEF Rewrite
  <2> QED BY <2>1, <2>2, <2>3, LeaveTyped DEF TypeOK, Processes
<1>10. ASSUME NEW p \in Writers, Die(p) PROVE TypeOK'
  <2>1. linked' \in [Writers -> BOOLEAN]
    BY <1>10 DEF Die, Unlink, TypeOK
  <2> QED BY <1>10, <2>1, LeaveTyped DEF Die, TypeOK, Processes, files
<1>11. ASSUME NEW a \in Archivers, Collect(a) PROVE TypeOK'
  <2>1. seen' \in [Processes -> Rows]
    BY <1>11, ReadRows DEF Collect, TypeOK, Processes
  <2>2. crossed' \subseteq Writers
    BY <1>11 DEF Collect, TypeOK, Inside
  <2> QED BY <1>11, <2>1, <2>2 DEF Collect, TypeOK, files, Processes
<1>12. ASSUME NEW a \in Archivers, MergeIntoArchive(a) PROVE TypeOK'
  <2>1. archive' \subseteq Episodes
    BY <1>12 DEF MergeIntoArchive, TypeOK, Rows
  <2> QED BY <1>12, <2>1 DEF MergeIntoArchive, TypeOK
<1>13. ASSUME NEW a \in Archivers, RemoveShard(a) PROVE TypeOK'
  BY <1>13, <1>0 DEF RemoveShard, TypeOK, Replaced
<1>14. ASSUME NEW a \in Archivers, RemoveSidecar(a) \/ DieArchiving(a) PROVE TypeOK'
  <2>1. seen' \in [Processes -> Rows]
    BY <1>14, <1>0 DEF RemoveSidecar, DieArchiving, TypeOK, Processes
  <2> QED BY <1>14, <2>1 DEF RemoveSidecar, DieArchiving, TypeOK, files, Processes
<1> QED
  BY <1>1, <1>2, <1>3, <1>4, <1>5, <1>6, <1>7, <1>8, <1>9, <1>10, <1>11, <1>12, <1>13, <1>14
     DEF Next

-----------------------------------------------------------------------------
KeptParts == /\ EpisodesKept /\ OneInside /\ NoneArchived /\ AloneAppends
             /\ WriterHasAll /\ ArchiverHasAll

\* A step that leaves the files and what was told as they are, after which
\* whoever is under way was so before and knows what it knew.
Calm ==
  /\ UNCHANGED <<shard, archive, told>>
  /\ \A p \in Writers :
       /\ pc'[p] \in {"append", "write", "rewrite"} =>
            /\ pc'[p] = pc[p] /\ seen'[p] = seen[p] /\ inode'[p] = inode[p]
            /\ linked'[p] = linked[p] /\ job'[p] = job[p]
            /\ (p \in crossed' <=> p \in crossed)
       /\ pc'[p] = "idle" => p \notin crossed'
  /\ \A a \in Archivers :
       pc'[a] \in {"merge", "remove"} => pc'[a] = pc[a] /\ seen'[a] = seen[a]

LEMMA CalmKeeps ==
  ASSUME KeptParts, Calm PROVE KeptParts'
<1>1. EpisodesKept' /\ Told' = Told
  BY DEF KeptParts, Calm, EpisodesKept, Told
<1>2. Inside' \subseteq Inside /\ Archiving' \subseteq Archiving
  BY DEF Calm, Inside, Archiving
<1>3. OneInside'
  BY <1>2 DEF KeptParts, Calm, OneInside, Inside
<1>4. NoneArchived'
  BY <1>2 DEF KeptParts, Calm, NoneArchived, Inside
<1>5. AloneAppends'
  BY DEF KeptParts, Calm, AloneAppends
<1>6. WriterHasAll'
  BY <1>1 DEF KeptParts, Calm, WriterHasAll
<1>7. ArchiverHasAll'
  BY <1>1, <1>2 DEF KeptParts, Calm, ArchiverHasAll, Archiving
<1> QED BY <1>1, <1>3, <1>4, <1>5, <1>6, <1>7 DEF KeptParts

\* A writer that returns is out and leaves the others as they were.
LEMMA LeaveCalms ==
  ASSUME TypeOK, KeptParts, NEW p \in Writers, Leave(p), UNCHANGED <<shard, archive, told>>,
         \A q \in Writers \ {p} : linked'[q] = linked[q]
  PROVE  Calm
BY ShardAssumption DEF TypeOK, KeptParts, WriterHasAll, Leave, Calm

LEMMA LeaveMoves ==
  ASSUME TypeOK, NEW p \in Writers, Leave(p)
  PROVE  /\ pc'[p] = "idle" /\ p \notin crossed'
         /\ \A q \in Processes \ {p} : pc'[q] = pc[q] /\ seen'[q] = seen[q]
         /\ \A q \in Writers \ {p} : inode'[q] = inode[q] /\ (q \in crossed' <=> q \in crossed)
         /\ Inside' = Inside \ {p} /\ Archiving' = Archiving
<1>1. /\ pc'[p] = "idle" /\ p \notin crossed'
      /\ \A q \in Processes \ {p} : pc'[q] = pc[q] /\ seen'[q] = seen[q]
      /\ \A q \in Writers \ {p} : inode'[q] = inode[q] /\ (q \in crossed' <=> q \in crossed)
  BY DEF TypeOK, Leave, Processes
<1> QED BY <1>1, ShardAssumption DEF Inside, Archiving, Processes

LEMMA CalmSteps ==
  ASSUME TypeOK, KeptParts,
         \/ Live \/ WorkerOpens \/ WorkerEnds
         \/ \E p \in Writers, j \in Jobs : Start(p, j)
         \/ \E p \in Writers : Die(p)
         \/ \E a \in Archivers : RemoveSidecar(a) \/ DieArchiving(a)
  PROVE  Calm
<1>1. CASE Live \/ WorkerOpens \/ WorkerEnds
  BY <1>1 DEF Calm, Live, WorkerOpens, WorkerEnds, KeptParts, WriterHasAll
<1>2. ASSUME NEW p \in Writers, NEW j \in Jobs, Start(p, j) PROVE Calm
  <2>1. /\ pc'[p] = "waiting" /\ UNCHANGED <<shard, archive, told, linked, crossed>>
        /\ \A q \in Processes \ {p} : pc'[q] = pc[q] /\ seen'[q] = seen[q]
        /\ \A q \in Writers \ {p} : inode'[q] = inode[q] /\ job'[q] = job[q]
    BY <1>2 DEF Start, TypeOK, files, Processes
  <2> QED BY <2>1, ShardAssumption DEF Calm, KeptParts, WriterHasAll, Processes
<1>3. ASSUME NEW p \in Writers, Die(p) PROVE Calm
  <2>1. Leave(p) /\ UNCHANGED <<shard, archive, told>>
    BY <1>3 DEF Die, files
  <2>2. \A q \in Writers \ {p} : linked'[q] = linked[q]
    BY <1>3 DEF Die, Unlink, TypeOK
  <2> QED BY <2>1, <2>2, LeaveCalms
<1>4. ASSUME NEW a \in Archivers, RemoveSidecar(a) \/ DieArchiving(a) PROVE Calm
  <2>1. /\ pc'[a] = "idle" /\ UNCHANGED <<shard, archive, told, linked, crossed, inode, job>>
        /\ \A q \in Processes \ {a} : pc'[q] = pc[q] /\ seen'[q] = seen[q]
    BY <1>4 DEF RemoveSidecar, DieArchiving, TypeOK, files, Processes
  <2> QED BY <2>1, ShardAssumption DEF Calm, KeptParts, WriterHasAll, Processes
<1> QED BY <1>1, <1>2, <1>3, <1>4

-----------------------------------------------------------------------------
\* A writer that enters finds every episode in the shard or in the archive.
LEMMA EnterKeeps ==
  ASSUME TypeOK, KeptParts, NEW p \in Writers, Enter(p) PROVE KeptParts'
<1> DEFINE rows == Read(shard)
<1>0. UNCHANGED <<shard, archive, linked>> /\ pc[p] = "waiting" /\ Held(p)
  BY DEF Enter, files
<1>1. p \notin Inside
  BY <1>0 DEF Inside
<1>2. CASE Leave(p) /\ UNCHANGED told
  BY <1>0, <1>2, LeaveCalms, CalmKeeps
<1>3. CASE \* a renewal
        /\ Leave(p)
        /\ told' = [e \in Episodes |-> IF Open(shard, job[p][2]) = {e} /\ Alone(p)
                                        THEN "open" ELSE told[e]]
  <2>1. CASE ~Alone(p)
    <3>1. told' = told
      BY <1>3, <2>1 DEF TypeOK
    <3> QED BY <1>2, <1>3, <3>1
  <2>2. CASE Alone(p)
    <3>1. Inside = {} /\ Archiving = {}
      BY <1>0, <2>2 DEF Alone, Strangers, Held
    <3>2. Inside' = {} /\ Archiving' = {}
      BY <1>3, <3>1, LeaveMoves
    <3>3. EpisodesKept'
      BY <1>0, <1>3 DEF KeptParts, EpisodesKept, Open
    <3>4. \A q \in Writers : pc'[q] = "idle" => q \notin crossed'
      BY <1>3, LeaveMoves DEF KeptParts, WriterHasAll, Processes
    <3> QED BY <3>2, <3>3, <3>4
            DEF KeptParts, OneInside, NoneArchived, AloneAppends, WriterHasAll, ArchiverHasAll, Inside
  <2> QED BY <2>1, <2>2
<1>4. CASE \* it goes inside
        /\ Cross(p) /\ UNCHANGED <<inode, told>>
        /\ \/ pc' = [pc EXCEPT ![p] = "append"] /\ UNCHANGED seen
           \/ /\ pc' = [pc EXCEPT ![p] = "rewrite"]
              /\ seen' = [seen EXCEPT ![p] = Result(job[p], rows, seen[p])]
  <2>1. /\ pc'[p] \in {"append", "rewrite"}
        /\ \A q \in Processes \ {p} : pc'[q] = pc[q] /\ seen'[q] = seen[q]
        /\ pc'[p] = "rewrite" => seen'[p] = Result(job[p], rows, seen[p])
    BY <1>4 DEF TypeOK, Processes
  <2>2. Inside' = Inside \cup {p} /\ Archiving' = Archiving
    BY <2>1, ShardAssumption DEF Inside, Archiving, Processes
  <2>3. Strangers(p) = Inside
    BY <1>0 DEF Strangers, Held
  <2>4. /\ \A q \in Writers : q \in crossed' => q \in crossed \/ q = p \/ q \in Inside
        /\ crossed \ {p} \subseteq crossed'
        /\ Inside # {} => Inside \cup {p} \subseteq crossed'
        /\ Archiving # {} => p \in crossed'
    BY <1>4, <2>3 DEF Cross, Alone
  <2>5. Told' = Told /\ EpisodesKept'
    BY <1>0, <1>4 DEF KeptParts, EpisodesKept, Told
  <2>6. Told \subseteq On(rows) \cup archive
    BY ReadRows DEF KeptParts, EpisodesKept, Told, On
  <2>7. On(rows) \subseteq On(Result(job[p], rows, seen[p]))
    BY ReadRows, ResultRows DEF TypeOK
  <2>8. OneInside'
    BY <1>0, <1>4, <2>2, <2>4 DEF KeptParts, OneInside, Held
  <2>9. NoneArchived'
    BY <2>2, <2>4 DEF KeptParts, NoneArchived, Inside
  <2>10. AloneAppends'
    BY <1>0, <2>1, <2>4 DEF KeptParts, AloneAppends, Processes
  <2>11. WriterHasAll'
    BY <1>0, <2>1, <2>4, <2>5, <2>6, <2>7 DEF KeptParts, WriterHasAll, Processes, Inside
  <2>12. ArchiverHasAll'
    BY <1>0, <2>1, <2>2, <2>5, ShardAssumption DEF KeptParts, ArchiverHasAll, Archiving, Processes
  <2> QED BY <2>5, <2>8, <2>9, <2>10, <2>11, <2>12 DEF KeptParts
<1> QED BY <1>2, <1>3, <1>4 DEF Enter

\* The rows that an append finds are the ones it will write back.
LEMMA TruncateKeeps ==
  ASSUME TypeOK, KeptParts, NEW p \in Writers, Truncate(p) PROVE KeptParts'
<1>1. /\ pc[p] = "append" /\ pc' = [pc EXCEPT ![p] = "write"]
      /\ shard' = [open |-> shard.open, ended |-> shard.ended, tail |-> "bare"]
      /\ UNCHANGED <<archive, inode, crossed, told>>
      /\ linked' = [linked EXCEPT ![p] = TRUE]
      /\ seen' = [seen EXCEPT ![p] = [open |-> shard.open, ended |-> shard.ended]]
  BY DEF Truncate, AppendsTo, TypeOK
<1>2. /\ pc'[p] = "write" /\ seen'[p] = [open |-> shard.open, ended |-> shard.ended]
      /\ linked'[p] = TRUE /\ \A q \in Writers \ {p} : linked'[q] = linked[q]
      /\ \A q \in Processes \ {p} : pc'[q] = pc[q] /\ seen'[q] = seen[q]
  BY <1>1 DEF TypeOK, Processes
<1>3. Inside' = Inside /\ Archiving' = Archiving /\ p \in Inside
  BY <1>1, <1>2, ShardAssumption DEF Inside, Archiving, Processes
<1>4. EpisodesKept' /\ Told' = Told
  BY <1>1 DEF KeptParts, EpisodesKept, Told
<1>5. OneInside' /\ NoneArchived'
  BY <1>1, <1>3 DEF KeptParts, OneInside, NoneArchived
<1>6. AloneAppends'
  <2>1. ASSUME NEW q \in Writers \ {p}, pc'[q] = "write", q \notin crossed' PROVE FALSE
    <3>1. q \in Inside
      BY <1>2, <2>1 DEF Inside, Processes
    <3> QED BY <1>1, <1>3, <2>1, <3>1 DEF KeptParts, OneInside
  <2> QED BY <1>1, <1>2, <2>1 DEF AloneAppends
<1>7. Told \subseteq On(seen'[p]) \cup archive
  BY <1>2 DEF KeptParts, EpisodesKept, Told, On
<1>8. WriterHasAll'
  BY <1>1, <1>2, <1>4, <1>7 DEF KeptParts, WriterHasAll, Processes
<1>9. ArchiverHasAll'
  BY <1>1, <1>2, <1>3, <1>4, ShardAssumption DEF KeptParts, ArchiverHasAll, Archiving, Processes
<1> QED BY <1>4, <1>5, <1>6, <1>8, <1>9 DEF KeptParts

\* A writer that returns after it changed the file: when another one is inside,
\* or an archive is under way, no caller is told of anything new; all that was
\* told of is in the file or in the archive.
LEMMA WriterLeaves ==
  ASSUME TypeOK, KeptParts, NEW p \in Inside, Leave(p), archive' = archive,
         \A q \in Writers \ {p} : linked'[q] => linked[q],
         p \in crossed => Told' \subseteq Told,
         Told' \subseteq On(shard') \cup archive,
         p \notin crossed \/ \A q \in Inside \ {p} : q \in crossed
  PROVE  KeptParts'
<1>1. p \in Writers
  BY DEF Inside
<1>2. /\ \A q \in Processes \ {p} : pc'[q] = pc[q] /\ seen'[q] = seen[q]
      /\ \A q \in Writers \ {p} : inode'[q] = inode[q] /\ (q \in crossed' <=> q \in crossed)
      /\ Inside' = Inside \ {p} /\ Archiving' = Archiving /\ pc'[p] = "idle" /\ p \notin crossed'
  BY <1>1, LeaveMoves
<1>3. p \in crossed \/ (Inside = {p} /\ Archiving = {})
  BY DEF KeptParts, OneInside, NoneArchived
<1>4. EpisodesKept'
  BY DEF EpisodesKept, Told, On
<1>5. OneInside' /\ NoneArchived'
  BY <1>2 DEF KeptParts, OneInside, NoneArchived, Inside
<1>6. AloneAppends'
  <2>1. ASSUME NEW q \in Writers, pc'[q] = "write", q \notin crossed' PROVE FALSE
    <3>1. q # p /\ q \in Inside /\ q \notin crossed
      BY <1>2, <2>1 DEF Inside, Processes
    <3> QED BY <3>1 DEF KeptParts, OneInside
  <2> QED BY <2>1 DEF AloneAppends
<1>7. WriterHasAll'
  <2>1. ASSUME NEW q \in Writers, pc'[q] \in {"write", "rewrite"}
        PROVE  Told' \subseteq On(seen'[q]) \cup archive'
    <3>1. q # p /\ q \in Inside /\ pc[q] \in {"write", "rewrite"} /\ seen'[q] = seen[q]
      BY <1>2, <2>1 DEF Inside, Processes
    <3>2. Told' \subseteq Told
      BY <1>3, <3>1
    <3> QED BY <3>1, <3>2 DEF KeptParts, WriterHasAll
  <2>2. ASSUME NEW q \in Writers, pc'[q] = "idle" PROVE q \notin crossed'
    BY <1>2, <2>2 DEF KeptParts, WriterHasAll, Processes
  <2> QED BY <2>1, <2>2 DEF WriterHasAll
<1>8. ArchiverHasAll'
  <2>1. ASSUME NEW a \in Archiving
        PROVE  /\ Told' \subseteq seen'[a].ended \cup archive'
               /\ pc'[a] = "remove" => seen'[a].ended \subseteq archive'
    <3>1. a \in Archivers /\ seen'[a] = seen[a] /\ pc'[a] = pc[a]
      BY <1>1, <1>2, ShardAssumption DEF Archiving, Processes
    <3>2. Told' \subseteq Told
      BY <1>3
    <3> QED BY <3>1, <3>2 DEF KeptParts, ArchiverHasAll
  <2> QED BY <1>2, <2>1 DEF ArchiverHasAll
<1> QED BY <1>4, <1>5, <1>6, <1>7, <1>8 DEF KeptParts

LEMMA WriteKeeps ==
  ASSUME TypeOK, KeptParts, NEW p \in Writers, Write(p) PROVE KeptParts'
<1>1. PICK e \in Sessions \ used : shard' = Row(p, e) /\ Tell(p, {e}, "open")
  BY DEF Write
<1>2. pc[p] = "write" /\ Leave(p) /\ Unlink(p) /\ archive' = archive /\ p \in Inside
  BY DEF Write, Inside
<1>3. \A q \in Writers \ {p} : linked'[q] => linked[q]
  BY <1>2 DEF Unlink, TypeOK
<1>4. Told' \subseteq Told \cup {e} /\ (p \in crossed => Told' \subseteq Told)
  BY <1>1 DEF Told, Tell, TypeOK
<1>5. Told \subseteq On(seen[p]) \cup archive /\ Told \subseteq On(shard) \cup archive
  BY <1>2 DEF KeptParts, WriterHasAll, EpisodesKept, Told, On
<1>6. Told \subseteq On(shard') \cup archive
  BY <1>1, <1>5 DEF Row, On, TypeOK
<1>7. p \notin crossed => e \in On(shard')
  <2>1. p \notin crossed => linked[p] /\ shard.tail = "bare"
    BY <1>2 DEF KeptParts, AloneAppends
  <2>2. "bare" \notin {"torn"} \cup Episodes
    BY ShardAssumption
  <2> QED BY <1>1, <2>1, <2>2 DEF Row, On
<1> QED BY <1>2, <1>3, <1>4, <1>6, <1>7, WriterLeaves DEF KeptParts, OneInside

LEMMA WriteShortKeeps ==
  ASSUME TypeOK, KeptParts, NEW p \in Writers, WriteShort(p) PROVE KeptParts'
<1>1. PICK e \in Sessions \ used :
        IF ~linked[p] THEN UNCHANGED shard
        ELSE \/ shard' = [Row(p, e) EXCEPT !.tail = "bare"]
             \/ \E t \in {"torn", e} :
                  shard' = [open |-> seen[p].open, ended |-> seen[p].ended, tail |-> t]
  BY DEF WriteShort
<1>2. /\ pc[p] = "write" /\ Leave(p) /\ Unlink(p) /\ archive' = archive /\ told' = told
      /\ p \in Inside
  BY DEF WriteShort, Inside
<1>3. \A q \in Writers \ {p} : linked'[q] => linked[q]
  BY <1>2 DEF Unlink, TypeOK
<1>4. Told' = Told
  BY <1>2 DEF Told
<1>5. Told \subseteq On(seen[p]) \cup archive /\ Told \subseteq On(shard) \cup archive
  BY <1>2 DEF KeptParts, WriterHasAll, EpisodesKept, Told, On
<1>6. Told \subseteq On(Row(p, e)) \cup archive
  BY <1>5 DEF Row, On, TypeOK
<1>7. Row(p, e) \in [open : SUBSET Episodes, ended : SUBSET Episodes, tail : Ends]
  BY RowTyped DEF Episodes
<1>8. Told \subseteq On(shard') \cup archive
  BY <1>1, <1>5, <1>6, <1>7 DEF On
<1> QED BY <1>2, <1>3, <1>4, <1>8, WriterLeaves DEF KeptParts, OneInside

LEMMA RewriteKeeps ==
  ASSUME TypeOK, KeptParts, NEW p \in Writers, Rewrite(p) PROVE KeptParts'
<1>1. /\ pc[p] = "rewrite" /\ Leave(p) /\ archive' = archive /\ p \in Inside
      /\ shard' = Whole(seen[p]) /\ linked' = [q \in Writers |-> FALSE]
  BY DEF Rewrite, Inside, Replaced
<1>2. On(shard') = On(seen[p])
  BY <1>1, WholeRows DEF TypeOK
<1>3. Told \subseteq On(seen[p]) \cup archive
  BY <1>1 DEF KeptParts, WriterHasAll
<1>4. Told' \subseteq Told \cup On(seen[p]) /\ (p \in crossed => Told' \subseteq Told)
  BY DEF Rewrite, Told, On, TypeOK
<1> QED BY <1>1, <1>2, <1>3, <1>4, WriterLeaves DEF KeptParts, OneInside

-----------------------------------------------------------------------------
\* An archive starts from a shard that has everything.
LEMMA ArchiveKeeps ==
  ASSUME TypeOK, KeptParts, NEW a \in Archivers,
         Collect(a) \/ MergeIntoArchive(a) \/ RemoveShard(a)
  PROVE  KeptParts'
<1>0. a \notin Writers /\ told' = told /\ inode' = inode
  BY ShardAssumption DEF Collect, MergeIntoArchive, RemoveShard
<1>1. CASE Collect(a)
  <2>1. /\ pc'[a] = "merge" /\ seen'[a] = Read(shard)
        /\ \A q \in Processes \ {a} : pc'[q] = pc[q] /\ seen'[q] = seen[q]
        /\ crossed' = crossed \cup Inside /\ UNCHANGED <<shard, archive, linked>>
        /\ Read(shard).open = {}
    BY <1>1 DEF Collect, TypeOK, files, Processes, Finished
  <2>2. Inside' = Inside /\ Archiving' = Archiving \cup {a}
    BY <1>0, <2>1, ShardAssumption DEF Inside, Archiving, Processes
  <2>3. EpisodesKept' /\ Told' = Told
    BY <1>0, <2>1 DEF KeptParts, EpisodesKept, Told
  <2>4. Told \subseteq seen'[a].ended \cup archive
    BY <2>1 DEF KeptParts, EpisodesKept, Told, Read
  <2>5. OneInside' /\ NoneArchived'
    BY <1>0, <2>1, <2>2 DEF KeptParts, OneInside, NoneArchived
  <2>6. AloneAppends'
    BY <1>0, <2>1 DEF KeptParts, AloneAppends, Processes, Inside
  <2>7. WriterHasAll'
    BY <1>0, <2>1, <2>3 DEF KeptParts, WriterHasAll, Processes, Inside
  <2>8. ArchiverHasAll'
    BY <1>0, <2>1, <2>2, <2>3, <2>4 DEF KeptParts, ArchiverHasAll, Archiving, Processes
  <2> QED BY <2>3, <2>5, <2>6, <2>7, <2>8 DEF KeptParts
<1>2. CASE MergeIntoArchive(a)
  <2>1. /\ pc[a] = "merge" /\ pc'[a] = "remove" /\ archive' = archive \cup seen[a].ended
        /\ \A q \in Processes \ {a} : pc'[q] = pc[q]
        /\ UNCHANGED <<shard, seen, linked, crossed>>
    BY <1>2 DEF MergeIntoArchive, TypeOK, Processes
  <2>2. Inside' = Inside /\ Archiving' = Archiving /\ a \in Archiving
    BY <1>0, <2>1, ShardAssumption DEF Inside, Archiving, Processes
  <2>3. EpisodesKept' /\ Told' = Told
    BY <1>0, <2>1 DEF KeptParts, EpisodesKept, Told
  <2>4. OneInside' /\ NoneArchived'
    BY <1>0, <2>1, <2>2 DEF KeptParts, OneInside, NoneArchived
  <2>5. AloneAppends' /\ WriterHasAll'
    BY <1>0, <2>1, <2>3 DEF KeptParts, AloneAppends, WriterHasAll, Processes
  <2>6. ArchiverHasAll'
    BY <1>0, <2>1, <2>2, <2>3 DEF KeptParts, ArchiverHasAll, Archiving, Processes
  <2> QED BY <2>3, <2>4, <2>5, <2>6 DEF KeptParts
<1>3. CASE RemoveShard(a)
  <2>1. /\ pc[a] = "remove" /\ pc'[a] = "unlock" /\ linked' = [q \in Writers |-> FALSE]
        /\ \A q \in Processes \ {a} : pc'[q] = pc[q]
        /\ UNCHANGED <<archive, seen, crossed>>
    BY <1>3 DEF RemoveShard, Replaced, TypeOK, Processes
  <2>2. Inside' = Inside /\ Archiving' = Archiving \ {a} /\ a \in Archiving
    BY <1>0, <2>1, ShardAssumption DEF Inside, Archiving, Processes
  <2>3. Told' = Told
    BY <1>0 DEF Told
  <2>4. EpisodesKept'
    BY <1>0, <2>1, <2>2 DEF KeptParts, ArchiverHasAll, EpisodesKept, Told
  <2>5. OneInside' /\ NoneArchived'
    BY <1>0, <2>1, <2>2 DEF KeptParts, OneInside, NoneArchived
  <2>6. AloneAppends'
    BY <1>0, <2>1, <2>2 DEF KeptParts, NoneArchived, AloneAppends, Processes, Inside
  <2>7. WriterHasAll'
    BY <1>0, <2>1, <2>3 DEF KeptParts, WriterHasAll, Processes
  <2>8. ArchiverHasAll'
    BY <1>0, <2>1, <2>2, <2>3 DEF KeptParts, ArchiverHasAll, Archiving, Processes
  <2> QED BY <2>3, <2>4, <2>5, <2>6, <2>7, <2>8 DEF KeptParts
<1> QED BY <1>1, <1>2, <1>3

LEMMA KeptInvariant == Spec => []KeptInv
<1>1. KeptInv /\ Next => KeptInv'
  <2> SUFFICES ASSUME TypeOK, KeptParts, Next PROVE TypeOK' /\ KeptParts'
    BY DEF KeptInv, KeptParts
  <2>1. TypeOK'
    BY TypeKept
  <2>2. KeptParts'
    BY CalmSteps, CalmKeeps, EnterKeeps, TruncateKeeps, WriteKeeps, WriteShortKeeps, RewriteKeeps,
       ArchiveKeeps DEF Next
  <2> QED BY <2>1, <2>2
<1>2. KeptInv /\ UNCHANGED vars => KeptInv'
  BY DEF KeptInv, TypeOK, EpisodesKept, OneInside, NoneArchived, AloneAppends, WriterHasAll,
         ArchiverHasAll, Told, On, Inside, Archiving, vars, files, local
<1> QED BY <1>1, <1>2, InitHolds, PTL DEF Spec

\* An episode a caller was told of stays in the shard or in the archive, for
\* any number of writers, archivers, episodes, torn writes and deaths.
THEOREM EpisodesStay == Spec => []EpisodesKept
BY KeptInvariant, PTL DEF KeptInv

-----------------------------------------------------------------------------
\* Whatever is written anywhere was drawn; the worker's file has its own
\* episodes; no row is written both open and ended.
RowsUsed ==
  /\ On(Read(shard)) \subseteq used /\ archive \subseteq used /\ On(own) \subseteq used
  /\ \A q \in Processes : On(seen[q]) \subseteq used
OwnIsWorkers ==
  /\ own.open \subseteq Workers
  /\ \A p \in Writers : pc[p] = "waiting" /\ job[p][1] = "fold" => seen[p].open \subseteq Workers
RowsApart ==
  /\ Read(shard).open \cap shard.ended = {}
  /\ \A p \in Writers : pc[p] \in {"write", "rewrite"} => seen[p].open \cap seen[p].ended = {}

RowParts == RowsUsed /\ OwnIsWorkers /\ RowsApart

LEMMA RowsInit == Init => RowParts
<1> SUFFICES ASSUME Init PROVE RowParts
  OBVIOUS
<1>1. /\ shard = Absent /\ archive = {} /\ own = NoRows
      /\ \A q \in Processes : pc[q] = "idle" /\ seen[q] = NoRows
  BY DEF Init, Processes
<1>2. /\ On(Read(Absent)) = {} /\ Read(Absent).open = {}
      /\ On(NoRows) = {} /\ NoRows.open = {}
  BY ShardAssumption DEF On, Read, Absent, NoRows
<1>3. RowsUsed
  BY <1>1, <1>2 DEF RowsUsed
<1>4. OwnIsWorkers /\ RowsApart
  BY <1>1, <1>2 DEF OwnIsWorkers, RowsApart, Processes
<1> QED BY <1>3, <1>4 DEF RowParts

\* The rows of a job are rows that were read, and no row of it is both.
LEMMA ResultApart ==
  ASSUME NEW j, NEW rows, NEW mine, rows.open \cap rows.ended = {}
  PROVE  /\ Result(j, rows, mine).open \cap Result(j, rows, mine).ended = {}
         /\ On(Result(j, rows, mine)) \subseteq On(rows) \cup On(mine)
<1>1. CASE j[1] = "fold"
  BY <1>1 DEF Result, Merge, On
<1>2. CASE j[1] # "fold"
  <2>1. EndedBy(j, rows) \subseteq rows.open
    BY DEF EndedBy
  <2> QED BY <1>2, <2>1 DEF Result, On
<1> QED BY <1>1, <1>2

\* A step that writes no row, after which whoever is under way was so before.
RowsCalm ==
  /\ UNCHANGED <<shard, archive, own, used>>
  /\ \A q \in Processes : seen'[q] \in {seen[q], NoRows, own}
  /\ \A p \in Writers :
       /\ pc'[p] \in {"write", "rewrite"} => pc'[p] = pc[p] /\ seen'[p] = seen[p]
       /\ pc'[p] = "waiting" /\ job'[p][1] = "fold" =>
            \/ pc[p] = "waiting" /\ job[p][1] = "fold" /\ seen'[p] = seen[p]
            \/ seen'[p] = own

LEMMA RowsCalmKeeps ==
  ASSUME RowParts, RowsCalm PROVE RowParts'
<1>1. On(NoRows) = {}
  BY DEF NoRows, On
<1>2. \A q \in Processes : On(seen'[q]) \subseteq used
  BY <1>1 DEF RowParts, RowsCalm, RowsUsed
<1>3. RowsUsed'
  BY <1>2 DEF RowParts, RowsCalm, RowsUsed, On, Read
<1>4. OwnIsWorkers'
  BY DEF RowParts, RowsCalm, OwnIsWorkers
<1>5. RowsApart'
  BY DEF RowParts, RowsCalm, RowsApart, Read
<1> QED BY <1>3, <1>4, <1>5 DEF RowParts

LEMMA LeaveRows ==
  ASSUME TypeOK, NEW p \in Writers, Leave(p)
  PROVE  /\ seen'[p] = NoRows /\ pc'[p] = "idle"
         /\ \A q \in Processes \ {p} : pc'[q] = pc[q] /\ seen'[q] = seen[q]
         /\ \A q \in Writers \ {p} : job'[q] = job[q]
BY DEF TypeOK, Leave, Processes

LEMMA RowsCalmSteps ==
  ASSUME TypeOK, RowParts,
         \/ Live
         \/ \E p \in Writers, j \in Jobs : Start(p, j)
         \/ \E p \in Writers : Die(p) \/ (Enter(p) /\ Leave(p))
         \/ \E p \in Writers : Enter(p) /\ pc' = [pc EXCEPT ![p] = "append"]
         \/ \E a \in Archivers : RemoveSidecar(a) \/ DieArchiving(a)
  PROVE  RowParts'
<1>1. CASE Live
  BY <1>1, RowsCalmKeeps DEF RowsCalm, Live
<1>2. ASSUME NEW p \in Writers, NEW j \in Jobs, Start(p, j) PROVE RowParts'
  <2>1. /\ pc'[p] = "waiting" /\ job'[p] = j /\ seen'[p] = IF j[1] = "fold" THEN own ELSE NoRows
        /\ UNCHANGED <<shard, archive, own, used>>
        /\ \A q \in Processes \ {p} : pc'[q] = pc[q] /\ seen'[q] = seen[q]
        /\ \A q \in Writers \ {p} : job'[q] = job[q]
    BY <1>2 DEF Start, TypeOK, files, Processes
  <2> QED BY <2>1, RowsCalmKeeps DEF RowsCalm, Processes
<1>3. ASSUME NEW p \in Writers, Die(p) \/ (Enter(p) /\ Leave(p)) PROVE RowParts'
  <2>1. Leave(p) /\ UNCHANGED <<shard, archive, own, used>>
    BY <1>3 DEF Die, Enter, files
  <2> QED BY <2>1, LeaveRows, RowsCalmKeeps DEF RowsCalm, Processes
<1>4. ASSUME NEW p \in Writers, Enter(p), pc' = [pc EXCEPT ![p] = "append"] PROVE RowParts'
  <2>1. /\ pc[p] = "waiting" /\ UNCHANGED <<shard, archive, own, used>>
        /\ pc'[p] = "append" /\ \A q \in Processes \ {p} : pc'[q] = pc[q]
    BY <1>4 DEF Enter, TypeOK, files, Processes
  <2>2. ~Leave(p) /\ pc' # [pc EXCEPT ![p] = "rewrite"]
    BY <2>1, <1>4 DEF Leave, TypeOK, Processes
  <2>3. UNCHANGED <<seen, job>>
    BY <1>4, <2>2 DEF Enter
  <2> QED BY <2>1, <2>3, RowsCalmKeeps DEF RowsCalm, Processes
<1>5. ASSUME NEW a \in Archivers, RemoveSidecar(a) \/ DieArchiving(a) PROVE RowParts'
  <2>1. /\ UNCHANGED <<shard, archive, own, used, job>>
        /\ pc'[a] = "idle" /\ seen'[a] = NoRows
        /\ \A q \in Processes \ {a} : pc'[q] = pc[q] /\ seen'[q] = seen[q]
    BY <1>5 DEF RemoveSidecar, DieArchiving, TypeOK, files, Processes
  <2> QED BY <2>1, RowsCalmKeeps, ShardAssumption DEF RowsCalm, Processes
<1> QED BY <1>1, <1>2, <1>3, <1>4, <1>5

\* A step that writes rows: they were drawn, and none is both open and ended.
RowsStep ==
  /\ used \subseteq used' /\ own' = own
  /\ On(Read(shard')) \subseteq used' /\ archive' \subseteq used'
  /\ Read(shard').open \cap shard'.ended = {}
  /\ \A q \in Processes : seen'[q] = seen[q] \/ On(seen'[q]) \subseteq used'
  /\ \A p \in Writers :
       /\ pc'[p] \in {"write", "rewrite"} =>
            \/ pc'[p] = pc[p] /\ seen'[p] = seen[p]
            \/ seen'[p].open \cap seen'[p].ended = {}
       /\ pc'[p] = "waiting" => pc[p] = "waiting" /\ seen'[p] = seen[p] /\ job'[p] = job[p]

LEMMA RowsStepKeeps ==
  ASSUME RowParts, RowsStep PROVE RowParts'
<1>1. RowsUsed'
  BY DEF RowParts, RowsUsed, RowsStep
<1>2. OwnIsWorkers'
  BY DEF RowParts, OwnIsWorkers, RowsStep
<1>3. RowsApart'
  BY DEF RowParts, RowsApart, RowsStep
<1> QED BY <1>1, <1>2, <1>3 DEF RowParts

\* What the file reads as after an append, torn or whole.
LEMMA RowApart ==
  ASSUME TypeOK, RowParts, NEW p \in Writers, pc[p] = "write", NEW e \in Sessions \ used
  PROVE  /\ On(Read(Row(p, e))) \subseteq used \cup {e}
         /\ Read(Row(p, e)).open \cap Row(p, e).ended = {}
         /\ On(Row(p, e)) \subseteq used \cup {e} /\ Row(p, e).open \cap Row(p, e).ended = {}
<1>1. /\ On(seen[p]) \subseteq used /\ seen[p].open \cap seen[p].ended = {}
      /\ On(Read(shard)) \subseteq used /\ Read(shard).open \cap shard.ended = {}
  BY DEF RowParts, RowsUsed, RowsApart, Processes
<1>2. CASE ~linked[p]
  BY <1>1, <1>2 DEF Row, On, Read
<1>3. CASE linked[p] /\ shard.tail \in {"torn"} \cup Episodes
  <2>1. Row(p, e) = [open |-> shard.open, ended |-> shard.ended, tail |-> "torn"]
    BY <1>3 DEF Row, TypeOK
  <2> QED BY <1>1, <2>1, ShardAssumption DEF On, Read
<1>4. CASE linked[p] /\ shard.tail \notin {"torn"} \cup Episodes
  <2>1. Row(p, e) = [open |-> seen[p].open \cup {e}, ended |-> seen[p].ended, tail |-> "clean"]
    BY <1>4 DEF Row
  <2> QED BY <1>1, <2>1, ShardAssumption DEF On, Read
<1> QED BY <1>2, <1>3, <1>4

LEMMA RowsKept ==
  ASSUME TypeOK, RowParts, Next PROVE RowParts'
<1>1. CASE WorkerOpens
  <2>1. PICK e \in Workers \ used : own' = [own EXCEPT !.open = @ \cup {e}] /\ used' = used \cup {e}
    BY <1>1 DEF WorkerOpens
  <2>2. own' = [open |-> own.open \cup {e}, ended |-> own.ended]
    BY <2>1 DEF TypeOK, Rows
  <2>3. UNCHANGED <<shard, archive, seen, pc, job>>
    BY <1>1 DEF WorkerOpens
  <2> QED BY <2>1, <2>2, <2>3 DEF RowParts, RowsUsed, OwnIsWorkers, RowsApart, On, Read
<1>2. CASE WorkerEnds
  <2>1. On(own') \subseteq On(own) /\ own'.open \subseteq own.open
    BY <1>2 DEF WorkerEnds, On
  <2>2. UNCHANGED <<shard, archive, seen, pc, job, used>>
    BY <1>2 DEF WorkerEnds
  <2> QED BY <2>1, <2>2 DEF RowParts, RowsUsed, OwnIsWorkers, RowsApart, Read
<1>3. ASSUME NEW p \in Writers, Enter(p) PROVE RowParts'
  <2> DEFINE rows == Read(shard)
             r == Result(job[p], rows, seen[p])
  <2>1. CASE Leave(p) \/ pc' = [pc EXCEPT ![p] = "append"]
    BY <1>3, <2>1, RowsCalmSteps
  <2>2. CASE /\ pc' = [pc EXCEPT ![p] = "rewrite"] /\ UNCHANGED job
             /\ seen' = [seen EXCEPT ![p] = r]
    <3>1. /\ pc'[p] = "rewrite" /\ seen'[p] = r /\ UNCHANGED <<shard, archive, own, used>>
          /\ \A q \in Processes \ {p} : pc'[q] = pc[q] /\ seen'[q] = seen[q]
      BY <1>3, <2>2 DEF Enter, TypeOK, files, Processes
    <3>2. rows.open \cap rows.ended = {}
      BY DEF RowParts, RowsApart, Read
    <3>3. r.open \cap r.ended = {} /\ On(r) \subseteq On(rows) \cup On(seen[p])
      BY <3>2, ResultApart
    <3>4. On(r) \subseteq used
      BY <3>3 DEF RowParts, RowsUsed, Processes
    <3> HIDE DEF r
    <3>5. RowsStep
      BY <2>2, <3>1, <3>3, <3>4 DEF RowParts, RowsUsed, RowsApart, RowsStep, Processes
    <3> QED BY <3>5, RowsStepKeeps
  <2> QED BY <1>3, <2>1, <2>2 DEF Enter
<1>4. ASSUME NEW p \in Writers, Truncate(p) PROVE RowParts'
  <2>1. /\ shard' = [open |-> shard.open, ended |-> shard.ended, tail |-> "bare"]
        /\ seen'[p] = [open |-> shard.open, ended |-> shard.ended]
        /\ UNCHANGED <<archive, own, used, job>> /\ pc'[p] = "write"
        /\ \A q \in Processes \ {p} : pc'[q] = pc[q] /\ seen'[q] = seen[q]
    BY <1>4 DEF Truncate, AppendsTo, TypeOK, Processes
  <2>2. /\ On(Read(shard)) \subseteq used /\ Read(shard).open \cap shard.ended = {}
        /\ archive \subseteq used
    BY DEF RowParts, RowsUsed, RowsApart
  <2>3. /\ On(Read(shard')) \subseteq used /\ Read(shard').open \cap shard'.ended = {}
        /\ On(seen'[p]) \subseteq used /\ seen'[p].open \cap seen'[p].ended = {}
    BY <2>1, <2>2, ShardAssumption DEF On, Read
  <2> QED BY <2>1, <2>2, <2>3, RowsStepKeeps DEF RowsStep, Processes
<1>5. ASSUME NEW p \in Writers, Write(p) \/ WriteShort(p) PROVE RowParts'
  <2>1. PICK e \in Sessions \ used :
          /\ used' = used \cup {e}
          /\ \/ shard' \in {shard, Row(p, e)}
             \/ shard' = [Row(p, e) EXCEPT !.tail = "bare"]
             \/ shard' = [open |-> seen[p].open, ended |-> seen[p].ended, tail |-> "torn"]
             \/ shard' = [open |-> seen[p].open, ended |-> seen[p].ended, tail |-> e]
    BY <1>5 DEF Write, WriteShort
  <2>2. pc[p] = "write" /\ Leave(p) /\ UNCHANGED <<archive, own>>
    BY <1>5 DEF Write, WriteShort
  <2>3. /\ On(seen[p]) \subseteq used /\ seen[p].open \cap seen[p].ended = {} /\ archive \subseteq used
        /\ On(Read(shard)) \subseteq used /\ Read(shard).open \cap shard.ended = {}
    BY <2>2 DEF RowParts, RowsUsed, RowsApart, Processes
  <2>4. On(Read(shard')) \subseteq used' /\ Read(shard').open \cap shard'.ended = {}
    <3>1. CASE shard' \in {shard, Row(p, e)}
      BY <2>1, <2>2, <2>3, <3>1, RowApart
    <3>2. CASE shard' = [Row(p, e) EXCEPT !.tail = "bare"]
      <4>1. Row(p, e) \in [open : SUBSET Episodes, ended : SUBSET Episodes, tail : Ends]
        BY RowTyped DEF Episodes
      <4>2. shard' = [open |-> Row(p, e).open, ended |-> Row(p, e).ended, tail |-> "bare"]
        BY <3>2, <4>1
      <4>3. On(Row(p, e)) \subseteq used \cup {e} /\ Row(p, e).open \cap Row(p, e).ended = {}
        BY <2>2, RowApart
      <4> QED BY <2>1, <4>2, <4>3, ShardAssumption DEF On, Read
    <3>3. CASE shard' = [open |-> seen[p].open, ended |-> seen[p].ended, tail |-> "torn"]
      BY <2>1, <2>3, <3>3, ShardAssumption DEF On, Read
    <3>4. CASE shard' = [open |-> seen[p].open, ended |-> seen[p].ended, tail |-> e]
      BY <2>1, <2>3, <3>4 DEF On, Read, Episodes
    <3> QED BY <2>1, <3>1, <3>2, <3>3, <3>4
  <2>5. /\ seen'[p] = NoRows /\ pc'[p] = "idle"
        /\ \A q \in Processes \ {p} : pc'[q] = pc[q] /\ seen'[q] = seen[q]
        /\ \A q \in Writers \ {p} : job'[q] = job[q]
    BY <2>2, LeaveRows
  <2>6. On(NoRows) = {}
    BY DEF On, NoRows
  <2> QED BY <2>1, <2>2, <2>3, <2>4, <2>5, <2>6, RowsStepKeeps DEF RowsStep, Processes
<1>6. ASSUME NEW p \in Writers, Rewrite(p) PROVE RowParts'
  <2>1. pc[p] = "rewrite" /\ Leave(p) /\ UNCHANGED <<archive, own, used>> /\ shard' = Whole(seen[p])
    BY <1>6 DEF Rewrite, Replaced
  <2>2. /\ On(seen[p]) \subseteq used /\ seen[p].open \cap seen[p].ended = {} /\ archive \subseteq used
    BY <2>1 DEF RowParts, RowsUsed, RowsApart, Processes
  <2>3. On(Read(shard')) \subseteq used /\ Read(shard').open \cap shard'.ended = {}
    BY <2>1, <2>2, ShardAssumption DEF Whole, On, Read
  <2>4. /\ seen'[p] = NoRows /\ pc'[p] = "idle"
        /\ \A q \in Processes \ {p} : pc'[q] = pc[q] /\ seen'[q] = seen[q]
        /\ \A q \in Writers \ {p} : job'[q] = job[q]
    BY <2>1, LeaveRows
  <2>5. On(NoRows) = {}
    BY DEF On, NoRows
  <2> QED BY <2>1, <2>2, <2>3, <2>4, <2>5, RowsStepKeeps DEF RowsStep, Processes
<1>7. ASSUME NEW a \in Archivers, Collect(a) \/ MergeIntoArchive(a) \/ RemoveShard(a)
      PROVE  RowParts'
  <2>1. /\ UNCHANGED <<own, used, job>> /\ a \notin Writers
        /\ \A q \in Processes \ {a} : pc'[q] = pc[q] /\ seen'[q] = seen[q]
        /\ seen'[a] \in {seen[a], Read(shard)}
        /\ archive' \in {archive, archive \cup seen[a].ended}
        /\ shard' \in {shard, Absent}
    BY <1>7, ShardAssumption
       DEF Collect, MergeIntoArchive, RemoveShard, Replaced, TypeOK, files, Processes
  <2>2. /\ On(Read(shard)) \subseteq used /\ Read(shard).open \cap shard.ended = {}
        /\ archive \subseteq used /\ seen[a].ended \subseteq used
    BY DEF RowParts, RowsUsed, RowsApart, Processes, On
  <2>3. On(Read(Absent)) = {} /\ Read(Absent).open = {}
    BY ShardAssumption DEF On, Read, Absent
  <2>4. On(Read(shard')) \subseteq used /\ Read(shard').open \cap shard'.ended = {} /\ archive' \subseteq used
    BY <2>1, <2>2, <2>3
  <2> QED BY <2>1, <2>2, <2>4, RowsStepKeeps DEF RowsStep, Processes
<1>8. ASSUME NEW p \in Writers, NEW j \in Jobs, Start(p, j) PROVE RowParts'
  BY <1>8, RowsCalmSteps
<1>9. ASSUME NEW p \in Writers, Die(p) PROVE RowParts'
  BY <1>9, RowsCalmSteps
<1>10. ASSUME NEW a \in Archivers, RemoveSidecar(a) \/ DieArchiving(a) PROVE RowParts'
  BY <1>10, RowsCalmSteps
<1>11. CASE Live
  BY <1>11, RowsCalmSteps
<1> QED
  BY <1>1, <1>2, <1>3, <1>4, <1>5, <1>6, <1>7, <1>8, <1>9, <1>10, <1>11 DEF Next

-----------------------------------------------------------------------------
\* What the ends and the openings a caller was told of rest on.
EndTold == {e \in Episodes : told[e] = "ended" /\ e \notin archive \cap Workers}
OpenTold == {e \in Sessions : told[e] = "open"}

\* A claim told of as open is an open row, and what a writer makes of the shard
\* has it; a writer that was alone opens none on an item that has one; an archive
\* starts only when there is none.
OpenFound ==
  /\ OpenTold \subseteq shard.open
  /\ \A p \in Writers :
       /\ pc[p] = "write" => OpenTold \subseteq seen[p].open
       /\ pc[p] = "rewrite" => OpenTold \subseteq On(seen[p])
       /\ pc[p] \in {"append", "write"} /\ p \notin crossed =>
            \A e \in OpenTold : Item[e] # job[p][2]
  /\ Archiving # {} => OpenTold = {}

\* No writer is about to write an episode open that was told of as ended.
EndsFound ==
  \A p \in Writers : pc[p] \in {"write", "rewrite"} => EndTold \cap seen[p].open = {}

ToldParts == EndsKept /\ OneOpen /\ OpenFound /\ EndsFound

LEMMA ToldInit == Init => ToldParts
<1> SUFFICES ASSUME Init PROVE ToldParts
  OBVIOUS
<1>1. EndTold = {} /\ OpenTold = {}
  BY DEF Init, EndTold, OpenTold, Episodes
<1>2. EndsKept /\ OneOpen
  BY DEF Init, EndsKept, OneOpen, Episodes
<1> QED BY <1>1, <1>2 DEF ToldParts, OpenFound, EndsFound

LEMMA ToldCalmKeeps ==
  ASSUME ToldParts, Calm PROVE ToldParts'
<1>1. EndTold' = EndTold /\ OpenTold' = OpenTold /\ shard' = shard
  BY DEF Calm, EndTold, OpenTold
<1>2. Archiving' \subseteq Archiving
  BY DEF Calm, Archiving
<1>3. EndsKept' /\ OneOpen'
  BY DEF ToldParts, Calm, EndsKept, OneOpen, Read
<1>4. OpenFound'
  BY <1>1, <1>2 DEF ToldParts, Calm, OpenFound
<1>5. EndsFound'
  BY <1>1 DEF ToldParts, Calm, EndsFound
<1> QED BY <1>3, <1>4, <1>5 DEF ToldParts

\* A writer that returns after it changed the file: nothing new is told of open
\* or ended unless nobody else was inside and no archive under way.
LEMMA WriterLeavesTold ==
  ASSUME TypeOK, KeptParts, ToldParts, NEW p \in Inside, Leave(p), OneOpen',
         EndTold' \cap Read(shard').open = {}, OpenTold' \subseteq shard'.open,
         p \in crossed => EndTold' \subseteq EndTold /\ OpenTold' \subseteq OpenTold
  PROVE  ToldParts'
<1>1. p \in Writers
  BY DEF Inside
<1>2. /\ pc'[p] = "idle" /\ Archiving' = Archiving
      /\ \A q \in Processes \ {p} : pc'[q] = pc[q] /\ seen'[q] = seen[q]
      /\ \A q \in Writers \ {p} : q \in crossed' <=> q \in crossed
  BY <1>1, LeaveMoves
<1>3. \A q \in Writers \ {p} : job'[q] = job[q]
  BY <1>1, LeaveRows
<1>4. p \in crossed \/ (Inside = {p} /\ Archiving = {})
  BY DEF KeptParts, OneInside, NoneArchived
<1>5. EndsKept'
  BY DEF EndsKept, EndTold
<1>6. ASSUME NEW q \in Writers, pc'[q] \in {"append", "write", "rewrite"}
      PROVE  /\ q # p /\ pc'[q] = pc[q] /\ seen'[q] = seen[q] /\ job'[q] = job[q]
             /\ (q \in crossed' <=> q \in crossed)
             /\ EndTold' \subseteq EndTold /\ OpenTold' \subseteq OpenTold
  <2>1. q # p /\ pc'[q] = pc[q] /\ seen'[q] = seen[q] /\ q \in Inside
    BY <1>2, <1>6 DEF Inside, Processes
  <2> QED BY <1>2, <1>3, <1>4, <2>1
<1>7. Archiving' # {} => OpenTold' = {}
  BY <1>2, <1>4 DEF ToldParts, OpenFound
<1>8. OpenFound'
  BY <1>6, <1>7 DEF ToldParts, OpenFound
<1>9. EndsFound'
  BY <1>6 DEF ToldParts, EndsFound
<1> QED BY <1>5, <1>8, <1>9 DEF ToldParts

\* What was told of was drawn.
LEMMA ToldUsed ==
  ASSUME KeptParts, RowParts PROVE Told \subseteq used
BY DEF KeptParts, EpisodesKept, RowParts, RowsUsed, Told, On, Read

LEMMA EnterTold ==
  ASSUME TypeOK, KeptParts, RowParts, ToldParts, NEW p \in Writers, Enter(p)
  PROVE  ToldParts'
<1> DEFINE rows == Read(shard)
           r == Result(job[p], rows, seen[p])
<1>0. UNCHANGED <<shard, archive, linked>> /\ pc[p] = "waiting" /\ Held(p)
  BY DEF Enter, files
<1>1. CASE Leave(p) /\ UNCHANGED told
  BY <1>0, <1>1, LeaveCalms, ToldCalmKeeps
<1>2. CASE \* a renewal
        /\ Leave(p)
        /\ told' = [e \in Episodes |-> IF Open(shard, job[p][2]) = {e} /\ Alone(p)
                                        THEN "open" ELSE told[e]]
  <2>1. CASE ~Alone(p)
    <3>1. told' = told
      BY <1>2, <2>1 DEF TypeOK
    <3> QED BY <1>1, <1>2, <3>1
  <2>2. CASE Alone(p)
    <3>1. Inside = {} /\ Archiving = {}
      BY <1>0, <2>2 DEF Alone, Strangers, Held
    <3>2. Inside' = {} /\ Archiving' = {}
      BY <1>2, <3>1, LeaveMoves
    <3>3. EndsKept'
      BY <1>0, <1>2 DEF ToldParts, EndsKept, TypeOK, Read
    <3>4. \A e \in OpenTold' : e \in OpenTold \/ Open(shard, job[p][2]) = {e}
      BY <1>2 DEF OpenTold, Episodes
    <3>5. OpenTold' \subseteq shard.open
      BY <3>4 DEF ToldParts, OpenFound, Open
    <3>6. OneOpen'
      <4>1. SUFFICES ASSUME NEW e \in OpenTold', NEW f \in OpenTold', Item[e] = Item[f]
                     PROVE  e = f
        BY DEF OneOpen, OpenTold
      <4>2. e \in OpenTold /\ f \in OpenTold => e = f
        BY <4>1 DEF ToldParts, OneOpen, OpenTold
      <4>3. ASSUME NEW g \in OpenTold', Open(shard, job[p][2]) = {g}
            PROVE  \A h \in OpenTold' : Item[h] = Item[g] => h = g
        BY <3>5, <4>3 DEF Open, OpenTold
      <4> QED BY <3>4, <4>1, <4>2, <4>3
    <3>7. OpenFound' /\ EndsFound'
      BY <1>0, <3>2, <3>5 DEF OpenFound, EndsFound, Inside
    <3> QED BY <3>3, <3>6, <3>7 DEF ToldParts
  <2> QED BY <2>1, <2>2
<1>3. CASE \* it goes inside
        /\ Cross(p) /\ UNCHANGED <<job, told>>
        /\ \/ /\ pc' = [pc EXCEPT ![p] = "append"] /\ UNCHANGED seen
              /\ ~Renews(rows, job[p][2])
           \/ /\ pc' = [pc EXCEPT ![p] = "rewrite"]
              /\ seen' = [seen EXCEPT ![p] = r]
  <2>1. /\ \A q \in Processes \ {p} : pc'[q] = pc[q] /\ seen'[q] = seen[q]
        /\ \/ pc'[p] = "append" /\ ~Renews(rows, job[p][2])
           \/ pc'[p] = "rewrite" /\ seen'[p] = r
    BY <1>3 DEF TypeOK, Processes
  <2>2. Archiving' = Archiving
    BY <2>1, ShardAssumption DEF Archiving, Processes
  <2>3. crossed \ {p} \subseteq crossed'
    BY <1>3 DEF Cross
  <2>4. EndTold' = EndTold /\ OpenTold' = OpenTold
    BY <1>0, <1>3 DEF EndTold, OpenTold
  <2>5. EndsKept' /\ OneOpen'
    BY <1>0, <1>3 DEF ToldParts, EndsKept, OneOpen, Read
  <2>6. OpenTold \subseteq rows.open /\ EndTold \cap rows.open = {}
    BY DEF ToldParts, OpenFound, EndsKept, EndTold, Read
  <2>7. ~Renews(rows, job[p][2]) => \A e \in OpenTold : Item[e] # job[p][2]
    BY <2>6 DEF Renews, Open, OpenTold
  <2>8. pc'[p] = "rewrite" => OpenTold \subseteq On(r)
    BY <2>6, ReadRows, ResultRows DEF On, TypeOK
  <2>9. pc'[p] = "rewrite" => EndTold \cap r.open = {}
    <3>1. CASE job[p][1] = "fold"
      <4>1. seen[p].open \subseteq Workers
        BY <1>0, <3>1 DEF RowParts, OwnIsWorkers
      <4>2. r.open \subseteq (rows.open \cup seen[p].open) \ rows.ended
        BY <3>1 DEF Result, Merge
      <4>3. \A e \in EndTold : e \in Workers => e \in rows.open \/ e \in rows.ended
        BY DEF EndTold, KeptParts, EpisodesKept, Read
      <4> QED BY <2>6, <4>1, <4>2, <4>3
    <3>2. CASE job[p][1] # "fold"
      <4>1. r.open \subseteq rows.open
        BY <3>2 DEF Result
      <4> QED BY <2>6, <4>1
    <3> QED BY <3>1, <3>2
  <2> HIDE DEF r
  <2>10. OpenFound'
    <3>1. ASSUME NEW q \in Writers
          PROVE  /\ pc'[q] = "write" => OpenTold \subseteq seen'[q].open
                 /\ pc'[q] = "rewrite" => OpenTold \subseteq On(seen'[q])
                 /\ pc'[q] \in {"append", "write"} /\ q \notin crossed' =>
                      \A e \in OpenTold : Item[e] # job[q][2]
      <4>1. CASE q = p
        BY <2>1, <2>7, <2>8, <4>1
      <4>2. CASE q # p
        BY <2>1, <2>3, <4>2 DEF ToldParts, OpenFound, Processes
      <4> QED BY <4>1, <4>2
    <3> QED BY <1>0, <1>3, <2>2, <2>4, <3>1 DEF ToldParts, OpenFound
  <2>11. EndsFound'
    BY <2>1, <2>4, <2>9 DEF ToldParts, EndsFound, Processes
  <2> QED BY <2>5, <2>10, <2>11 DEF ToldParts
<1> QED BY <1>1, <1>2, <1>3 DEF Enter

LEMMA TruncateTold ==
  ASSUME TypeOK, KeptParts, ToldParts, NEW p \in Writers, Truncate(p) PROVE ToldParts'
<1>1. /\ pc[p] = "append" /\ pc'[p] = "write"
      /\ seen'[p] = [open |-> shard.open, ended |-> shard.ended]
      /\ shard' = [open |-> shard.open, ended |-> shard.ended, tail |-> "bare"]
      /\ UNCHANGED <<archive, crossed, told, job>>
      /\ \A q \in Processes \ {p} : pc'[q] = pc[q] /\ seen'[q] = seen[q]
  BY DEF Truncate, AppendsTo, TypeOK, Processes
<1>2. Archiving' = Archiving
  BY <1>1, ShardAssumption DEF Archiving, Processes
<1>3. EndTold' = EndTold /\ OpenTold' = OpenTold
  BY <1>1 DEF EndTold, OpenTold
<1>4. Read(shard').open = shard.open
  BY <1>1, ShardAssumption DEF Read
<1>5. EndTold \cap shard.open = {}
  BY DEF ToldParts, EndsKept, EndTold, Read
<1>6. EndsKept' /\ OneOpen'
  BY <1>1, <1>3, <1>4, <1>5 DEF ToldParts, EndsKept, OneOpen, EndTold
<1>7. OpenFound'
  BY <1>1, <1>2, <1>3 DEF ToldParts, OpenFound, Processes
<1>8. EndsFound'
  BY <1>1, <1>3, <1>5 DEF ToldParts, EndsFound, Processes
<1> QED BY <1>6, <1>7, <1>8 DEF ToldParts

LEMMA WriteTold ==
  ASSUME TypeOK, KeptParts, RowParts, ToldParts, NEW p \in Writers, Write(p)
  PROVE  ToldParts'
<1>1. PICK e \in Sessions \ used :
        Item[e] = job[p][2] /\ shard' = Row(p, e) /\ Tell(p, {e}, "open")
  BY DEF Write
<1>2. pc[p] = "write" /\ Leave(p) /\ archive' = archive /\ p \in Inside
  BY DEF Write, Inside
<1>3. /\ \A d \in Episodes \ {e} : told'[d] = told[d]
      /\ told'[e] = IF p \in crossed THEN "none" ELSE "open"
  BY <1>1 DEF Tell, Episodes
<1>4. EndTold' \subseteq EndTold \ {e}
  BY <1>2, <1>3 DEF EndTold
<1>5. /\ OpenTold' \subseteq OpenTold \cup {e}
      /\ p \in crossed => OpenTold' \subseteq OpenTold
  BY <1>3 DEF OpenTold, Episodes
<1>6. OneOpen'
  <2>1. p \notin crossed => \A d \in OpenTold : Item[d] # Item[e]
    BY <1>1, <1>2 DEF ToldParts, OpenFound
  <2>2. \A d, f \in OpenTold : Item[d] = Item[f] => d = f
    BY DEF ToldParts, OneOpen, OpenTold
  <2>3. \A d, f \in OpenTold' : Item[d] = Item[f] => d = f
    BY <1>5, <2>1, <2>2
  <2> QED BY <2>3 DEF OneOpen, OpenTold
<1>7. /\ Row(p, e).open \subseteq shard.open \cup seen[p].open \cup {e}
      /\ Read(Row(p, e)).open \subseteq Read(shard).open \cup seen[p].open \cup {e}
  <2>1. CASE ~linked[p]
    BY <2>1 DEF Row
  <2>2. CASE linked[p] /\ shard.tail \in {"torn"} \cup Episodes
    <3>1. Row(p, e) = [open |-> shard.open, ended |-> shard.ended, tail |-> "torn"]
      BY <2>2 DEF Row, TypeOK
    <3> QED BY <3>1, ShardAssumption DEF Read
  <2>3. CASE linked[p] /\ shard.tail \notin {"torn"} \cup Episodes
    <3>1. Row(p, e) = [open |-> seen[p].open \cup {e}, ended |-> seen[p].ended, tail |-> "clean"]
      BY <2>3 DEF Row
    <3> QED BY <3>1, ShardAssumption DEF Read
  <2> QED BY <2>1, <2>2, <2>3
<1>8. EndTold' \cap Read(shard').open = {}
  <2>1. EndTold \cap Read(shard).open = {} /\ EndTold \cap seen[p].open = {}
    BY <1>2 DEF ToldParts, EndsKept, EndsFound, EndTold
  <2> QED BY <1>1, <1>4, <1>7, <2>1
<1>9. OpenTold' \subseteq shard'.open
  <2>1. OpenTold \subseteq Row(p, e).open
    BY <1>2 DEF ToldParts, OpenFound, Row, TypeOK
  <2>2. p \notin crossed => e \in Row(p, e).open
    <3>1. p \notin crossed => linked[p] /\ shard.tail = "bare"
      BY <1>2 DEF KeptParts, AloneAppends
    <3>2. "bare" \notin {"torn"} \cup Episodes
      BY ShardAssumption
    <3> QED BY <3>1, <3>2 DEF Row
  <2> QED BY <1>1, <1>5, <2>1, <2>2
<1> QED BY <1>2, <1>4, <1>5, <1>6, <1>8, <1>9, WriterLeavesTold

LEMMA WriteShortTold ==
  ASSUME TypeOK, KeptParts, RowParts, ToldParts, NEW p \in Writers, WriteShort(p)
  PROVE  ToldParts'
<1>1. PICK e \in Sessions \ used :
        IF ~linked[p] THEN UNCHANGED shard
        ELSE \/ shard' = [Row(p, e) EXCEPT !.tail = "bare"]
             \/ \E t \in {"torn", e} :
                  shard' = [open |-> seen[p].open, ended |-> seen[p].ended, tail |-> t]
  BY DEF WriteShort
<1>2. pc[p] = "write" /\ Leave(p) /\ archive' = archive /\ told' = told /\ p \in Inside
  BY DEF WriteShort, Inside
<1>3. EndTold' = EndTold /\ OpenTold' = OpenTold /\ OneOpen'
  BY <1>2 DEF EndTold, OpenTold, ToldParts, OneOpen
<1>4. e \in Episodes /\ e \notin EndTold
  BY ToldUsed DEF EndTold, Told, Episodes
<1>5. /\ EndTold \cap Read(shard).open = {} /\ EndTold \cap seen[p].open = {}
      /\ OpenTold \subseteq shard.open /\ OpenTold \subseteq seen[p].open
  BY <1>2 DEF ToldParts, EndsKept, EndsFound, OpenFound, EndTold
<1>6. CASE ~linked[p]
  BY <1>1, <1>2, <1>3, <1>5, <1>6, WriterLeavesTold
<1>7. CASE linked[p]
  <2>1. /\ OpenTold \subseteq Row(p, e).open
        /\ EndTold \cap Row(p, e).open = {}
    BY <1>4, <1>5 DEF Row, Read, TypeOK
  <2>2. Row(p, e) \in [open : SUBSET Episodes, ended : SUBSET Episodes, tail : Ends]
    BY RowTyped DEF Episodes
  <2>3. \E o, d : \E t \in {"bare", "torn", e} :
          /\ shard' = [open |-> o, ended |-> d, tail |-> t]
          /\ OpenTold \subseteq o /\ EndTold \cap o = {}
    <3>1. CASE shard' = [Row(p, e) EXCEPT !.tail = "bare"]
      <4>1. shard' = [open |-> Row(p, e).open, ended |-> Row(p, e).ended, tail |-> "bare"]
        BY <2>2, <3>1
      <4> QED BY <2>1, <4>1
    <3>2. CASE \E t \in {"torn", e} :
                 shard' = [open |-> seen[p].open, ended |-> seen[p].ended, tail |-> t]
      BY <1>5, <3>2
    <3> QED BY <1>1, <1>7, <3>1, <3>2
  <2>4. OpenTold \subseteq shard'.open /\ EndTold \cap Read(shard').open = {}
    BY <1>4, <2>3, ShardAssumption DEF Read
  <2> QED BY <1>2, <1>3, <2>4, WriterLeavesTold
<1> QED BY <1>6, <1>7

LEMMA RewriteTold ==
  ASSUME TypeOK, KeptParts, RowParts, ToldParts, NEW p \in Writers, Rewrite(p)
  PROVE  ToldParts'
<1>1. /\ pc[p] = "rewrite" /\ Leave(p) /\ archive' = archive /\ p \in Inside
      /\ shard' = Whole(seen[p])
  BY DEF Rewrite, Inside, Replaced
<1>2. seen[p].open \cap seen[p].ended = {} /\ EndTold \cap seen[p].open = {}
  BY <1>1 DEF RowParts, RowsApart, ToldParts, EndsFound
<1>3. \A e \in Episodes :
        /\ told'[e] = "ended" => told[e] = "ended" \/ (e \in seen[p].ended /\ p \notin crossed)
        /\ told'[e] = "open" => e \notin seen[p].ended /\ (told[e] = "open" \/ e \in Workers)
  BY DEF Rewrite, TypeOK
<1>4. /\ EndTold' \subseteq EndTold \cup seen[p].ended
      /\ p \in crossed => EndTold' \subseteq EndTold
  BY <1>1, <1>3 DEF EndTold
<1>5. OpenTold' \subseteq OpenTold \ seen[p].ended
  BY <1>3, ShardAssumption DEF OpenTold, Episodes
<1>6. OneOpen'
  <2>1. \A d, f \in OpenTold : Item[d] = Item[f] => d = f
    BY DEF ToldParts, OneOpen, OpenTold
  <2>2. \A d, f \in OpenTold' : Item[d] = Item[f] => d = f
    BY <1>5, <2>1
  <2> QED BY <2>2 DEF OneOpen, OpenTold
<1>7. Read(shard').open = seen[p].open /\ shard'.open = seen[p].open
  BY <1>1, ShardAssumption DEF Read, Whole
<1>8. OpenTold \subseteq On(seen[p])
  BY <1>1 DEF ToldParts, OpenFound
<1>9. OpenTold' \subseteq shard'.open /\ EndTold' \cap Read(shard').open = {}
  BY <1>2, <1>4, <1>5, <1>7, <1>8 DEF On
<1> QED BY <1>1, <1>4, <1>5, <1>6, <1>9, WriterLeavesTold

LEMMA ArchiveTold ==
  ASSUME TypeOK, ToldParts, NEW a \in Archivers,
         Collect(a) \/ MergeIntoArchive(a) \/ RemoveShard(a)
  PROVE  ToldParts'
<1>1. /\ a \notin Writers /\ UNCHANGED <<told, job>> /\ crossed \subseteq crossed'
      /\ archive \subseteq archive' /\ shard' \in {shard, Absent}
      /\ \A q \in Processes \ {a} : pc'[q] = pc[q] /\ seen'[q] = seen[q]
  BY ShardAssumption
     DEF Collect, MergeIntoArchive, RemoveShard, Replaced, TypeOK, files, Processes
<1>2. EndTold' \subseteq EndTold /\ OpenTold' = OpenTold
  BY <1>1 DEF EndTold, OpenTold
<1>3. Read(Absent).open = {} /\ Absent.open = {}
  BY ShardAssumption DEF Read, Absent
<1>4. EndsKept' /\ OneOpen'
  <2>1. EndTold \cap Read(shard).open = {}
    BY DEF ToldParts, EndsKept, EndTold
  <2>2. EndTold' \cap Read(shard').open = {}
    BY <1>1, <1>2, <1>3, <2>1
  <2> QED BY <1>1, <2>2 DEF ToldParts, EndsKept, OneOpen, EndTold
<1>5. Archiving' # {} => OpenTold = {}
  <2>1. CASE Collect(a)
    BY <2>1 DEF Collect, Finished, Read, ToldParts, OpenFound
  <2>2. CASE MergeIntoArchive(a) \/ RemoveShard(a)
    BY <2>2 DEF MergeIntoArchive, RemoveShard, Archiving, ToldParts, OpenFound
  <2> QED BY <2>1, <2>2
<1>6. OpenTold \subseteq shard'.open
  <2>1. CASE RemoveShard(a)
    BY <2>1 DEF RemoveShard, Archiving, ToldParts, OpenFound
  <2>2. CASE Collect(a) \/ MergeIntoArchive(a)
    BY <2>2 DEF Collect, MergeIntoArchive, files, ToldParts, OpenFound
  <2> QED BY <2>1, <2>2
<1>7. OpenFound'
  BY <1>1, <1>2, <1>5, <1>6 DEF ToldParts, OpenFound, Processes
<1>8. EndsFound'
  BY <1>1, <1>2 DEF ToldParts, EndsFound, Processes
<1> QED BY <1>4, <1>7, <1>8 DEF ToldParts

LEMMA ToldInvariant == Spec => [](TypeOK /\ ToldParts)
<1> DEFINE Inv == TypeOK /\ KeptParts /\ RowParts /\ ToldParts
<1>1. Init => Inv
  BY InitHolds, RowsInit, ToldInit DEF KeptInv, KeptParts
<1>2. Inv /\ Next => Inv'
  <2> SUFFICES ASSUME TypeOK, KeptParts, RowParts, ToldParts, Next PROVE Inv'
    OBVIOUS
  <2>1. TypeOK' /\ RowParts'
    BY TypeKept, RowsKept
  <2>2. KeptParts'
    BY CalmSteps, CalmKeeps, EnterKeeps, TruncateKeeps, WriteKeeps, WriteShortKeeps,
       RewriteKeeps, ArchiveKeeps DEF Next
  <2>3. ToldParts'
    BY CalmSteps, ToldCalmKeeps, EnterTold, TruncateTold, WriteTold, WriteShortTold,
       RewriteTold, ArchiveTold DEF Next
  <2> QED BY <2>1, <2>2, <2>3
<1>3. Inv /\ UNCHANGED vars => Inv'
  <2> SUFFICES ASSUME Inv, UNCHANGED vars PROVE Inv'
    OBVIOUS
  <2>1. TypeOK'
    BY DEF TypeOK, vars, files, local
  <2>2. KeptParts'
    BY DEF KeptParts, EpisodesKept, OneInside, NoneArchived, AloneAppends, WriterHasAll,
           ArchiverHasAll, Told, On, Inside, Archiving, vars, files, local
  <2>3. RowParts'
    BY DEF RowParts, RowsUsed, OwnIsWorkers, RowsApart, On, Read, vars, files, local
  <2>4. ToldParts'
    BY DEF ToldParts, EndsKept, OneOpen, OpenFound, EndsFound, EndTold, OpenTold, On, Read,
           Archiving, vars, files, local
  <2> QED BY <2>1, <2>2, <2>3, <2>4
<1> QED BY <1>1, <1>2, <1>3, PTL DEF Spec

\* An end a caller was told of stays: no rewrite, fold, repair or torn write, by
\* any number of writers, reads the episode as open again.
THEOREM EndsStay == Spec => []EndsKept
BY ToldInvariant, PTL DEF ToldParts

\* At most one of the session's claims on an item is open at a time by what its
\* callers were told, and the state keeps its type.
THEOREM ShardStaysSound == Spec => []ShardSound
BY ToldInvariant, PTL DEF ToldParts, ShardSound
=============================================================================

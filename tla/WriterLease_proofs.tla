------------------------- MODULE WriterLease_proofs -------------------------
(***************************************************************************)
(* Proofs about WriterLease, for any number of processes, any bounds and   *)
(* any leftovers: until a live process is suspended for a whole window or  *)
(* the lock is taken while a wrong one is moved aside, the lock excludes   *)
(* and at most one live process believes that it holds the lease.          *)
(***************************************************************************)
EXTENDS WriterLease, TLAPS

\* What a step of any goroutine needs to know of the variables.
Shape ==
  /\ at \in [Threads -> PCs] /\ calls \in [Threads -> 0 .. MaxCalls + 2]
  /\ standing \in [Procs -> {"none", "held", "lost"}]
  /\ lease \in Procs \cup {Past, NoProc} /\ aged \in BOOLEAN

\* Which call of lockLease a goroutine is in, and when a keeper runs.
Progress ==
  \A p \in Procs :
    /\ at[Main(p)] = "off" => calls[Main(p)] = 0 /\ standing[p] = "none"
    /\ at[Main(p)] = "serving" => calls[Main(p)] = 1 /\ standing[p] # "none"
    /\ calls[Main(p)] \notin {0, 1} => standing[p] # "none"
    /\ at[Keeper(p)] \notin {"off", "gone"} => Alive(p) /\ standing[p] # "none"

\* At most one goroutine has the lock.
Alone == \A t, u \in Threads : at[t] \in Critical /\ at[u] \in Critical => t = u

\* What was verified under the lock is still so when the file is changed.
Verdicts ==
  \A p \in Procs :
    /\ at[Main(p)] = "writing" /\ calls[Main(p)] = 1 => Free
    /\ at[Main(p)] = "writing" /\ calls[Main(p)] # 1 =>
         lease = p /\ standing[p] = "lost"
    /\ at[Keeper(p)] = "writing" => standing[p] = "held"

Named == \A p \in Procs : Holds(p) => lease = p /\ ~aged

Calm == ~late /\ ~usurped

IInv == Shape /\ Progress /\ (Calm => Verdicts /\ Named)

-----------------------------------------------------------------------------

\* The two goroutines of a process.
LEMMA Goroutines ==
  /\ \A p \in Procs : Main(p) \in Threads /\ Keeper(p) \in Threads
  /\ \A p \in Procs : /\ Main(p)[1] = p /\ Main(p)[2] = "main"
                      /\ Keeper(p)[1] = p /\ Keeper(p)[2] = "keeper"
  /\ \A t \in Threads : /\ t[1] \in Procs /\ t[2] \in {"main", "keeper"}
                        /\ t = IF t[2] = "main" THEN Main(t[1]) ELSE Keeper(t[1])
BY DEF Threads, Main, Keeper

\* A lock at the path is told from no lock.
LEMMA NoTokenIsNoLock ==
  ASSUME calls \in [Threads -> 0 .. MaxCalls + 2], NEW t \in Threads
  PROVE  Token(t) # NoLock
BY NoLockIsNoToken DEF Token, Tokens

\* A window that passes over a busy process ends the calm.
LEMMA LapseCalms ==
  ASSUME NEW busy \in BOOLEAN, Lapse(busy), Calm' PROVE Calm /\ ~busy
<1>1. CASE busy
  BY <1>1, Zenon DEF Lapse, Calm
<1>2. CASE ~busy
  <2>1. UNCHANGED past
    BY <1>2, Zenon DEF Lapse
  <2> QED BY <1>2, <2>1 DEF Calm, past
<1> QED BY <1>1, <1>2

LEMMA TakeLockKeeps ==
  ASSUME IInv, Calm => Alone, NEW t \in Threads, TakeLock(t)
  PROVE  IInv'
<1> USE Goroutines DEF TakeLock, GoTo, NoteAstray, files, past, Fault
<1>1. Shape'
  BY DEF IInv, Shape, PCs, Critical
<1>2. Progress'
  BY DEF IInv, Progress, Alive
<1>3. ASSUME Calm' PROVE Verdicts' /\ Named'
  <2>1. Calm /\ Alone /\ Verdicts /\ Named
    BY <1>3 DEF IInv, Calm
  <2>2. Verdicts'
    BY <2>1 DEF Verdicts, Free
  <2>3. Named'
    BY <2>1 DEF Named, Holds, Alive
  <2> QED BY <2>2, <2>3
<1> QED BY <1>1, <1>2, <1>3 DEF IInv

LEMMA FindBusyKeeps ==
  ASSUME IInv, Calm => Alone, NEW t \in Threads, FindBusy(t)
  PROVE  IInv'
<1> USE Goroutines DEF FindBusy, GoTo, files, past, Fault
<1>1. Shape'
  BY DEF IInv, Shape, PCs
<1>2. Progress'
  BY DEF IInv, Progress, Alive
<1>3. ASSUME Calm' PROVE Verdicts' /\ Named'
  <2>1. Calm /\ Alone /\ Verdicts /\ Named
    BY <1>3 DEF IInv, Calm
  <2>2. Verdicts'
    BY <2>1 DEF Verdicts, Free
  <2>3. Named'
    BY <2>1 DEF Named, Holds, Alive
  <2> QED BY <2>2, <2>3
<1> QED BY <1>1, <1>2, <1>3 DEF IInv

LEMMA JudgeStaleKeeps ==
  ASSUME IInv, Calm => Alone, NEW t \in Threads, JudgeStale(t)
  PROVE  IInv'
<1> USE Goroutines DEF JudgeStale, GoTo, files, past, Fault
<1>1. Shape'
  BY DEF IInv, Shape, PCs
<1>2. Progress'
  BY DEF IInv, Progress, Alive
<1>3. ASSUME Calm' PROVE Verdicts' /\ Named'
  <2>1. Calm /\ Alone /\ Verdicts /\ Named
    BY <1>3 DEF IInv, Calm
  <2>2. Verdicts'
    BY <2>1 DEF Verdicts, Free
  <2>3. Named'
    BY <2>1 DEF Named, Holds, Alive
  <2> QED BY <2>2, <2>3
<1> QED BY <1>1, <1>2, <1>3 DEF IInv

LEMMA MoveAsideKeeps ==
  ASSUME IInv, Calm => Alone, NEW t \in Threads, MoveAside(t)
  PROVE  IInv'
<1> USE Goroutines DEF MoveAside, GoTo, files, past, Fault
<1>1. Shape'
  BY DEF IInv, Shape, PCs
<1>2. Progress'
  BY DEF IInv, Shape, Progress, Alive
<1>3. ASSUME Calm' PROVE Verdicts' /\ Named'
  <2>1. Calm /\ Alone /\ Verdicts /\ Named
    BY <1>3 DEF IInv, Calm
  <2>2. Verdicts'
    BY <2>1 DEF IInv, Shape, Verdicts, Free
  <2>3. Named'
    BY <2>1 DEF IInv, Shape, Named, Holds, Alive
  <2> QED BY <2>2, <2>3
<1> QED BY <1>1, <1>2, <1>3 DEF IInv

LEMMA PutBackKeeps ==
  ASSUME IInv, Calm => Alone, NEW t \in Threads, PutBack(t)
  PROVE  IInv'
<1> USE Goroutines DEF PutBack, GoTo, files, past, Fault
<1>1. Shape'
  BY DEF IInv, Shape, PCs
<1>2. Progress'
  BY DEF IInv, Progress, Alive
<1>3. ASSUME Calm' PROVE Verdicts' /\ Named'
  <2>1. Calm /\ Alone /\ Verdicts /\ Named
    BY <1>3 DEF IInv, Calm
  <2>2. Verdicts'
    BY <2>1 DEF Verdicts, Free
  <2>3. Named'
    BY <2>1 DEF Named, Holds, Alive
  <2> QED BY <2>2, <2>3
<1> QED BY <1>1, <1>2, <1>3 DEF IInv

LEMMA ReadLockKeeps ==
  ASSUME IInv, Calm => Alone, NEW t \in Threads, ReadLock(t)
  PROVE  IInv'
<1> USE Goroutines DEF ReadLock, GoTo, files, past, Fault
<1>1. Shape'
  BY DEF IInv, Shape, PCs, Critical
<1>2. Progress'
  BY DEF IInv, Progress, Alive
<1>3. ASSUME Calm' PROVE Verdicts' /\ Named'
  <2>1. Calm /\ Alone /\ Verdicts /\ Named
    BY <1>3 DEF IInv, Calm
  <2>2. Verdicts'
    BY <2>1 DEF Verdicts, Free
  <2>3. Named'
    BY <2>1 DEF Named, Holds, Alive
  <2> QED BY <2>2, <2>3
<1> QED BY <1>1, <1>2, <1>3 DEF IInv

LEMMA LeaveLockKeeps ==
  ASSUME IInv, Calm => Alone, NEW t \in Threads, LeaveLock(t)
  PROVE  IInv'
<1> USE Goroutines DEF LeaveLock, Return, GoTo, files, past, Fault
<1>1. Shape'
  BY DEF IInv, Shape, PCs
<1>2. Progress'
  BY DEF IInv, Shape, Progress, Alive
<1>3. ASSUME Calm' PROVE Verdicts' /\ Named'
  <2>1. Calm /\ Alone /\ Verdicts /\ Named
    BY <1>3 DEF IInv, Calm
  <2>2. Verdicts'
    BY <2>1 DEF IInv, Shape, Verdicts, Free
  <2>3. Named'
    BY <2>1 DEF IInv, Shape, Named, Holds, Alive
  <2> QED BY <2>2, <2>3
<1> QED BY <1>1, <1>2, <1>3 DEF IInv

LEMMA RemoveLockKeeps ==
  ASSUME IInv, Calm => Alone, NEW t \in Threads, RemoveLock(t)
  PROVE  IInv'
<1> USE Goroutines DEF RemoveLock, Return, GoTo, files, past, Fault
<1>1. Shape'
  BY DEF IInv, Shape, PCs
<1>2. Progress'
  BY DEF IInv, Shape, Progress, Alive
<1>3. ASSUME Calm' PROVE Verdicts' /\ Named'
  <2>1. Calm /\ Alone /\ Verdicts /\ Named
    BY <1>3 DEF IInv, Calm
  <2>2. Verdicts'
    BY <2>1 DEF IInv, Shape, Verdicts, Free
  <2>3. Named'
    BY <2>1 DEF IInv, Shape, Named, Holds, Alive
  <2> QED BY <2>2, <2>3
<1> QED BY <1>1, <1>2, <1>3 DEF IInv

\* Giving up touches no file.
LEMMA GiveUpKeeps ==
  ASSUME IInv, Calm => Alone, NEW t \in Threads, GiveUp(t)
  PROVE  IInv'
<1> USE Goroutines DEF GiveUp, Return, Verified, Lose, GoTo, files, past, Fault
<1>1. Shape'
  <2>1. standing' \in [Procs -> {"none", "held", "lost"}]
    BY DEF IInv, Shape
  <2>2. at' \in [Threads -> PCs]
    BY DEF IInv, Shape, PCs
  <2> QED BY <2>1, <2>2 DEF IInv, Shape
<1>2. Progress'
  BY DEF IInv, Shape, Progress, Alive
<1>3. ASSUME Calm' PROVE Verdicts' /\ Named'
  <2>1. Calm /\ Alone /\ Verdicts /\ Named
    BY <1>3 DEF IInv, Calm
  <2>2. Verdicts'
    <3>1. CASE t[2] = "main"
      BY <2>1, <3>1 DEF IInv, Shape, Verdicts, Free
    <3>2. CASE t[2] = "keeper" /\ UNCHANGED standing
      BY <2>1, <3>2 DEF IInv, Shape, Verdicts, Free
    <3>3. CASE t[2] = "keeper" /\ at' = [at EXCEPT ![t] = "gone"]
      BY <2>1, <3>3 DEF IInv, Shape, Verdicts, Free
    <3> QED BY <3>1, <3>2, <3>3
  <2>3. Named'
    BY <2>1 DEF IInv, Shape, Named, Holds, Alive
  <2> QED BY <2>2, <2>3
<1> QED BY <1>1, <1>2, <1>3 DEF IInv

LEMMA CrashKeeps ==
  ASSUME IInv, Calm => Alone, NEW p \in Procs, Crash(p)
  PROVE  IInv'
<1> USE Goroutines DEF Crash, Alive, Exit, files, past, Fault
<1>1. Shape'
  BY DEF IInv, Shape, PCs
<1>2. Progress'
  BY DEF IInv, Shape, Progress, Alive
<1>3. ASSUME Calm' PROVE Verdicts' /\ Named'
  <2>1. Calm /\ Alone /\ Verdicts /\ Named
    BY <1>3 DEF IInv, Calm
  <2>2. Verdicts'
    BY <2>1 DEF IInv, Shape, Verdicts, Free
  <2>3. Named'
    BY <2>1 DEF IInv, Shape, Named, Holds, Alive
  <2> QED BY <2>2, <2>3
<1> QED BY <1>1, <1>2, <1>3 DEF IInv

\* A process starts outside the lock.
LEMMA StartKeeps ==
  ASSUME IInv, Calm => Alone, NEW p \in Procs, Start(p)
  PROVE  IInv'
<1> USE Goroutines DEF Start, Call, GoTo, files, past, Fault
<1>1. Shape'
  BY LeaseConstants DEF IInv, Shape, PCs, Critical, Progress
<1>2. Progress'
  BY DEF IInv, Shape, Progress, Alive
<1>3. ASSUME Calm' PROVE Verdicts' /\ Named'
  <2>1. Calm /\ Alone /\ Verdicts /\ Named
    BY <1>3 DEF IInv, Calm
  <2>2. Verdicts'
    BY <2>1 DEF IInv, Shape, Verdicts, Free
  <2>3. Named'
    BY <2>1 DEF IInv, Shape, Progress, Named, Holds, Alive
  <2> QED BY <2>2, <2>3
<1> QED BY <1>1, <1>2, <1>3 DEF IInv

LEMMA RecheckKeeps ==
  ASSUME IInv, Calm => Alone, NEW p \in Procs, Recheck(p)
  PROVE  IInv'
<1> USE Goroutines DEF Recheck, GoTo, files, past, Fault
<1>1. Shape'
  BY DEF IInv, Shape, PCs, Critical
<1>2. Progress'
  BY DEF IInv, Progress, Alive
<1>3. ASSUME Calm' PROVE Verdicts' /\ Named'
  <2>1. Calm /\ Alone /\ Verdicts /\ Named
    BY <1>3 DEF IInv, Calm
  <2>2. Verdicts'
    BY <2>1 DEF Verdicts, Free
  <2>3. Named'
    BY <2>1 DEF Named, Holds, Alive
  <2> QED BY <2>2, <2>3
<1> QED BY <1>1, <1>2, <1>3 DEF IInv

\* The new owner found the lease free under the lock, so no other process holds it.
LEMMA WriteLeaseKeeps ==
  ASSUME IInv, Calm => Alone, NEW p \in Procs, WriteLease(p)
  PROVE  IInv'
<1> USE Goroutines DEF WriteLease, GoTo, files, past, Fault
<1>1. Shape'
  BY DEF IInv, Shape, PCs, Critical
<1>2. Progress'
  BY DEF IInv, Progress, Alive
<1>3. ASSUME Calm' PROVE Verdicts' /\ Named'
  <2>1. Calm /\ Alone /\ Verdicts /\ Named
    BY <1>3 DEF IInv, Calm
  <2>2. Verdicts'
    BY <2>1 DEF IInv, Shape, Alone, Critical, Verdicts, Free
  <2>3. Named'
    BY <2>1, LeaseConstants DEF IInv, Shape, Verdicts, Named, Holds, Alive, Free
  <2> QED BY <2>2, <2>3
<1> QED BY <1>1, <1>2, <1>3 DEF IInv

LEMMA WriteFailsKeeps ==
  ASSUME IInv, Calm => Alone, NEW p \in Procs, WriteFails(p)
  PROVE  IInv'
<1> USE Goroutines DEF WriteFails, GoTo, files, past, Fault
<1>1. Shape'
  BY DEF IInv, Shape, PCs, Critical
<1>2. Progress'
  BY DEF IInv, Progress, Alive
<1>3. ASSUME Calm' PROVE Verdicts' /\ Named'
  <2>1. Calm /\ Alone /\ Verdicts /\ Named
    BY <1>3 DEF IInv, Calm
  <2>2. Verdicts'
    BY <2>1 DEF Verdicts, Free
  <2>3. Named'
    BY <2>1 DEF Named, Holds, Alive
  <2> QED BY <2>2, <2>3
<1> QED BY <1>1, <1>2, <1>3 DEF IInv

LEMMA TickKeeps ==
  ASSUME IInv, Calm => Alone, NEW p \in Procs, Tick(p)
  PROVE  IInv'
<1> USE Goroutines DEF Tick, Call, GoTo, files, past, Fault
<1>1. Shape'
  BY LeaseConstants DEF IInv, Shape, PCs
<1>2. Progress'
  BY DEF IInv, Progress, Alive
<1>3. ASSUME Calm' PROVE Verdicts' /\ Named'
  <2>1. Calm /\ Alone /\ Verdicts /\ Named
    BY <1>3 DEF IInv, Calm
  <2>2. Verdicts'
    BY <2>1 DEF Verdicts, Free
  <2>3. Named'
    BY <2>1 DEF Named, Holds, Alive
  <2> QED BY <2>2, <2>3
<1> QED BY <1>1, <1>2, <1>3 DEF IInv

\* A read error at Verify does no harm: a holder is named anyway.
LEMMA BeatVerifiesKeeps ==
  ASSUME IInv, Calm => Alone, NEW p \in Procs, BeatVerifies(p)
  PROVE  IInv'
<1> USE Goroutines DEF BeatVerifies, Verified, GoTo, files, past, Fault
<1>1. Shape'
  BY DEF IInv, Shape, PCs, Critical
<1>2. Progress'
  BY DEF IInv, Progress, Alive
<1>3. ASSUME Calm' PROVE Verdicts' /\ Named'
  <2>1. Calm /\ Alone /\ Verdicts /\ Named
    BY <1>3 DEF IInv, Calm
  <2>2. Verdicts'
    BY <2>1 DEF IInv, Shape, Progress, Verdicts, Named, Holds, Alive, Denied, Free
  <2>3. Named'
    BY <2>1 DEF Named, Holds, Alive
  <2> QED BY <2>2, <2>3
<1> QED BY <1>1, <1>2, <1>3 DEF IInv

LEMMA BeatDeniedKeeps ==
  ASSUME IInv, Calm => Alone, NEW p \in Procs, BeatDenied(p)
  PROVE  IInv'
<1> USE Goroutines DEF BeatDenied, Lose, GoTo, files, past, Fault
<1>1. Shape'
  BY DEF IInv, Shape, PCs, Critical
<1>2. Progress'
  BY DEF IInv, Progress, Alive
<1>3. ASSUME Calm' PROVE Verdicts' /\ Named'
  <2>1. Calm /\ Alone /\ Verdicts /\ Named
    BY <1>3 DEF IInv, Calm
  <2>2. Verdicts'
    BY <2>1 DEF Verdicts, Free
  <2>3. Named'
    BY <2>1 DEF Named, Holds, Alive
  <2> QED BY <2>2, <2>3
<1> QED BY <1>1, <1>2, <1>3 DEF IInv

\* A beat refreshes the lease that names its process.
LEMMA BeatWritesKeeps ==
  ASSUME IInv, Calm => Alone, NEW p \in Procs, BeatWrites(p)
  PROVE  IInv'
<1> USE Goroutines DEF BeatWrites, GoTo, files, past, Fault
<1>1. Shape'
  BY DEF IInv, Shape, PCs, Critical
<1>2. Progress'
  BY DEF IInv, Progress, Alive
<1>3. ASSUME Calm' PROVE Verdicts' /\ Named'
  <2>1. Calm /\ Alone /\ Verdicts /\ Named
    BY <1>3 DEF IInv, Calm
  <2>2. Verdicts'
    BY <2>1 DEF IInv, Shape, Alone, Critical, Verdicts, Free
  <2>3. Named'
    BY <2>1, LeaseConstants DEF IInv, Shape, Progress, Verdicts, Named, Holds, Alive
  <2> QED BY <2>2, <2>3
<1> QED BY <1>1, <1>2, <1>3 DEF IInv

LEMMA BeatFailsKeeps ==
  ASSUME IInv, Calm => Alone, NEW p \in Procs, BeatFails(p)
  PROVE  IInv'
<1> USE Goroutines DEF BeatFails, Lose, GoTo, files, past, Fault
<1>1. Shape'
  BY DEF IInv, Shape, PCs, Critical
<1>2. Progress'
  BY DEF IInv, Shape, Progress, Alive
<1>3. ASSUME Calm' PROVE Verdicts' /\ Named'
  <2>1. Calm /\ Alone /\ Verdicts /\ Named
    BY <1>3 DEF IInv, Calm
  <2>2. Verdicts'
    BY <2>1 DEF IInv, Shape, Verdicts, Free
  <2>3. Named'
    BY <2>1 DEF IInv, Shape, Named, Holds, Alive
  <2> QED BY <2>2, <2>3
<1> QED BY <1>1, <1>2, <1>3 DEF IInv

LEMMA StopKeeps ==
  ASSUME IInv, Calm => Alone, NEW p \in Procs, Stop(p)
  PROVE  IInv'
<1> USE Goroutines DEF Stop, Call, GoTo, files, past, Fault
<1>1. Shape'
  BY LeaseConstants DEF IInv, Shape, PCs, Critical, Progress
<1>2. Progress'
  BY DEF IInv, Shape, Progress, Alive
<1>3. ASSUME Calm' PROVE Verdicts' /\ Named'
  <2>1. Calm /\ Alone /\ Verdicts /\ Named
    BY <1>3 DEF IInv, Calm
  <2>2. Verdicts'
    BY <2>1 DEF Verdicts, Free
  <2>3. Named'
    BY <2>1 DEF Named, Holds, Alive
  <2> QED BY <2>2, <2>3
<1> QED BY <1>1, <1>2, <1>3 DEF IInv

LEMMA KeeperStopsKeeps ==
  ASSUME IInv, Calm => Alone, NEW p \in Procs, KeeperStops(p)
  PROVE  IInv'
<1> USE Goroutines DEF KeeperStops, GoTo, files, past, Fault
<1>1. Shape'
  BY DEF IInv, Shape, PCs
<1>2. Progress'
  BY DEF IInv, Progress, Alive
<1>3. ASSUME Calm' PROVE Verdicts' /\ Named'
  <2>1. Calm /\ Alone /\ Verdicts /\ Named
    BY <1>3 DEF IInv, Calm
  <2>2. Verdicts'
    BY <2>1 DEF Verdicts, Free
  <2>3. Named'
    BY <2>1 DEF Named, Holds, Alive
  <2> QED BY <2>2, <2>3
<1> QED BY <1>1, <1>2, <1>3 DEF IInv

LEMMA LeaveKeeps ==
  ASSUME IInv, Calm => Alone, NEW p \in Procs, Leave(p)
  PROVE  IInv'
<1> USE Goroutines DEF Leave, Exit, files, past, Fault
<1>1. Shape'
  BY DEF IInv, Shape, PCs
<1>2. Progress'
  BY DEF IInv, Shape, Progress, Alive
<1>3. ASSUME Calm' PROVE Verdicts' /\ Named'
  <2>1. Calm /\ Alone /\ Verdicts /\ Named
    BY <1>3 DEF IInv, Calm
  <2>2. Verdicts'
    BY <2>1 DEF IInv, Shape, Verdicts, Free
  <2>3. Named'
    BY <2>1 DEF IInv, Shape, Named, Holds, Alive
  <2> QED BY <2>2, <2>3
<1> QED BY <1>1, <1>2, <1>3 DEF IInv

\* A release gives up the claim before it removes the file.
LEMMA ReleaseVerifiesKeeps ==
  ASSUME IInv, Calm => Alone, NEW p \in Procs, ReleaseVerifies(p)
  PROVE  IInv'
<1> USE Goroutines DEF ReleaseVerifies, Verified, Lose, GoTo, files, past, Fault
<1>1. Shape'
  BY DEF IInv, Shape, PCs, Critical
<1>2. Progress'
  BY DEF IInv, Progress, Alive
<1>3. ASSUME Calm' PROVE Verdicts' /\ Named'
  <2>1. Calm /\ Alone /\ Verdicts /\ Named
    BY <1>3 DEF IInv, Calm
  <2>2. Verdicts'
    BY <2>1 DEF IInv, Shape, Progress, Alone, Critical, Verdicts, Named, Holds, Alive, Free
  <2>3. Named'
    BY <2>1 DEF Named, Holds, Alive
  <2> QED BY <2>2, <2>3
<1> QED BY <1>1, <1>2, <1>3 DEF IInv

LEMMA ReleaseDeniedKeeps ==
  ASSUME IInv, Calm => Alone, NEW p \in Procs, ReleaseDenied(p)
  PROVE  IInv'
<1> USE Goroutines DEF ReleaseDenied, GoTo, files, past, Fault
<1>1. Shape'
  BY DEF IInv, Shape, PCs, Critical
<1>2. Progress'
  BY DEF IInv, Progress, Alive
<1>3. ASSUME Calm' PROVE Verdicts' /\ Named'
  <2>1. Calm /\ Alone /\ Verdicts /\ Named
    BY <1>3 DEF IInv, Calm
  <2>2. Verdicts'
    BY <2>1 DEF Verdicts, Free
  <2>3. Named'
    BY <2>1 DEF Named, Holds, Alive
  <2> QED BY <2>2, <2>3
<1> QED BY <1>1, <1>2, <1>3 DEF IInv

\* The lease removed is the one of the process that stopped.
LEMMA ReleaseRemovesKeeps ==
  ASSUME IInv, Calm => Alone, NEW p \in Procs, ReleaseRemoves(p)
  PROVE  IInv'
<1> USE Goroutines DEF ReleaseRemoves, GoTo, files, past, Fault
<1>1. Shape'
  BY DEF IInv, Shape, PCs, Critical
<1>2. Progress'
  BY DEF IInv, Progress, Alive
<1>3. ASSUME Calm' PROVE Verdicts' /\ Named'
  <2>1. Calm /\ Alone /\ Verdicts /\ Named
    BY <1>3 DEF IInv, Calm
  <2>2. Verdicts'
    BY <2>1 DEF IInv, Shape, Verdicts, Free
  <2>3. Named'
    BY <2>1, LeaseConstants DEF IInv, Shape, Progress, Verdicts, Named, Holds, Alive
  <2> QED BY <2>2, <2>3
<1> QED BY <1>1, <1>2, <1>3 DEF IInv

LEMMA ExpireKeeps ==
  ASSUME IInv, Calm => Alone, NEW k \in Tokens, Expire(k)
  PROVE  IInv'
<1> USE DEF Expire
<1>1. Shape' /\ Progress'
  BY DEF IInv, Shape, Progress, Alive
<1>2. ASSUME Calm' PROVE Verdicts' /\ Named'
  <2>1. Calm
    BY <1>2, LapseCalms
  <2>2. Verdicts /\ Named
    BY <2>1 DEF IInv
  <2> QED BY <2>2 DEF Verdicts, Free, Named, Holds, Alive
<1> QED BY <1>1, <1>2 DEF IInv

\* The lease of a live holder does not age.
LEMMA AgeKeeps ==
  ASSUME IInv, Calm => Alone, Age
  PROVE  IInv'
<1> USE DEF Age
<1>1. Shape' /\ Progress'
  BY DEF IInv, Shape, Progress, Alive
<1>2. ASSUME Calm' PROVE Verdicts' /\ Named'
  <2>1. Calm /\ ~(lease \in Procs /\ Kept(lease))
    BY <1>2, LapseCalms
  <2>2. Verdicts /\ Named
    BY <2>1 DEF IInv
  <2>3. Verdicts'
    BY <2>2 DEF Verdicts, Free
  <2>4. Named'
    BY <2>1, <2>2 DEF Named, Holds, Alive, Kept
  <2> QED BY <2>3, <2>4
<1> QED BY <1>1, <1>2 DEF IInv

LEMMA InitHolds == Init => IInv
<1> SUFFICES ASSUME Init PROVE IInv
  OBVIOUS
<1> USE Goroutines DEF Init
<1>1. at \in [Threads -> PCs] /\ calls \in [Threads -> 0 .. MaxCalls + 2]
  BY LeaseConstants DEF PCs
<1>2. lease \in Procs \cup {Past, NoProc}
  OBVIOUS
<1>3. Shape
  BY <1>1, <1>2 DEF Shape
<1>4. Progress
  BY DEF Progress
<1>5. Verdicts /\ Named
  BY DEF Verdicts, Named, Holds, Alive
<1> QED BY <1>3, <1>4, <1>5 DEF IInv

\* Every step keeps IInv as long as the lock excludes.
LEMMA StepKeeps ==
  ASSUME IInv, Calm => Alone, [Next]_vars PROVE IInv'
<1>1. ASSUME NEW t \in Threads, LockStep(t) PROVE IInv'
  BY <1>1, TakeLockKeeps, FindBusyKeeps, JudgeStaleKeeps, MoveAsideKeeps,
     PutBackKeeps, ReadLockKeeps, LeaveLockKeeps, RemoveLockKeeps, GiveUpKeeps
     DEF LockStep
<1>2. ASSUME NEW p \in Procs, AcquireStep(p) PROVE IInv'
  BY <1>2, StartKeeps, RecheckKeeps, WriteLeaseKeeps, WriteFailsKeeps DEF AcquireStep
<1>3. ASSUME NEW p \in Procs, BeatStep(p) PROVE IInv'
  BY <1>3, TickKeeps, BeatVerifiesKeeps, BeatDeniedKeeps, BeatWritesKeeps,
     BeatFailsKeeps DEF BeatStep
<1>4. ASSUME NEW p \in Procs, ReleaseStep(p) PROVE IInv'
  BY <1>4, StopKeeps, KeeperStopsKeeps, LeaveKeeps, ReleaseVerifiesKeeps,
     ReleaseDeniedKeeps, ReleaseRemovesKeeps DEF ReleaseStep
<1>5. CASE UNCHANGED vars
  <2>1. Shape' /\ Progress'
    BY <1>5 DEF IInv, Shape, Progress, Alive, vars, files
  <2>2. Calm' => Verdicts' /\ Named'
    BY <1>5 DEF IInv, Calm, Verdicts, Free, Named, Holds, Alive, vars, files, past
  <2> QED BY <2>1, <2>2 DEF IInv
<1> QED BY <1>1, <1>2, <1>3, <1>4, <1>5, CrashKeeps, ExpireKeeps, AgeKeeps DEF Next

-----------------------------------------------------------------------------
\* What a breaker remembers: the lock it judged, and what it moved aside.
Breakers ==
  \A t \in Threads : at[t] # "gone" =>
    /\ saw[t] # NoLock <=> at[t] \in {"breaking", "tombed"}
    /\ tomb[t] # NoLock <=> at[t] = "tombed"

LockTyped ==
  /\ lock \in Tokens \cup {NoLock} /\ expired \subseteq Tokens
  /\ saw \in [Threads -> Tokens \cup {NoLock}] /\ tomb \in [Threads -> Tokens \cup {NoLock}]
  /\ faults \in 0 .. MaxFaults /\ late \in BOOLEAN /\ usurped \in BOOLEAN

LEMMA TypeParts == TypeOK <=> Shape /\ LockTyped /\ Breakers
BY DEF TypeOK, Shape, LockTyped, Breakers

LEMMA TokenTyped ==
  ASSUME Shape, NEW t \in Threads PROVE Token(t) \in Tokens
BY DEF Shape, Token, Tokens

LEMMA LockStepTyped ==
  ASSUME Shape, LockTyped, Breakers, NEW t \in Threads, LockStep(t)
  PROVE  LockTyped'
<1> USE DEF LockTyped, files, past, breaker
<1>1. CASE TakeLock(t)
  BY <1>1, TokenTyped DEF TakeLock, NoteAstray
<1>2. CASE FindBusy(t) \/ ReadLock(t) \/ LeaveLock(t) \/ RemoveLock(t)
  BY <1>2 DEF FindBusy, ReadLock, LeaveLock, RemoveLock
<1>3. CASE JudgeStale(t) \/ MoveAside(t) \/ PutBack(t)
  BY <1>3 DEF JudgeStale, MoveAside, PutBack
<1>4. CASE GiveUp(t)
  <2>1. UNCHANGED <<files, breaker>> /\ (UNCHANGED past \/ Fault)
    BY <1>4 DEF GiveUp, Verified
  <2> QED BY <2>1, LeaseConstants DEF Fault
<1> QED BY <1>1, <1>2, <1>3, <1>4 DEF LockStep

LEMMA FaultsCounted ==
  ASSUME LockTyped,
         \/ faults < MaxFaults /\ faults' = faults + 1 /\ late' = TRUE /\ UNCHANGED usurped
         \/ UNCHANGED past
  PROVE  faults' \in 0 .. MaxFaults /\ late' \in BOOLEAN /\ usurped' \in BOOLEAN
<1>1. MaxFaults \in Nat /\ faults \in 0 .. MaxFaults /\ late \in BOOLEAN /\ usurped \in BOOLEAN
  BY LeaseConstants DEF LockTyped
<1>2. CASE UNCHANGED past
  BY <1>1, <1>2 DEF past
<1>3. CASE faults < MaxFaults /\ faults' = faults + 1 /\ late' = TRUE /\ UNCHANGED usurped
  <2>1. faults' \in 0 .. MaxFaults
    BY <1>1, <1>3
  <2> QED BY <1>1, <1>3, <2>1
<1> QED BY <1>2, <1>3

LEMMA ProcessStepTyped ==
  ASSUME LockTyped,
         \/ \E p \in Procs : AcquireStep(p) \/ BeatStep(p) \/ ReleaseStep(p) \/ Crash(p)
         \/ \E k \in Tokens : Expire(k)
         \/ Age
  PROVE  LockTyped'
<1> USE LeaseConstants DEF LockTyped, files, past, breaker, Fault
<1>1. CASE \E p \in Procs : AcquireStep(p)
  BY <1>1 DEF AcquireStep, Start, Recheck, WriteLease, WriteFails
<1>2. CASE \E p \in Procs : BeatStep(p)
  BY <1>2 DEF BeatStep, Tick, BeatVerifies, BeatDenied, BeatWrites, BeatFails, Verified
<1>3. CASE \E p \in Procs : ReleaseStep(p)
  BY <1>3 DEF ReleaseStep, Stop, KeeperStops, Leave, ReleaseVerifies, ReleaseDenied,
              ReleaseRemoves, Verified
<1>4. CASE \E p \in Procs : Crash(p)
  BY <1>4 DEF Crash
<1>5. ASSUME NEW busy, Lapse(busy)
      PROVE  faults' \in 0 .. MaxFaults /\ late' \in BOOLEAN /\ usurped' \in BOOLEAN
  <2>1. (faults < MaxFaults /\ faults' = faults + 1 /\ late' = TRUE /\ UNCHANGED usurped) \/ UNCHANGED past
    BY <1>5, Zenon DEF Lapse
  <2> QED BY <2>1, FaultsCounted
<1>6. ASSUME NEW k \in Tokens, Expire(k) PROVE LockTyped'
  <2>1. faults' \in 0 .. MaxFaults /\ late' \in BOOLEAN /\ usurped' \in BOOLEAN
    BY <1>5, <1>6 DEF Expire
  <2>2. UNCHANGED <<lock, saw, tomb>> /\ expired' = expired \cup {k}
    BY <1>6 DEF Expire
  <2> QED BY <2>1, <2>2
<1>7. CASE Age
  <2>1. faults' \in 0 .. MaxFaults /\ late' \in BOOLEAN /\ usurped' \in BOOLEAN
    BY <1>5, <1>7 DEF Age
  <2>2. UNCHANGED <<lock, saw, tomb, expired>>
    BY <1>7 DEF Age
  <2> QED BY <2>1, <2>2
<1> QED BY <1>1, <1>2, <1>3, <1>4, <1>6, <1>7

\* A goroutine that neither starts nor ends a break, or that ends with its
\* process.
Unbroken(t) ==
  \/ at'[t] \in {at[t], "gone"}
  \/ at[t] \notin {"breaking", "tombed", "gone"} /\ at'[t] \notin {"breaking", "tombed"}

LEMMA UnbrokenKeeps ==
  ASSUME Breakers, UNCHANGED <<saw, tomb>>, \A t \in Threads : Unbroken(t)
  PROVE  Breakers'
BY DEF Breakers, Unbroken

\* A keeper starts when its process has the lease.
KeeperLater ==
  \A p \in Procs :
    calls[Main(p)] \in {0, 1} /\ at[Main(p)] \notin {"serving", "gone"} => at[Keeper(p)] = "off"

\* What is the same after every step but a break.
Onward == (\A t \in Threads : Unbroken(t)) /\ KeeperLater'

LEMMA ReturnOnward ==
  ASSUME Shape, Progress, KeeperLater, NEW t \in Threads, Return(t), calls' = calls,
         at[t] \in {"unlock", "unlocking", "waiting"}
  PROVE  Onward
<1> USE Goroutines DEF Return, GoTo, Shape
<1>1. PICK p \in Procs : t = Main(p) \/ t = Keeper(p)
  BY DEF Threads
<1>2. CASE t = Keeper(p)
  <2>1. PICK s \in {"serving", "gone"} : at' = [at EXCEPT ![t] = s]
    BY <1>2
  <2>2. \A u \in Threads : Unbroken(u)
    BY <2>1 DEF Unbroken
  <2>3. KeeperLater'
    BY <1>2, <2>1 DEF KeeperLater
  <2> QED BY <2>2, <2>3 DEF Onward
<1>3. CASE t = Main(p) /\ calls[t] = 1 /\ standing[p] = "held"
  <2>1. at' = [at EXCEPT ![t] = "serving", ![Keeper(p)] = "serving"] /\ at[Keeper(p)] = "off"
    BY <1>3 DEF KeeperLater
  <2>2. \A u \in Threads : Unbroken(u)
    BY <1>3, <2>1 DEF Unbroken
  <2>3. KeeperLater'
    BY <1>3, <2>1 DEF KeeperLater
  <2> QED BY <2>2, <2>3 DEF Onward
<1>4. CASE t = Main(p) /\ ~(calls[t] = 1 /\ standing[p] = "held")
  <2>1. at' = [at EXCEPT ![t] = "leaving"]
    BY <1>4
  <2>2. \A u \in Threads : Unbroken(u)
    BY <2>1 DEF Unbroken
  <2>3. KeeperLater'
    BY <1>4, <2>1 DEF KeeperLater
  <2> QED BY <2>2, <2>3 DEF Onward
<1> QED BY <1>1, <1>2, <1>3, <1>4

\* A goroutine that goes on, with no lock judged, and the keeper of which runs
\* only if it did.
LEMMA GoOnward ==
  ASSUME Shape, KeeperLater, NEW t \in Threads, NEW s \in PCs \ {"breaking", "tombed"}, GoTo(t, s),
         at[t] \notin {"off", "gone", "breaking", "tombed"}, at[t] = "serving" => s = "gone",
         calls' = calls
  PROVE  Onward
<1> USE Goroutines DEF GoTo, Shape
<1>1. \A u \in Threads : Unbroken(u)
  BY DEF Unbroken
<1>2. KeeperLater'
  BY DEF KeeperLater
<1> QED BY <1>1, <1>2 DEF Onward

LEMMA LockStepBreakers ==
  ASSUME Shape, Progress, LockTyped, Breakers, KeeperLater, NEW t \in Threads, LockStep(t)
  PROVE  Breakers' /\ KeeperLater'
<1> USE Goroutines DEF files, past, breaker
<1>1. CASE TakeLock(t) \/ FindBusy(t) \/ ReadLock(t)
  <2>1. UNCHANGED <<saw, tomb, calls>> /\ \E s \in {"inside", "waiting", "unlocking"} : GoTo(t, s)
    BY <1>1 DEF TakeLock, FindBusy, ReadLock
  <2>2. at[t] \in {"want", "waiting", "unlock"}
    BY <1>1 DEF TakeLock, FindBusy, ReadLock
  <2>3. Onward
    BY <2>1, <2>2, GoOnward DEF PCs, Critical
  <2> QED BY <2>1, <2>3, UnbrokenKeeps DEF Onward
<1>2. CASE LeaveLock(t) \/ RemoveLock(t)
  BY <1>2, ReturnOnward, UnbrokenKeeps DEF LeaveLock, RemoveLock, Onward
<1>3. CASE GiveUp(t)
  <2>1. at[t] = "waiting" /\ UNCHANGED <<saw, tomb, calls>> /\ (Return(t) \/ GoTo(t, "gone"))
    BY <1>3 DEF GiveUp
  <2>2. Onward
    BY <2>1, ReturnOnward, GoOnward DEF PCs
  <2> QED BY <2>1, <2>2, UnbrokenKeeps DEF Onward
<1>4. CASE JudgeStale(t)
  <2>1. at[t] \in {"want", "waiting"} /\ GoTo(t, "breaking") /\ UNCHANGED <<tomb, calls>>
    BY <1>4 DEF JudgeStale
  <2>2. saw' = [saw EXCEPT ![t] = lock] /\ lock # NoLock
    BY <1>4, NoLockIsNoToken DEF JudgeStale, LockTyped
  <2>3. Breakers'
    BY <2>1, <2>2 DEF GoTo, Shape, LockTyped, Breakers
  <2>4. KeeperLater'
    BY <2>1 DEF GoTo, Shape, KeeperLater
  <2> QED BY <2>3, <2>4
<1>5. CASE MoveAside(t) \/ PutBack(t)
  <2>1. /\ at[t] \in {"breaking", "tombed"} /\ calls' = calls
        /\ \E s \in {"waiting", "tombed"} :
             /\ at' = [at EXCEPT ![t] = s]
             /\ s = "waiting" => saw' = [saw EXCEPT ![t] = NoLock] /\ tomb' = [tomb EXCEPT ![t] = NoLock]
             /\ s = "tombed" => saw' = saw /\ lock # NoLock /\ tomb' = [tomb EXCEPT ![t] = lock]
    BY <1>5 DEF MoveAside, PutBack, GoTo
  <2>2. PICK s \in {"waiting", "tombed"} :
          /\ at' = [at EXCEPT ![t] = s]
          /\ s = "waiting" => saw' = [saw EXCEPT ![t] = NoLock] /\ tomb' = [tomb EXCEPT ![t] = NoLock]
          /\ s = "tombed" => saw' = saw /\ lock # NoLock /\ tomb' = [tomb EXCEPT ![t] = lock]
    BY <2>1
  <2>3. Breakers'
    BY <2>1, <2>2 DEF Shape, LockTyped, Breakers
  <2>4. KeeperLater'
    BY <2>1, <2>2 DEF Shape, KeeperLater
  <2> QED BY <2>3, <2>4
<1> QED BY <1>1, <1>2, <1>3, <1>4, <1>5 DEF LockStep

LEMMA ProcessStepBreakers ==
  ASSUME Shape, Progress, Breakers, KeeperLater,
         \/ \E p \in Procs : AcquireStep(p) \/ BeatStep(p) \/ ReleaseStep(p) \/ Crash(p)
         \/ \E k \in Tokens : Expire(k)
         \/ Age
  PROVE  Breakers' /\ KeeperLater'
<1> USE Goroutines DEF files, past, breaker
<1>1. UNCHANGED <<saw, tomb>>
  BY DEF AcquireStep, Start, Recheck, WriteLease, WriteFails, BeatStep, Tick, BeatVerifies, BeatDenied,
         BeatWrites, BeatFails, ReleaseStep, Stop, KeeperStops, Leave, ReleaseVerifies, ReleaseDenied,
         ReleaseRemoves, Crash, Expire, Age
<1>2. ASSUME NEW p \in Procs, Start(p) PROVE Onward
  <2>1. \A u \in Threads : Unbroken(u)
    BY <1>2 DEF Start, Call, GoTo, Shape, Unbroken
  <2>2. KeeperLater'
    BY <1>2 DEF Start, Call, GoTo, Shape, Progress, KeeperLater
  <2> QED BY <2>1, <2>2 DEF Onward
<1>3. ASSUME NEW p \in Procs, Recheck(p) \/ WriteLease(p) \/ WriteFails(p) PROVE Onward
  <2>1. calls' = calls /\ at[Main(p)] \in {"inside", "writing"} /\
        \E s \in {"writing", "unlock"} : GoTo(Main(p), s)
    BY <1>3 DEF Recheck, WriteLease, WriteFails
  <2> QED BY <2>1, GoOnward DEF PCs, Critical
<1>4. ASSUME NEW p \in Procs, Tick(p) PROVE Onward
  <2>1. \A u \in Threads : Unbroken(u)
    BY <1>4 DEF Tick, Call, GoTo, Shape, Unbroken
  <2>2. KeeperLater'
    BY <1>4 DEF Tick, Call, GoTo, Shape, KeeperLater
  <2> QED BY <2>1, <2>2 DEF Onward
<1>5. ASSUME NEW p \in Procs, BeatVerifies(p) \/ BeatDenied(p) \/ BeatWrites(p) \/ BeatFails(p)
      PROVE  Onward
  <2>1. calls' = calls /\ at[Keeper(p)] \in {"inside", "writing"} /\
        \E s \in {"writing", "unlock"} : GoTo(Keeper(p), s)
    BY <1>5 DEF BeatVerifies, BeatDenied, BeatWrites, BeatFails
  <2> QED BY <2>1, GoOnward DEF PCs, Critical
<1>6. ASSUME NEW p \in Procs, Stop(p) PROVE Onward
  <2>1. \A u \in Threads : Unbroken(u)
    BY <1>6 DEF Stop, Call, GoTo, Shape, Unbroken
  <2>2. KeeperLater'
    BY <1>6 DEF Stop, Call, GoTo, Shape, Progress, KeeperLater
  <2> QED BY <2>1, <2>2 DEF Onward
<1>7. ASSUME NEW p \in Procs, KeeperStops(p) PROVE Onward
  BY <1>7, GoOnward DEF KeeperStops, PCs
<1>8. ASSUME NEW p \in Procs, Leave(p) \/ Crash(p) PROVE Onward
  <2>1. Exit(p) /\ calls' = calls
    BY <1>8 DEF Leave, Crash
  <2>2. \A u \in Threads : Unbroken(u)
    BY <2>1 DEF Exit, Shape, Unbroken
  <2>3. KeeperLater'
    BY <2>1 DEF Exit, Shape, KeeperLater
  <2> QED BY <2>2, <2>3 DEF Onward
<1>9. ASSUME NEW p \in Procs, ReleaseVerifies(p) \/ ReleaseDenied(p) \/ ReleaseRemoves(p)
      PROVE  Onward
  <2>1. calls' = calls /\ at[Main(p)] \in {"inside", "writing"} /\
        \E s \in {"writing", "unlock"} : GoTo(Main(p), s)
    BY <1>9 DEF ReleaseVerifies, ReleaseDenied, ReleaseRemoves
  <2> QED BY <2>1, GoOnward DEF PCs, Critical
<1>10. CASE (\E k \in Tokens : Expire(k)) \/ Age
  <2>1. UNCHANGED <<at, calls>>
    BY <1>10 DEF Expire, Age
  <2> QED BY <1>1, <2>1 DEF Breakers, KeeperLater
<1>11. Onward => Breakers' /\ KeeperLater'
  BY <1>1, UnbrokenKeeps DEF Onward
<1> QED
  BY <1>2, <1>3, <1>4, <1>5, <1>6, <1>7, <1>8, <1>9, <1>10, <1>11
     DEF AcquireStep, BeatStep, ReleaseStep

-----------------------------------------------------------------------------
\* What a breaker moved aside that is not the lock it judged.
Away(u) == tomb[u] \notin {NoLock, saw[u]}

\* Whoever is inside has its lock, still fresh, at the path, or at the private
\* name of the one breaker that moved it by mistake; then the path is free.
Inside ==
  \A t \in Threads : at[t] \in Critical =>
    /\ Token(t) \notin expired
    /\ lock = Token(t) \/ \E u \in Threads : Away(u) /\ tomb[u] = Token(t)
Lone == \A u \in Threads : Away(u) => lock = NoLock /\ \A v \in Threads : Away(v) => u = v
Excluded == Inside /\ Lone

\* A breaker judged a lock that had expired.
Judged == \A u \in Threads : saw[u] = NoLock \/ saw[u] \in expired

\* A goroutine that is to take the lock has not written the token it will write.
Seeking == {"want", "waiting", "breaking", "tombed"}
Used(k) ==
  \A t \in Threads, n \in 0 .. MaxCalls + 2 :
    k = <<t, n>> => n <= calls[t] /\ (at[t] \in Seeking => n # calls[t])
Spent == Used(lock) /\ (\A k \in expired : Used(k)) /\ \A u \in Threads : Used(tomb[u])

\* What the exclusion rests on.
Frame == Shape /\ Progress /\ LockTyped /\ Breakers /\ KeeperLater /\ Judged /\ Spent

LEMMA ExcludedAlone ==
  ASSUME Shape, Excluded PROVE Alone
<1> SUFFICES ASSUME NEW t \in Threads, NEW u \in Threads, at[t] \in Critical, at[u] \in Critical
             PROVE  t = u
  BY DEF Alone
<1>1. Token(t) = Token(u) => t = u
  BY DEF Token
<1>2. Token(t) # NoLock /\ Token(u) # NoLock
  BY NoTokenIsNoLock DEF Shape
<1>3. CASE lock = Token(t)
  BY <1>1, <1>2, <1>3 DEF Excluded, Inside, Lone
<1>4. CASE \E v \in Threads : Away(v) /\ tomb[v] = Token(t)
  BY <1>1, <1>2, <1>4 DEF Excluded, Inside, Lone
<1> QED BY <1>3, <1>4 DEF Excluded, Inside

\* A goroutine that is inside after the step was inside before it, in the same
\* call.
Within ==
  \A t \in Threads : at'[t] \in Critical => at[t] \in Critical /\ calls'[t] = calls[t]

\* A step that leaves the lock, the ages and the breakers.
LEMMA QuietExcluded ==
  ASSUME Excluded, UNCHANGED <<lock, expired, saw, tomb>>, Within PROVE Excluded'
BY DEF Excluded, Inside, Lone, Away, Token, Within

\* A goroutine that goes on where it may write no token of an earlier call.
Ahead ==
  \A t \in Threads :
    \/ calls'[t] = calls[t] /\ (at'[t] \in Seeking => at[t] \in Seeking)
    \/ calls'[t] = calls[t] + 1

LEMMA UsedStays ==
  ASSUME Shape, Ahead, NEW k, Used(k) PROVE Used(k)'
BY DEF Shape, Ahead, Used

LEMMA TokenUsed ==
  ASSUME Shape, NEW t \in Threads, at'[t] \notin Seeking, calls' = calls PROVE Used(Token(t))'
BY DEF Shape, Used, Token

LEMMA FreshToken ==
  ASSUME Shape, Spent, NEW t \in Threads, at[t] \in Seeking PROVE Token(t) \notin expired
BY DEF Shape, Spent, Used, Token

\* Nobody is inside when the lock is taken, unless a lock was away.
LEMMA TakeLockExcludes ==
  ASSUME Frame, Excluded, NEW t \in Threads, TakeLock(t), ~usurped'
  PROVE  Excluded'
<1> USE DEF Frame
<1>1. /\ lock = NoLock /\ lock' = Token(t) /\ at' = [at EXCEPT ![t] = "inside"]
      /\ UNCHANGED <<expired, saw, tomb, calls>> /\ at[t] \in {"want", "waiting"}
  BY DEF TakeLock, GoTo, breaker
<1>2. ~Astray
  BY DEF TakeLock, NoteAstray, LockTyped
<1>3. \A u \in Threads : ~Away(u)
  BY <1>2 DEF Astray, Away
<1>4. \A u \in Threads : at[u] \notin Critical
  BY <1>1, <1>3, NoTokenIsNoLock DEF Excluded, Inside, Shape
<1>5. Token(t) \notin expired
  BY <1>1, FreshToken DEF Seeking
<1>6. \A u \in Threads : ~Away(u)'
  BY <1>1, <1>3 DEF Away
<1>7. Inside'
  BY <1>1, <1>4, <1>5 DEF Inside, Shape, Token
<1> QED BY <1>6, <1>7 DEF Excluded, Lone

LEMMA JudgeStaleExcludes ==
  ASSUME Frame, Excluded, NEW t \in Threads, JudgeStale(t) PROVE Excluded'
<1> USE DEF Frame
<1>1. /\ at[t] \in {"want", "waiting"} /\ UNCHANGED <<lock, expired, tomb, calls>>
      /\ saw' = [saw EXCEPT ![t] = lock] /\ at' = [at EXCEPT ![t] = "breaking"]
  BY DEF JudgeStale, GoTo, files
<1>2. tomb[t] = NoLock
  BY <1>1 DEF Breakers
<1>3. \A u \in Threads : Away(u)' <=> Away(u)
  BY <1>1, <1>2 DEF Away, LockTyped
<1>4. Inside'
  BY <1>1, <1>3 DEF Excluded, Inside, Token, Shape, Critical
<1> QED BY <1>1, <1>3, <1>4 DEF Excluded, Lone

\* What is moved aside by mistake is the lock of the one inside: the breaker
\* judged an older one.
LEMMA MoveAsideExcludes ==
  ASSUME Frame, Excluded, NEW t \in Threads, MoveAside(t) PROVE Excluded'
<1> USE DEF Frame
<1>1. at[t] = "breaking" /\ tomb' = [tomb EXCEPT ![t] = lock] /\ lock' = NoLock /\
      UNCHANGED <<expired, calls>>
  BY DEF MoveAside
<1>2. tomb[t] = NoLock /\ saw[t] # NoLock /\ saw[t] \in expired
  BY <1>1 DEF Breakers, Judged
<1>3. CASE lock = NoLock
  <2>1. tomb' = tomb /\ at' = [at EXCEPT ![t] = "waiting"] /\ saw' = [saw EXCEPT ![t] = NoLock]
    BY <1>1, <1>2, <1>3 DEF MoveAside, GoTo, LockTyped
  <2>2. \A u \in Threads : Away(u)' <=> Away(u)
    BY <1>2, <2>1 DEF Away, LockTyped
  <2>3. Inside'
    BY <1>1, <1>3, <2>1, <2>2 DEF Excluded, Inside, Token, Shape, Critical
  <2> QED BY <1>1, <1>3, <2>2, <2>3 DEF Excluded, Lone
<1>4. CASE lock # NoLock
  <2>1. at' = [at EXCEPT ![t] = "tombed"] /\ saw' = saw
    BY <1>4 DEF MoveAside, GoTo
  <2>2. \A u \in Threads : ~Away(u)
    BY <1>4 DEF Excluded, Lone
  <2>3. \A u \in Threads : Away(u)' => u = t
    BY <1>1, <2>1, <2>2 DEF Away, LockTyped
  <2>4. ASSUME NEW c \in Threads, at'[c] \in Critical
        PROVE  Token(c) \notin expired /\ Away(t)' /\ tomb'[t] = Token(c) /\ calls'[c] = calls[c]
    <3>1. at[c] \in Critical
      BY <2>1, <2>4 DEF Critical, Shape
    <3>2. Token(c) \notin expired /\ lock = Token(c)
      BY <2>2, <3>1 DEF Excluded, Inside
    <3>3. tomb'[t] = lock
      BY <1>1 DEF LockTyped
    <3> QED BY <1>1, <1>2, <1>4, <2>1, <3>2, <3>3 DEF Away
  <2>5. Inside'
    BY <1>1, <2>4 DEF Inside, Token
  <2>6. Lone'
    BY <1>1, <2>3 DEF Lone
  <2> QED BY <2>5, <2>6 DEF Excluded
<1> QED BY <1>3, <1>4

\* The wrong lock goes back to the path, where nobody took the lock meanwhile.
LEMMA PutBackExcludes ==
  ASSUME Frame, Excluded, NEW t \in Threads, PutBack(t) PROVE Excluded'
<1> USE DEF Frame
<1>1. /\ at[t] = "tombed" /\ at' = [at EXCEPT ![t] = "waiting"] /\ UNCHANGED <<expired, calls>>
      /\ tomb' = [tomb EXCEPT ![t] = NoLock] /\ saw' = [saw EXCEPT ![t] = NoLock]
      /\ lock' = IF tomb[t] # saw[t] /\ lock = NoLock THEN tomb[t] ELSE lock
  BY DEF PutBack, GoTo
<1>2. tomb[t] # NoLock
  BY <1>1 DEF Breakers
<1>3. ~Away(t)' /\ \A u \in Threads \ {t} : tomb'[u] = tomb[u] /\ saw'[u] = saw[u]
  BY <1>1 DEF Away, LockTyped
<1>4. CASE Away(t)
  <2>1. lock = NoLock /\ \A u \in Threads : Away(u) => u = t
    BY <1>4 DEF Excluded, Lone
  <2>2. lock' = tomb[t]
    BY <1>1, <1>4, <2>1 DEF Away
  <2>3. \A u \in Threads : ~Away(u)'
    BY <1>3, <2>1 DEF Away
  <2>4. ASSUME NEW c \in Threads, at'[c] \in Critical
        PROVE  Token(c) \notin expired /\ lock' = Token(c) /\ calls'[c] = calls[c]
    <3>1. at[c] \in Critical
      BY <1>1, <2>4 DEF Critical, Shape
    <3>2. Token(c) # lock
      BY <2>1, NoTokenIsNoLock DEF Shape
    <3>3. Token(c) \notin expired /\ tomb[t] = Token(c)
      BY <2>1, <3>1, <3>2 DEF Excluded, Inside
    <3> QED BY <1>1, <2>2, <3>3
  <2>5. Inside'
    BY <1>1, <2>4 DEF Inside, Token
  <2> QED BY <2>3, <2>5 DEF Excluded, Lone
<1>5. CASE ~Away(t)
  <2>1. lock' = lock
    BY <1>1, <1>2, <1>5 DEF Away
  <2>2. \A u \in Threads : Away(u)' <=> Away(u)
    BY <1>3, <1>5 DEF Away
  <2>3. \A u \in Threads : Away(u) => tomb'[u] = tomb[u]
    BY <1>3, <1>5
  <2>4. Inside'
    BY <1>1, <2>1, <2>2, <2>3 DEF Excluded, Inside, Token, Shape, Critical
  <2> QED BY <2>1, <2>2, <2>4 DEF Excluded, Lone
<1> QED BY <1>4, <1>5

\* What Return leaves of the goroutines.
LEMMA ReturnWithin ==
  ASSUME Shape, Progress, KeeperLater, NEW t \in Threads, Return(t), calls' = calls,
         at[t] \in {"unlock", "unlocking", "waiting"}
  PROVE  Within /\ Ahead /\ at'[t] \notin Critical \cup Seeking
<1> USE Goroutines DEF Return, GoTo, Shape
<1>1. PICK s \in {"serving", "gone", "leaving"} :
        \/ at' = [at EXCEPT ![t] = s]
        \/ at' = [at EXCEPT ![t] = s, ![Keeper(t[1])] = s]
  OBVIOUS
<1>2. \A u \in Threads : at'[u] = at[u] \/ at'[u] = s
  BY <1>1
<1>3. at'[t] = s
  BY <1>1
<1> QED BY <1>2, <1>3 DEF Within, Ahead, Critical, Seeking

\* The one inside leaves the path free, and nobody else is inside.
LEMMA RemoveLockExcludes ==
  ASSUME Frame, Excluded, NEW t \in Threads, RemoveLock(t) PROVE Excluded'
<1> USE DEF Frame
<1>1. /\ at[t] = "unlocking" /\ lock' = NoLock /\ Return(t)
      /\ UNCHANGED <<expired, saw, tomb, calls>>
  BY DEF RemoveLock, breaker
<1>2. Within /\ at'[t] \notin Critical
  BY <1>1, ReturnWithin
<1>3. \A u \in Threads : at'[u] \notin Critical
  BY <1>1, <1>2, ExcludedAlone DEF Within, Alone, Critical
<1>4. Inside'
  BY <1>3 DEF Inside
<1>5. Lone'
  BY <1>1 DEF Excluded, Lone, Away
<1> QED BY <1>4, <1>5 DEF Excluded

LEMMA LockStepExcludes ==
  ASSUME Frame, Excluded, NEW t \in Threads, LockStep(t), ~usurped'
  PROVE  Excluded'
<1> USE DEF Frame
<1>1. CASE FindBusy(t) \/ ReadLock(t)
  <2>1. UNCHANGED <<lock, expired, saw, tomb, calls>> /\ \E s \in {"waiting", "unlocking"} : GoTo(t, s)
    BY <1>1 DEF FindBusy, ReadLock, files, breaker
  <2>2. (at[t] = "want" /\ GoTo(t, "waiting")) \/ (at[t] = "unlock" /\ GoTo(t, "unlocking"))
    BY <1>1 DEF FindBusy, ReadLock
  <2>3. Within
    BY <2>1, <2>2 DEF Within, GoTo, Shape, Critical
  <2> QED BY <2>1, <2>3, QuietExcluded
<1>2. CASE LeaveLock(t)
  <2>1. UNCHANGED <<lock, expired, saw, tomb, calls>> /\ at[t] = "unlock" /\ Return(t)
    BY <1>2 DEF LeaveLock, files, breaker
  <2> QED BY <2>1, ReturnWithin, QuietExcluded
<1>3. CASE GiveUp(t)
  <2>1. UNCHANGED <<lock, expired, saw, tomb, calls>> /\ at[t] = "waiting" /\
        (Return(t) \/ GoTo(t, "gone"))
    BY <1>3 DEF GiveUp, files, breaker
  <2>2. GoTo(t, "gone") => Within
    BY <2>1 DEF Within, GoTo, Shape, Critical
  <2> QED BY <2>1, <2>2, ReturnWithin, QuietExcluded
<1> QED
  BY <1>1, <1>2, <1>3, TakeLockExcludes, JudgeStaleExcludes, MoveAsideExcludes, PutBackExcludes,
     RemoveLockExcludes DEF LockStep

\* What a process does with the lease and its clock leaves the lock, and takes
\* nobody inside.
LEMMA ProcessStepWithin ==
  ASSUME Shape, Progress,
         \E p \in Procs : AcquireStep(p) \/ BeatStep(p) \/ ReleaseStep(p) \/ Crash(p)
  PROVE  Within /\ Ahead /\ UNCHANGED <<lock, expired, saw, tomb>>
<1> USE Goroutines DEF files, breaker
<1>1. PICK p \in Procs : AcquireStep(p) \/ BeatStep(p) \/ ReleaseStep(p) \/ Crash(p)
  OBVIOUS
<1>2. UNCHANGED <<lock, expired, saw, tomb>>
  BY <1>1 DEF AcquireStep, Start, Recheck, WriteLease, WriteFails, BeatStep, Tick, BeatVerifies,
              BeatDenied, BeatWrites, BeatFails, ReleaseStep, Stop, KeeperStops, Leave,
              ReleaseVerifies, ReleaseDenied, ReleaseRemoves, Crash
<1>3. ASSUME NEW t \in Threads, Call(t) PROVE Within /\ Ahead
  BY <1>3 DEF Call, GoTo, Shape, Within, Ahead, Critical
<1>4. ASSUME NEW t \in Threads, NEW s \in {"gone", "writing", "unlock"}, GoTo(t, s), calls' = calls,
             s = "gone" \/ at[t] \in Critical
      PROVE  Within /\ Ahead
  BY <1>4 DEF GoTo, Shape, Within, Ahead, Critical, Seeking
<1>5. ASSUME Exit(p), calls' = calls PROVE Within /\ Ahead
  BY <1>5 DEF Exit, Shape, Within, Ahead, Critical, Seeking
<1>6. CASE AcquireStep(p)
  BY <1>3, <1>4, <1>6 DEF AcquireStep, Start, Recheck, WriteLease, WriteFails, Critical
<1>7. CASE BeatStep(p)
  BY <1>3, <1>4, <1>7 DEF BeatStep, Tick, BeatVerifies, BeatDenied, BeatWrites, BeatFails, Critical
<1>8. CASE ReleaseStep(p)
  BY <1>3, <1>4, <1>5, <1>8 DEF ReleaseStep, Stop, KeeperStops, Leave, ReleaseVerifies, ReleaseDenied,
                            ReleaseRemoves, Critical
<1>9. CASE Crash(p)
  BY <1>5, <1>9 DEF Crash
<1> QED BY <1>1, <1>2, <1>6, <1>7, <1>8, <1>9

\* A lock expires under nobody who is inside, without a suspension.
LEMMA ExpireExcludes ==
  ASSUME Frame, Excluded, NEW k \in Tokens, Expire(k), Calm' PROVE Excluded'
<1> USE DEF Frame
<1>1. UNCHANGED <<lock, saw, tomb, at, calls>> /\ expired' = expired \cup {k}
  BY DEF Expire, breaker
<1>2. ~ \E t \in Threads : k = Token(t) /\ at[t] \in Critical
  BY LapseCalms DEF Expire
<1>3. Inside'
  BY <1>1, <1>2 DEF Excluded, Inside, Away, Token
<1>4. Lone'
  BY <1>1 DEF Excluded, Lone, Away
<1> QED BY <1>3, <1>4 DEF Excluded

\* The calm does not come back.
LEMMA CalmBefore ==
  ASSUME [Next]_vars, LockTyped, Calm' PROVE Calm
<1>1. CASE \E t \in Threads : LockStep(t)
  <2>1. PICK t \in Threads : LockStep(t)
    BY <1>1
  <2>2. UNCHANGED past \/ Fault \/ NoteAstray
    BY <2>1 DEF LockStep, TakeLock, FindBusy, JudgeStale, MoveAside, PutBack, ReadLock, LeaveLock,
                RemoveLock, GiveUp, Verified
  <2> QED BY <2>2 DEF Calm, Fault, NoteAstray, past, LockTyped
<1>2. CASE \E p \in Procs : AcquireStep(p) \/ BeatStep(p) \/ ReleaseStep(p) \/ Crash(p)
  <2>1. UNCHANGED past \/ Fault
    BY <1>2 DEF AcquireStep, Start, Recheck, WriteLease, WriteFails, BeatStep, Tick, BeatVerifies,
                BeatDenied, BeatWrites, BeatFails, ReleaseStep, Stop, KeeperStops, Leave,
                ReleaseVerifies, ReleaseDenied, ReleaseRemoves, Crash, Verified
  <2> QED BY <2>1 DEF Calm, Fault, past
<1>3. CASE (\E k \in Tokens : Expire(k)) \/ Age
  BY <1>3, LapseCalms DEF Expire, Age
<1>4. CASE UNCHANGED vars
  BY <1>4 DEF vars, past, Calm
<1> QED BY <1>1, <1>2, <1>3, <1>4 DEF Next

LEMMA ExcludedKeeps ==
  ASSUME Frame, Excluded, [Next]_vars, Calm' PROVE Excluded'
<1> USE DEF Frame
<1>1. CASE \E t \in Threads : LockStep(t)
  BY <1>1, LockStepExcludes DEF Calm
<1>2. CASE \E p \in Procs : AcquireStep(p) \/ BeatStep(p) \/ ReleaseStep(p) \/ Crash(p)
  BY <1>2, ProcessStepWithin, QuietExcluded
<1>3. CASE \E k \in Tokens : Expire(k)
  BY <1>3, ExpireExcludes
<1>4. CASE Age \/ UNCHANGED vars
  <2>1. UNCHANGED <<lock, expired, saw, tomb, at, calls>>
    BY <1>4 DEF Age, vars, files, breaker
  <2> QED BY <2>1, QuietExcluded DEF Within
<1> QED BY <1>1, <1>2, <1>3, <1>4 DEF Next

\* Locks judged have expired and tokens are written once, whoever was suspended.
LEMMA SpentKeeps ==
  ASSUME Frame, [Next]_vars PROVE Judged' /\ Spent'
<1> USE DEF Frame
<1>1. ASSUME Ahead, UNCHANGED <<saw, expired>>, lock' = lock \/ lock' = NoLock, UNCHANGED tomb
      PROVE  Judged' /\ Spent'
  <2>1. Used(NoLock)'
    BY NoLockIsNoToken DEF Used, Tokens
  <2> QED BY <1>1, <2>1, UsedStays DEF Judged, Spent
<1>2. ASSUME NEW t \in Threads, TakeLock(t) PROVE Judged' /\ Spent'
  <2>1. UNCHANGED <<saw, expired, tomb, calls>> /\ lock' = Token(t) /\ at' = [at EXCEPT ![t] = "inside"]
    BY <1>2 DEF TakeLock, GoTo, breaker
  <2>2. Ahead /\ at'[t] \notin Seeking
    BY <2>1 DEF Ahead, Shape, Seeking
  <2>3. Used(Token(t))' /\ Token(t)' = Token(t)
    BY <2>1, <2>2, TokenUsed DEF Token
  <2> QED BY <2>1, <2>2, <2>3, UsedStays DEF Judged, Spent, Used, Token
<1>3. ASSUME NEW t \in Threads, JudgeStale(t) \/ MoveAside(t) \/ PutBack(t) PROVE Judged' /\ Spent'
  <2>1. /\ UNCHANGED <<expired, calls>> /\ at[t] \in Seeking
        /\ \E s \in Seeking : at' = [at EXCEPT ![t] = s]
    BY <1>3 DEF JudgeStale, MoveAside, PutBack, GoTo, files, Seeking
  <2>2. Ahead
    BY <2>1 DEF Ahead, Shape
  <2>3. saw' = saw \/ \E k \in expired \cup {NoLock} : saw' = [saw EXCEPT ![t] = k]
    BY <1>3 DEF JudgeStale, MoveAside, PutBack
  <2>4. Judged'
    BY <2>1, <2>3 DEF Judged, LockTyped
  <2>5. /\ lock' \in {lock, NoLock, tomb[t]}
        /\ tomb' = tomb \/ \E k \in {lock, NoLock} : tomb' = [tomb EXCEPT ![t] = k]
    BY <1>3 DEF JudgeStale, MoveAside, PutBack, files
  <2>6. Used(NoLock)
    BY NoLockIsNoToken DEF Used, Tokens
  <2>7. Used(lock') /\ \A u \in Threads : Used(tomb'[u])
    BY <2>5, <2>6 DEF Spent, LockTyped
  <2>8. \A k : Used(k) => \A u \in Threads, n \in 0 .. MaxCalls + 2 :
                 k = <<u, n>> => n <= calls'[u] /\ (at'[u] \in Seeking => n # calls'[u])
    BY <2>1, <2>2 DEF Used, Ahead, Shape
  <2>9. Spent'
    BY <2>1, <2>7, <2>8 DEF Spent, Used
  <2> QED BY <2>4, <2>9
<1>4. ASSUME NEW t \in Threads, FindBusy(t) \/ ReadLock(t) \/ LeaveLock(t) \/ RemoveLock(t) \/ GiveUp(t)
      PROVE  Judged' /\ Spent'
  <2>1. UNCHANGED <<saw, tomb, expired, calls>> /\ (lock' = lock \/ lock' = NoLock)
    BY <1>4 DEF FindBusy, ReadLock, LeaveLock, RemoveLock, GiveUp, files, breaker
  <2>2. CASE Return(t) /\ at[t] \in {"unlock", "unlocking", "waiting"}
    BY <1>1, <2>1, <2>2, ReturnWithin
  <2>3. CASE \/ at[t] = "want" /\ GoTo(t, "waiting")
             \/ at[t] = "unlock" /\ GoTo(t, "unlocking")
             \/ GoTo(t, "gone")
    <3>1. Ahead
      BY <2>1, <2>3 DEF Ahead, GoTo, Shape, Seeking
    <3> QED BY <1>1, <2>1, <3>1
  <2> QED BY <1>4, <2>2, <2>3 DEF FindBusy, ReadLock, LeaveLock, RemoveLock, GiveUp
<1>5. CASE \E p \in Procs : AcquireStep(p) \/ BeatStep(p) \/ ReleaseStep(p) \/ Crash(p)
  BY <1>1, <1>5, ProcessStepWithin
<1>6. ASSUME NEW k \in Tokens, Expire(k) PROVE Judged' /\ Spent'
  <2>1. /\ UNCHANGED <<lock, saw, tomb, at, calls>> /\ expired' = expired \cup {k}
        /\ k = lock \/ \E u \in Threads : k = tomb[u]
    BY <1>6 DEF Expire, breaker
  <2>2. Used(k)
    BY <2>1 DEF Spent
  <2> QED BY <2>1, <2>2 DEF Judged, Spent, Used
<1>7. CASE Age \/ UNCHANGED vars
  <2>1. UNCHANGED <<lock, expired, saw, tomb, at, calls>>
    BY <1>7 DEF Age, vars, files, breaker
  <2> QED BY <2>1 DEF Judged, Spent, Used
<1> QED BY <1>2, <1>3, <1>4, <1>5, <1>6, <1>7 DEF Next, LockStep

\* The invariant: IInv with what the lock, the types and the breakers need.
LeaseInv == IInv /\ Frame /\ (Calm => Excluded)

LEMMA LeaseInvariant == Spec => []LeaseInv
<1>1. Init => LeaseInv
  <2> SUFFICES ASSUME Init PROVE LeaseInv
    OBVIOUS
  <2>1. IInv /\ KeeperLater
    BY InitHolds, Goroutines DEF Init, KeeperLater
  <2>2. /\ lock \in {OldLock, NoLock} /\ expired = {}
        /\ faults = 0 /\ late = FALSE /\ usurped = FALSE
    BY DEF Init
  <2>3. /\ saw = [t \in Threads |-> NoLock] /\ tomb = [t \in Threads |-> NoLock]
        /\ \A t \in Threads : at[t] = "off"
    BY DEF Init
  <2>4. LockTyped
    <3>1. faults \in 0 .. MaxFaults
      BY <2>2, LeaseConstants
    <3>2. saw \in [Threads -> Tokens \cup {NoLock}] /\ tomb \in [Threads -> Tokens \cup {NoLock}]
      BY <2>3
    <3> QED BY <2>2, <3>1, <3>2 DEF LockTyped, Tokens
  <2>5. Breakers /\ Judged
    BY <2>3 DEF Breakers, Judged
  <2>6. Spent
    <3>1. Used(NoLock)
      BY NoLockIsNoToken DEF Used, Tokens
    <3>2. Used(OldLock)
      BY LeaseConstants DEF Used, OldLock, Threads
    <3> QED BY <2>2, <2>3, <3>1, <3>2 DEF Spent
  <2>7. Excluded
    <3>1. \A t \in Threads : ~Away(t) /\ at[t] \notin Critical
      BY <2>3 DEF Away, Critical
    <3> QED BY <3>1 DEF Excluded, Inside, Lone
  <2> QED BY <2>1, <2>4, <2>5, <2>6, <2>7 DEF LeaseInv, Frame, IInv
<1>2. LeaseInv /\ [Next]_vars => LeaseInv'
  <2> SUFFICES ASSUME LeaseInv, [Next]_vars PROVE LeaseInv'
    OBVIOUS
  <2>1. IInv /\ Frame /\ (Calm => Excluded) /\ Shape /\ Progress
    BY DEF LeaseInv, IInv
  <2>2. Calm => Alone
    BY <2>1, ExcludedAlone
  <2>3. IInv'
    BY <2>1, <2>2, StepKeeps
  <2>4. LockTyped' /\ Breakers' /\ KeeperLater'
    <3>1. LockTyped /\ Breakers /\ KeeperLater
      BY <2>1 DEF Frame
    <3>2. CASE Next
      BY <2>1, <3>1, <3>2, LockStepTyped, ProcessStepTyped, LockStepBreakers, ProcessStepBreakers DEF Next
    <3>3. CASE UNCHANGED vars
      BY <3>1, <3>3 DEF LockTyped, Breakers, KeeperLater, vars, files, past, breaker
    <3> QED BY <3>2, <3>3
  <2>5. Judged' /\ Spent'
    BY <2>1, SpentKeeps
  <2>6. Calm' => Excluded'
    BY <2>1, CalmBefore, ExcludedKeeps DEF Frame
  <2> QED BY <2>3, <2>4, <2>5, <2>6 DEF LeaseInv, Frame, IInv
<1> QED BY <1>1, <1>2, PTL DEF Spec

\* The state keeps its type; a goroutine remembers a lock it judged or moved
\* exactly while it breaks one, for any number of starters, crashes and errors.
THEOREM LeaseTypeCorrect == Spec => []TypeOK
<1>1. LeaseInv => TypeOK
  BY TypeParts DEF LeaseInv, Frame
<1> QED BY <1>1, LeaseInvariant, PTL

\* For any number of starters, crashes, I/O errors and old locks that are
\* broken: until a live process is suspended for a whole window or the lock is
\* taken while a breaker has moved the wrong one aside, AcquireLease admits one
\* owner at a time and the lock makes the check and the change of the lease one
\* step: there is one verdict at a time, and the lease file names every process
\* that holds it.
THEOREM LeaseIsSound == Spec => []SoundUntilUsurped
<1>1. LeaseInv => SoundUntilUsurped
  <2> SUFFICES ASSUME LeaseInv, Calm PROVE OneOwner /\ LockExcludes
    BY DEF SoundUntilUsurped, Calm
  <2>1. Alone /\ Named
    BY ExcludedAlone DEF LeaseInv, IInv
  <2> QED BY <2>1 DEF OneOwner, LockExcludes, Named, Alone, Critical
<1> QED BY <1>1, LeaseInvariant, PTL

\* The remove of unlockLease follows its reading of the lock in a second step,
\* and takes its own lock or none, whatever breakers moved aside and put back
\* in between: the one that is unlocking is the only one inside, and no other
\* lock can be at the path.
THEOREM UnlockTakesItsOwn == Spec => OwnLockOnly
<1>1. ASSUME LeaseInv
      PROVE  [~late /\ ~usurped => \A t \in Threads : at[t] = "unlocking" /\ at'[t] # "unlocking" =>
                 lock \in {Token(t), NoLock}]_vars
  <2> SUFFICES ASSUME Calm, NEW t \in Threads, at[t] = "unlocking" PROVE lock \in {Token(t), NoLock}
    BY DEF Calm
  <2>1. Inside /\ Lone
    BY <1>1 DEF LeaseInv, Excluded
  <2> QED BY <2>1 DEF Inside, Lone, Critical
<1> QED BY <1>1, LeaseInvariant, PTL DEF OwnLockOnly

\* The steps that change the name in the lease.
LEMMA LeaseWriters ==
  ASSUME [Next]_vars, lease' # lease
  PROVE  \E p \in Procs : WriteLease(p) \/ BeatWrites(p) \/ ReleaseRemoves(p)
<1>1. ASSUME NEW t \in Threads, LockStep(t) PROVE FALSE
  BY <1>1 DEF LockStep, TakeLock, FindBusy, JudgeStale, MoveAside, PutBack, ReadLock, LeaveLock,
              RemoveLock, GiveUp, files
<1>2. ASSUME NEW p \in Procs, AcquireStep(p) PROVE WriteLease(p)
  BY <1>2 DEF AcquireStep, Start, Recheck, WriteFails, files
<1>3. ASSUME NEW p \in Procs, BeatStep(p) PROVE BeatWrites(p)
  BY <1>3 DEF BeatStep, Tick, BeatVerifies, BeatDenied, BeatFails, files
<1>4. ASSUME NEW p \in Procs, ReleaseStep(p) PROVE ReleaseRemoves(p)
  BY <1>4 DEF ReleaseStep, Stop, KeeperStops, Leave, ReleaseVerifies, ReleaseDenied, files
<1>5. ~((\E p \in Procs : Crash(p)) \/ (\E k \in Tokens : Expire(k)) \/ Age \/ UNCHANGED vars)
  BY DEF Crash, Expire, Age, vars, files
<1> QED BY <1>1, <1>2, <1>3, <1>4, <1>5 DEF Next

\* Release verifies and removes the lease in two steps, and a beat or an
\* acquirer rewrites it in a third: still nobody removes the lease of another.
THEOREM ReleaseSparesReclaimers == Spec => OwnLeaseOnly
<1>1. ASSUME LeaseInv, [Next]_vars, Calm, lease # NoProc, lease' = NoProc
      PROVE  lease \in Procs /\ at[Main(lease)] = "writing"
  <2>1. PICK p \in Procs : WriteLease(p) \/ BeatWrites(p) \/ ReleaseRemoves(p)
    BY <1>1, LeaseWriters
  <2>2. ReleaseRemoves(p)
    BY <1>1, <2>1, LeaseConstants DEF WriteLease, BeatWrites
  <2> QED BY <1>1, <2>2 DEF LeaseInv, IInv, Verdicts, ReleaseRemoves
<1> QED BY <1>1, LeaseInvariant, PTL DEF Spec, OwnLeaseOnly, Calm

\* A starter reads the lease twice, and a beat verifies it, before they write:
\* still a lease passes from one process to another only when it is stale.
THEOREM FreshLeaseStays == Spec => FreshStays
<1>1. ASSUME LeaseInv, [Next]_vars, Calm, lease \in Procs, lease' \notin {lease, NoProc}
      PROVE  aged
  <2>1. PICK p \in Procs : WriteLease(p) \/ BeatWrites(p) \/ ReleaseRemoves(p)
    BY <1>1, LeaseWriters
  <2>2. CASE WriteLease(p)
    BY <1>1, <2>2, LeaseConstants DEF LeaseInv, IInv, Verdicts, Free, WriteLease
  <2>3. CASE BeatWrites(p)
    BY <1>1, <2>3 DEF LeaseInv, IInv, Progress, Verdicts, Named, Holds, BeatWrites
  <2> QED BY <1>1, <2>1, <2>2, <2>3 DEF ReleaseRemoves
<1> QED BY <1>1, LeaseInvariant, PTL DEF Spec, FreshStays, Calm

-----------------------------------------------------------------------------
\* Before its process wrote the lease, a main goroutine has no standing.
NotYet ==
  \A p \in Procs :
    calls[Main(p)] = 1 /\ at[Main(p)] \in {"want", "waiting", "breaking", "tombed", "inside", "writing"}
      => standing[p] = "none"

\* A step of p that changes no standing but its own, and its own only when p is
\* past its start.
LEMMA NotYetKeeps ==
  ASSUME LeaseInv, NotYet, [Next]_vars PROVE NotYet'
<1> USE Goroutines DEF LeaseInv, Frame, IInv, Shape, files, past, breaker
<1>1. ASSUME NEW t \in Threads, LockStep(t) PROVE NotYet'
  <2>1. CASE TakeLock(t) \/ FindBusy(t) \/ JudgeStale(t) \/ MoveAside(t) \/ PutBack(t) \/ ReadLock(t)
    BY <2>1 DEF TakeLock, FindBusy, JudgeStale, MoveAside, PutBack, ReadLock, GoTo, NotYet
  <2>2. CASE Return(t) /\ UNCHANGED <<calls, standing>>
    BY <2>2 DEF Return, GoTo, NotYet
  <2>3. CASE GiveUp(t) /\ ~(Return(t) /\ UNCHANGED standing)
    <3>1. at[t] = "waiting" /\ t = Keeper(t[1]) /\ Lose(t[1]) /\ GoTo(t, "gone") /\ UNCHANGED calls
      BY <2>3 DEF GiveUp
    <3>2. ~(calls[Main(t[1])] = 1 /\ at[Main(t[1])] \notin {"serving", "gone"})
      BY <3>1 DEF KeeperLater
    <3> QED BY <3>1, <3>2 DEF Lose, GoTo, NotYet
  <2> QED BY <1>1, <2>1, <2>2, <2>3 DEF LockStep, LeaveLock, RemoveLock, GiveUp
<1>2. ASSUME NEW p \in Procs, AcquireStep(p) PROVE NotYet'
  BY <1>2 DEF AcquireStep, Start, Recheck, WriteLease, WriteFails, Call, GoTo, Progress, NotYet
<1>3. ASSUME NEW p \in Procs, BeatStep(p) PROVE NotYet'
  <2>1. at[Keeper(p)] \in {"serving", "inside", "writing"}
    BY <1>3 DEF BeatStep, Tick, BeatVerifies, BeatDenied, BeatWrites, BeatFails
  <2>2. ~(calls[Main(p)] = 1 /\ at[Main(p)] \notin {"serving", "gone"})
    BY <2>1 DEF KeeperLater
  <2>3. /\ \A q \in Procs : calls'[Main(q)] = calls[Main(q)] /\ at'[Main(q)] = at[Main(q)]
        /\ \A q \in Procs \ {p} : standing'[q] = standing[q]
    BY <1>3 DEF BeatStep, Tick, BeatVerifies, BeatDenied, BeatWrites, BeatFails, Call, GoTo, Lose
  <2> QED BY <2>2, <2>3 DEF NotYet
<1>4. ASSUME NEW p \in Procs, ReleaseStep(p) PROVE NotYet'
  BY <1>4 DEF ReleaseStep, Stop, KeeperStops, Leave, ReleaseVerifies, ReleaseDenied, ReleaseRemoves,
              Call, GoTo, Lose, Exit, Progress, NotYet
<1>5. ASSUME NEW p \in Procs, Crash(p) PROVE NotYet'
  BY <1>5 DEF Crash, Exit, NotYet
<1>6. CASE (\E k \in Tokens : Expire(k)) \/ Age \/ UNCHANGED vars
  <2>1. UNCHANGED <<at, calls, standing>>
    BY <1>6 DEF Expire, Age, vars
  <2> QED BY <2>1 DEF NotYet
<1> QED BY <1>1, <1>2, <1>3, <1>4, <1>5, <1>6 DEF Next

\* What the lease's own specification sees of a process.
Outlook(p) == IF at[Main(p)] = "gone" THEN "lost" ELSE standing[p]
Abstract == Authority!LeaseNext \/ UNCHANGED Authority!lvars

\* A step that leaves the file, after which one process at most is out.
LEMMA AtMostLeaves ==
  ASSUME UNCHANGED <<lease, aged>>, NEW p \in Procs,
         \A q \in Procs \ {p} : Outlook(q)' = Outlook(q), Outlook(p)' \in {Outlook(p), "lost"}
  PROVE  Abstract
<1> DEFINE bar == [q \in Procs |-> Outlook(q)]
<1>1. bar' = bar \/ (bar[p] # "lost" /\ bar' = [bar EXCEPT ![p] = "lost"])
  OBVIOUS
<1>2. CASE bar' = bar
  BY <1>2 DEF Abstract, Authority!lvars, Outlook
<1>3. CASE bar[p] # "lost" /\ bar' = [bar EXCEPT ![p] = "lost"]
  <2>1. Authority!Leave(p)
    BY <1>3 DEF Authority!Leave, Outlook
  <2> QED BY <2>1 DEF Abstract, Authority!LeaseNext
<1> QED BY <1>1, <1>2, <1>3

LEMMA OneTakes ==
  ASSUME NEW p \in Procs, Outlook(p)' = "held", \A q \in Procs \ {p} : Outlook(q)' = Outlook(q)
  PROVE  [q \in Procs |-> Outlook(q)]' = [[q \in Procs |-> Outlook(q)] EXCEPT ![p] = "held"]
<1> DEFINE bar == [q \in Procs |-> Outlook(q)]
<1>1. bar' = [bar EXCEPT ![p] = "held"]
  OBVIOUS
<1> QED BY <1>1

\* A step that leaves the file and everybody's standing.
LEMMA NobodyLeaves ==
  ASSUME UNCHANGED <<lease, aged>>, \A q \in Procs : Outlook(q)' = Outlook(q)
  PROVE  Abstract
<1>1. [q \in Procs |-> Outlook(q)]' = [q \in Procs |-> Outlook(q)]
  OBVIOUS
<1> QED BY <1>1 DEF Abstract, Authority!lvars, Outlook

LEMMA LockStepAbstract ==
  ASSUME LeaseInv, NEW t \in Threads, LockStep(t) PROVE Abstract
<1> USE Goroutines DEF LeaseInv, Frame, IInv, Shape, files, past, breaker
<1>0. UNCHANGED <<lease, aged>>
  BY DEF LockStep, TakeLock, FindBusy, JudgeStale, MoveAside, PutBack, ReadLock, LeaveLock, RemoveLock,
         GiveUp
<1>1. CASE TakeLock(t) \/ FindBusy(t) \/ JudgeStale(t) \/ MoveAside(t) \/ PutBack(t) \/ ReadLock(t)
  <2>1. \A q \in Procs : Outlook(q)' = Outlook(q)
    BY <1>1 DEF TakeLock, FindBusy, JudgeStale, MoveAside, PutBack, ReadLock, GoTo, Outlook
  <2> QED BY <1>0, <2>1, NobodyLeaves
<1>2. CASE Return(t) /\ UNCHANGED standing /\ at[t] \in {"unlock", "unlocking", "waiting"}
  <2>1. \A q \in Procs : at'[Main(q)] = "gone" <=> at[Main(q)] = "gone"
    BY <1>2 DEF Return, GoTo
  <2>2. \A q \in Procs : Outlook(q)' = Outlook(q)
    BY <1>2, <2>1 DEF Outlook
  <2> QED BY <1>0, <2>2, NobodyLeaves
<1>3. CASE GiveUp(t) /\ ~(Return(t) /\ UNCHANGED standing)
  <2>1. t = Keeper(t[1]) /\ Lose(t[1]) /\ GoTo(t, "gone")
    BY <1>3 DEF GiveUp
  <2>2. /\ \A q \in Procs \ {t[1]} : Outlook(q)' = Outlook(q)
        /\ Outlook(t[1])' \in {Outlook(t[1]), "lost"}
    BY <2>1 DEF Lose, GoTo, Outlook
  <2> QED BY <1>0, <2>2, AtMostLeaves
<1> QED BY <1>1, <1>2, <1>3 DEF LockStep, LeaveLock, RemoveLock, GiveUp

LEMMA AcquireAbstract ==
  ASSUME LeaseInv, NotYet, Calm, NEW p \in Procs, AcquireStep(p) PROVE Abstract
<1> USE Goroutines DEF LeaseInv, Frame, IInv, Shape, files, past, breaker
<1>1. CASE Start(p)
  <2>1. /\ \A q \in Procs \ {p} : Outlook(q)' = Outlook(q)
        /\ Outlook(p)' \in {Outlook(p), "lost"}
    BY <1>1 DEF Start, Call, GoTo, Outlook
  <2> QED BY <1>1, <2>1, AtMostLeaves DEF Start
<1>2. CASE Recheck(p) \/ WriteFails(p)
  <2>1. \A q \in Procs : Outlook(q)' = Outlook(q)
    BY <1>2 DEF Recheck, WriteFails, GoTo, Outlook
  <2> QED BY <1>2, <2>1, NobodyLeaves DEF Recheck, WriteFails
<1>3. CASE WriteLease(p)
  <2>1. Free /\ standing[p] = "none"
    BY <1>3 DEF WriteLease, Verdicts, NotYet
  <2>2. /\ Outlook(p) = "none" /\ Outlook(p)' = "held"
        /\ \A q \in Procs \ {p} : Outlook(q)' = Outlook(q)
    BY <1>3, <2>1 DEF WriteLease, GoTo, Outlook
  <2>3. [q \in Procs |-> Outlook(q)]' = [[q \in Procs |-> Outlook(q)] EXCEPT ![p] = "held"]
    BY <2>2, OneTakes
  <2>4. Authority!Acquire(p)
    BY <1>3, <2>1, <2>2, <2>3 DEF WriteLease, Authority!Acquire, Authority!Free, Free, Outlook
  <2> QED BY <2>4 DEF Abstract, Authority!LeaseNext
<1> QED BY <1>1, <1>2, <1>3 DEF AcquireStep

LEMMA BeatAbstract ==
  ASSUME LeaseInv, Calm, NEW p \in Procs, BeatStep(p) PROVE Abstract
<1> USE Goroutines DEF LeaseInv, Frame, IInv, Shape, files, past, breaker
<1>1. CASE Tick(p) \/ BeatVerifies(p)
  <2>1. \A q \in Procs : Outlook(q)' = Outlook(q)
    BY <1>1 DEF Tick, BeatVerifies, Call, GoTo, Outlook
  <2> QED BY <1>1, <2>1, NobodyLeaves DEF Tick, BeatVerifies
<1>2. CASE BeatDenied(p) \/ BeatFails(p)
  <2>1. /\ \A q \in Procs \ {p} : Outlook(q)' = Outlook(q)
        /\ Outlook(p)' \in {Outlook(p), "lost"}
    BY <1>2 DEF BeatDenied, BeatFails, Lose, GoTo, Outlook
  <2> QED BY <1>2, <2>1, AtMostLeaves DEF BeatDenied, BeatFails
<1>3. CASE BeatWrites(p)
  <2>1. lease = p /\ ~aged
    BY <1>3 DEF BeatWrites, Progress, Verdicts, Named, Holds
  <2>2. \A q \in Procs : Outlook(q)' = Outlook(q)
    BY <1>3 DEF BeatWrites, GoTo, Outlook
  <2>3. UNCHANGED <<lease, aged>>
    BY <1>3, <2>1 DEF BeatWrites
  <2> QED BY <2>2, <2>3, NobodyLeaves
<1> QED BY <1>1, <1>2, <1>3 DEF BeatStep

LEMMA ReleaseAbstract ==
  ASSUME LeaseInv, Calm, NEW p \in Procs, ReleaseStep(p) \/ Crash(p) PROVE Abstract
<1> USE Goroutines DEF LeaseInv, Frame, IInv, Shape, files, past, breaker
<1>1. CASE Stop(p) \/ KeeperStops(p) \/ ReleaseDenied(p)
  <2>1. \A q \in Procs : Outlook(q)' = Outlook(q)
    BY <1>1 DEF Stop, KeeperStops, ReleaseDenied, Call, GoTo, Outlook
  <2> QED BY <1>1, <2>1, NobodyLeaves DEF Stop, KeeperStops, ReleaseDenied
<1>2. CASE ReleaseVerifies(p)
  <2>1. /\ \A q \in Procs \ {p} : Outlook(q)' = Outlook(q)
        /\ Outlook(p)' \in {Outlook(p), "lost"}
    BY <1>2 DEF ReleaseVerifies, Lose, GoTo, Outlook
  <2> QED BY <1>2, <2>1, AtMostLeaves DEF ReleaseVerifies
<1>3. CASE Leave(p) \/ Crash(p)
  <2>1. /\ \A q \in Procs \ {p} : Outlook(q)' = Outlook(q)
        /\ Outlook(p)' \in {Outlook(p), "lost"}
    BY <1>3 DEF Leave, Crash, Exit, Outlook
  <2> QED BY <1>3, <2>1, AtMostLeaves DEF Leave, Crash
<1>4. CASE ReleaseRemoves(p)
  <2>1. lease = p /\ standing[p] = "lost"
    BY <1>4 DEF ReleaseRemoves, Verdicts
  <2>2. Outlook(p) = "lost" /\ \A q \in Procs : Outlook(q)' = Outlook(q)
    BY <1>4, <2>1 DEF ReleaseRemoves, GoTo, Outlook
  <2>3. [q \in Procs |-> Outlook(q)]' = [q \in Procs |-> Outlook(q)]
    BY <2>2
  <2>4. Authority!Drop(p)
    BY <1>4, <2>1, <2>2, <2>3 DEF ReleaseRemoves, Authority!Drop, Outlook
  <2> QED BY <2>4 DEF Abstract, Authority!LeaseNext
<1> QED BY <1>1, <1>2, <1>3, <1>4 DEF ReleaseStep

\* The lease of a live holder does not age without a suspension.
LEMMA AgeAbstract ==
  ASSUME LeaseInv, Calm', Age PROVE Abstract
<1> USE DEF LeaseInv, Frame, IInv, Shape
<1>1. ~(lease \in Procs /\ Kept(lease))
  BY LapseCalms DEF Age
<1>2. lease \in Procs => Outlook(lease) # "held"
  BY <1>1 DEF Kept, Alive, Progress, Outlook
<1>3. [q \in Procs |-> Outlook(q)]' = [q \in Procs |-> Outlook(q)]
  BY DEF Age, Outlook
<1>4. Authority!Age
  BY <1>2, <1>3 DEF Age, Authority!Age, Outlook
<1> QED BY <1>4 DEF Abstract, Authority!LeaseNext

\* The protocol with its lock, its breakers, crashes and I/O errors takes,
\* keeps, loses and drops the lease only as LeaseAuthority says, for any number
\* of starters, until a live process is suspended for a whole window or the
\* lock is taken while a wrong one is moved aside.
THEOREM LeaseImplementsAuthority == Spec => ImplementsAuthority
<1>1. Init => Authority!LeaseInit
  BY Goroutines DEF Init, Authority!LeaseInit
<1>2. Init => NotYet
  BY Goroutines DEF Init, NotYet
<1>3. ASSUME LeaseInv, NotYet, [Next]_vars
      PROVE  [late' \/ usurped' \/ Authority!LeaseNext \/ UNCHANGED Authority!lvars]_vars
  <2>1. SUFFICES ASSUME Next, Calm' PROVE Abstract
    BY <1>3 DEF Abstract, Calm
  <2>2. Calm
    BY <1>3, <2>1, CalmBefore DEF LeaseInv, Frame
  <2>3. CASE \E k \in Tokens : Expire(k)
    <3>1. UNCHANGED <<lease, aged, at, standing>>
      BY <2>3 DEF Expire
    <3> QED BY <3>1, NobodyLeaves DEF Outlook
  <2>4. CASE Age
    BY <1>3, <2>1, <2>4, AgeAbstract
  <2>5. CASE \E t \in Threads : LockStep(t)
    BY <1>3, <2>5, LockStepAbstract
  <2>6. CASE \E p \in Procs : AcquireStep(p) \/ BeatStep(p) \/ ReleaseStep(p) \/ Crash(p)
    BY <1>3, <2>2, <2>6, AcquireAbstract, BeatAbstract, ReleaseAbstract
  <2> QED BY <2>1, <2>3, <2>4, <2>5, <2>6 DEF Next
<1> QED BY <1>1, <1>2, <1>3, NotYetKeeps, LeaseInvariant, PTL DEF Spec, ImplementsAuthority

=============================================================================

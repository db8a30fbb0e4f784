---------------------------- MODULE WriterLease ----------------------------
(***************************************************************************)
(* The single-owner lease of the project daemon (core/daemon/lease*.go).   *)
(* A daemon process takes the lease file under a lock file created with    *)
(* O_EXCL, refreshes it from a keeper goroutine, and removes it when it    *)
(* stops.  A lease or a lock whose recorded time is too old is free to     *)
(* reclaim or to break.                                                    *)
(*                                                                         *)
(* Every process lives once.  Its main goroutine calls lockLease at most   *)
(* twice, in AcquireLease and in Release; its keeper calls it once a beat. *)
(* Each system call on a shared file is a step of its own.  The content of *)
(* the lock file is the call that wrote it, so that two locks of one       *)
(* process differ as their random tokens do.  Time is the nondeterministic *)
(* passing of the two windows.                                             *)
(***************************************************************************)
EXTENDS Naturals, FiniteSets

CONSTANTS
  Procs,      \* daemon processes, each started by some launcher
  Past,       \* the owner of what an earlier daemon left behind
  Timely,     \* no live process is suspended for a whole window, and the
              \* hosts' clocks agree
  Leftovers,  \* what may be on disk at the start: {"lock", "lease"} or less
  MaxCalls,   \* bound: lock calls of one keeper
  MaxFaults,  \* bound: crashes and I/O errors in one behaviour
  NoProc, NoLock

ASSUME LeaseConstants ==
  /\ Timely \in BOOLEAN
  /\ Leftovers \subseteq {"lock", "lease"}
  /\ MaxCalls \in Nat /\ MaxFaults \in Nat
  /\ Past \notin Procs /\ NoProc \notin Procs /\ Past # NoProc

Threads == Procs \X {"main", "keeper"}
Main(p) == <<p, "main">>
Keeper(p) == <<p, "keeper">>
Other(t) == IF t[2] = "main" THEN Keeper(t[1]) ELSE Main(t[1])

OldLock == <<<<Past, "main">>, 1>>
Tokens == (Threads \X (0 .. MaxCalls + 2)) \cup {OldLock}

ASSUME NoLockIsNoToken == NoLock \notin Tokens

VARIABLES
  lease,    \* the owner writer.lease.pid names
  aged,     \* its heartbeat is older than the stale window
  lock,     \* the content of writer.lease.lock
  expired,  \* lock contents older than lockStaleAfter
  at,       \* per goroutine: the next step
  calls,    \* per goroutine: calls of lockLease so far
  saw,      \* per goroutine: the stale lock it judged
  tomb,     \* per goroutine: what it moved aside
  standing, \* per process: "none" before AcquireLease wrote the record, then
            \* "held" until the process finds the lease lost or releases it
  faults,
  late,     \* history: a live process was suspended for a whole window
  usurped   \* history: the lock was taken while one that its breaker had not
            \* judged was away from the path

files   == <<lease, aged, lock, expired>>
breaker == <<saw, tomb>>
past    == <<faults, late, usurped>>
vars == <<files, at, calls, breaker, standing, past>>

Critical == {"inside", "writing", "unlock", "unlocking"}
PCs == {"off", "want", "waiting", "breaking", "tombed", "serving", "leaving",
        "gone"} \cup Critical

TypeOK ==
  /\ lease \in Procs \cup {Past, NoProc} /\ aged \in BOOLEAN
  /\ lock \in Tokens \cup {NoLock} /\ expired \subseteq Tokens
  /\ at \in [Threads -> PCs]
  /\ calls \in [Threads -> 0 .. MaxCalls + 2]
  /\ saw \in [Threads -> Tokens \cup {NoLock}]
  /\ tomb \in [Threads -> Tokens \cup {NoLock}]
  /\ standing \in [Procs -> {"none", "held", "lost"}]
  /\ faults \in 0 .. MaxFaults /\ late \in BOOLEAN /\ usurped \in BOOLEAN
  /\ \A t \in Threads : at[t] # "gone" =>
       /\ saw[t] # NoLock <=> at[t] \in {"breaking", "tombed"}
       /\ tomb[t] # NoLock <=> at[t] = "tombed"

Init ==
  /\ lease \in {NoProc} \cup (IF "lease" \in Leftovers THEN {Past} ELSE {})
  /\ lock \in {NoLock} \cup (IF "lock" \in Leftovers THEN {OldLock} ELSE {})
  /\ aged = FALSE /\ expired = {}
  /\ at = [t \in Threads |-> "off"] /\ calls = [t \in Threads |-> 0]
  /\ saw = [t \in Threads |-> NoLock] /\ tomb = [t \in Threads |-> NoLock]
  /\ standing = [p \in Procs |-> "none"]
  /\ faults = 0 /\ late = FALSE /\ usurped = FALSE

Alive(p) == at[Main(p)] \notin {"off", "gone"}
Token(t) == <<t, calls[t]>>
GoTo(t, s) == at' = [at EXCEPT ![t] = s]
Fault == faults < MaxFaults /\ faults' = faults + 1 /\ UNCHANGED <<late, usurped>>

\* The end of a process stops its keeper, whatever that is doing; the files
\* stay as they are.
Exit(p) == at' = [at EXCEPT ![Main(p)] = "gone", ![Keeper(p)] = "gone"]

-----------------------------------------------------------------------------
(* Time and death *)

\* A process that is alive and busy was suspended for a whole window.
Lapse(busy) ==
  IF busy THEN /\ ~Timely /\ faults < MaxFaults
               /\ faults' = faults + 1 /\ late' = TRUE /\ UNCHANGED usurped
  ELSE UNCHANGED past

\* Code in the critical section is a read and a rename, far below the window.
Expire(k) ==
  /\ k \notin expired
  /\ k = lock \/ \E t \in Threads : k = tomb[t]
  /\ Lapse(\E t \in Threads : k = Token(t) /\ at[t] \in Critical)
  /\ expired' = expired \cup {k}
  /\ UNCHANGED <<lease, aged, lock, at, calls, breaker, standing>>

\* The window is six beats wide, so the lease of an owner that beats is fresh,
\* and it stays so while the owner releases it.
Kept(p) ==
  Alive(p) /\ (standing[p] = "held" \/ at[Main(p)] \in Critical)
Age ==
  /\ lease # NoProc /\ ~aged
  /\ Lapse(lease \in Procs /\ Kept(lease))
  /\ aged' = TRUE
  /\ UNCHANGED <<lease, lock, expired, at, calls, breaker, standing>>

Crash(p) ==
  /\ Alive(p) /\ Fault /\ Exit(p)
  /\ UNCHANGED <<files, calls, breaker, standing>>

-----------------------------------------------------------------------------
(* The lock file *)

Call(t) ==
  /\ calls' = [calls EXCEPT ![t] = @ + 1]
  /\ GoTo(t, "want")

\* A lock is away that was moved by mistake and may still be in use.
Astray == \E u \in Threads : tomb[u] \notin {NoLock, saw[u]}
NoteAstray == usurped' = (usurped \/ Astray) /\ UNCHANGED <<faults, late>>

\* Mutant: the lock file is created without O_EXCL.
TakeAnyway(t) ==
  /\ at[t] \in {"want", "waiting"}
  /\ lock' = Token(t)
  /\ GoTo(t, "inside") /\ NoteAstray
  /\ UNCHANGED <<lease, aged, expired, calls, breaker, standing>>

\* CreateExcl succeeds.
TakeLock(t) ==
  /\ at[t] \in {"want", "waiting"} /\ lock = NoLock
  /\ lock' = Token(t)
  /\ GoTo(t, "inside") /\ NoteAstray
  /\ UNCHANGED <<lease, aged, expired, calls, breaker, standing>>

\* Mutant: a lock is broken whatever its age.
JudgeAny(t) ==
  /\ at[t] \in {"want", "waiting"} /\ lock # NoLock
  /\ saw' = [saw EXCEPT ![t] = lock]
  /\ GoTo(t, "breaking")
  /\ UNCHANGED <<files, calls, tomb, standing, past>>

\* CreateExcl fails; breakStaleLock reads the lock and judges it stale.
JudgeStale(t) ==
  /\ at[t] \in {"want", "waiting"} /\ lock \in expired
  /\ saw' = [saw EXCEPT ![t] = lock]
  /\ GoTo(t, "breaking")
  /\ UNCHANGED <<files, calls, tomb, standing, past>>

\* CreateExcl fails; the lock is fresh.
FindBusy(t) ==
  /\ at[t] = "want" /\ lock \notin expired \cup {NoLock}
  /\ GoTo(t, "waiting")
  /\ UNCHANGED <<files, calls, breaker, standing, past>>

\* breakStaleLock moves whatever is at the path by now to a private name.
MoveAside(t) ==
  /\ at[t] = "breaking"
  /\ tomb' = [tomb EXCEPT ![t] = lock]
  /\ lock' = NoLock
  /\ IF lock = NoLock
     THEN GoTo(t, "waiting") /\ saw' = [saw EXCEPT ![t] = NoLock]
     ELSE GoTo(t, "tombed") /\ UNCHANGED saw
  /\ UNCHANGED <<lease, aged, expired, calls, standing, past>>

\* Mutant: what was moved aside stays there under its private name.
PutBackLeavesTomb(t) ==
  /\ at[t] = "tombed"
  /\ lock' = IF tomb[t] # saw[t] /\ lock = NoLock THEN tomb[t] ELSE lock
  /\ saw' = [saw EXCEPT ![t] = NoLock]
  /\ GoTo(t, "waiting")
  /\ UNCHANGED <<lease, aged, expired, calls, tomb, standing, past>>

\* It looks at what it moved and links a lock it did not judge back, which
\* fails when the path is taken again; then it removes the private name.
PutBack(t) ==
  /\ at[t] = "tombed"
  /\ lock' = IF tomb[t] # saw[t] /\ lock = NoLock THEN tomb[t] ELSE lock
  /\ tomb' = [tomb EXCEPT ![t] = NoLock] /\ saw' = [saw EXCEPT ![t] = NoLock]
  /\ GoTo(t, "waiting")
  /\ UNCHANGED <<lease, aged, expired, calls, standing, past>>

\* unlockLease reads the file ...
ReadLock(t) ==
  /\ at[t] = "unlock" /\ lock = Token(t)
  /\ GoTo(t, "unlocking")
  /\ UNCHANGED <<files, calls, breaker, standing, past>>

\* What follows a call of lockLease, whether it got the lock or not.
Return(t) ==
  CASE t[2] = "keeper" ->
         GoTo(t, IF standing[t[1]] = "held" THEN "serving" ELSE "gone")
    [] t[2] = "main" /\ calls[t] = 1 /\ standing[t[1]] = "held" ->
         at' = [at EXCEPT ![t] = "serving", ![Keeper(t[1])] = "serving"]
    [] OTHER -> GoTo(t, "leaving")

\* ... leaves a lock that is not its own ...
LeaveLock(t) ==
  /\ at[t] = "unlock" /\ lock # Token(t)
  /\ Return(t)
  /\ UNCHANGED <<files, calls, breaker, standing, past>>

\* ... and otherwise removes what is at the path.
RemoveLock(t) ==
  /\ at[t] = "unlocking"
  /\ lock' = NoLock
  /\ Return(t)
  /\ UNCHANGED <<lease, aged, expired, calls, breaker, standing, past>>

-----------------------------------------------------------------------------
(* The lease file *)

Free == lease = NoProc \/ aged

\* Verify: a read error other than "missing" keeps the last known answer.
Verified(p) ==
  /\ standing[p] # "lost"
  /\ \/ lease = p /\ UNCHANGED past
     \/ lease # p /\ lease # NoProc /\ Fault
Denied(p) == standing[p] = "lost" \/ lease # p

Lose(p) == standing' = [standing EXCEPT ![p] = "lost"]

\* AcquireLease inspects the lease first, without the lock.
Start(p) ==
  /\ at[Main(p)] = "off"
  /\ IF Free THEN Call(Main(p)) ELSE GoTo(Main(p), "gone") /\ UNCHANGED calls
  /\ UNCHANGED <<files, breaker, standing, past>>

\* Mutant: the reading made without the lock is trusted.
RecheckNothing(p) ==
  /\ at[Main(p)] = "inside" /\ calls[Main(p)] = 1
  /\ GoTo(Main(p), "writing")
  /\ UNCHANGED <<files, calls, breaker, standing, past>>

\* Under the lock it inspects again and replaces the file with its record.
Recheck(p) ==
  /\ at[Main(p)] = "inside" /\ calls[Main(p)] = 1
  /\ GoTo(Main(p), IF Free THEN "writing" ELSE "unlock")
  /\ UNCHANGED <<files, calls, breaker, standing, past>>

WriteLease(p) ==
  /\ at[Main(p)] = "writing" /\ calls[Main(p)] = 1
  /\ lease' = p /\ aged' = FALSE
  /\ standing' = [standing EXCEPT ![p] = "held"]
  /\ GoTo(Main(p), "unlock")
  /\ UNCHANGED <<lock, expired, calls, breaker, past>>

WriteFails(p) ==
  /\ at[Main(p)] = "writing" /\ calls[Main(p)] = 1 /\ Fault
  /\ GoTo(Main(p), "unlock")
  /\ UNCHANGED <<files, calls, breaker, standing>>

\* beat
Tick(p) ==
  /\ at[Keeper(p)] = "serving" /\ calls[Keeper(p)] < MaxCalls
  /\ Call(Keeper(p))
  /\ UNCHANGED <<files, breaker, standing, past>>

\* Mutant: a beat refreshes the lease without a look at it.
BeatBlindly(p) ==
  /\ at[Keeper(p)] = "inside"
  /\ GoTo(Keeper(p), "writing")
  /\ UNCHANGED <<files, calls, breaker, standing, past>>

BeatVerifies(p) ==
  /\ at[Keeper(p)] = "inside" /\ Verified(p)
  /\ GoTo(Keeper(p), "writing")
  /\ UNCHANGED <<files, calls, breaker, standing>>

\* (the loss is recorded here; the code does it once the lock is back)
BeatDenied(p) ==
  /\ at[Keeper(p)] = "inside" /\ Denied(p)
  /\ Lose(p) /\ GoTo(Keeper(p), "unlock")
  /\ UNCHANGED <<files, calls, breaker, past>>

BeatWrites(p) ==
  /\ at[Keeper(p)] = "writing"
  /\ lease' = p /\ aged' = FALSE
  /\ GoTo(Keeper(p), "unlock")
  /\ UNCHANGED <<lock, expired, calls, breaker, standing, past>>

\* A failed rewrite leaves the verdict to another Verify, which the same error
\* may blind.
BeatFails(p) ==
  /\ at[Keeper(p)] = "writing" /\ Fault
  /\ (Denied(p) /\ Lose(p)) \/ UNCHANGED standing
  /\ GoTo(Keeper(p), "unlock")
  /\ UNCHANGED <<files, calls, breaker>>

\* A signal, idleness or a lost lease ends Serve; Release comes next.  It
\* cancels the keeper, which stops at its ticker but not inside a beat.
Stop(p) ==
  /\ at[Main(p)] = "serving"
  /\ Call(Main(p))
  /\ UNCHANGED <<files, breaker, standing, past>>

KeeperStops(p) ==
  /\ at[Keeper(p)] = "serving" /\ calls[Main(p)] = 2
  /\ GoTo(Keeper(p), "gone")
  /\ UNCHANGED <<files, calls, breaker, standing, past>>

\* The return of the main goroutine ends the process.
Leave(p) ==
  /\ at[Main(p)] = "leaving" /\ Exit(p)
  /\ UNCHANGED <<files, calls, breaker, standing, past>>

ReleaseVerifies(p) ==
  /\ at[Main(p)] = "inside" /\ calls[Main(p)] = 2 /\ Verified(p)
  /\ Lose(p) /\ GoTo(Main(p), "writing")
  /\ UNCHANGED <<files, calls, breaker>>

ReleaseDenied(p) ==
  /\ at[Main(p)] = "inside" /\ calls[Main(p)] = 2 /\ Denied(p)
  /\ GoTo(Main(p), "unlock")
  /\ UNCHANGED <<files, calls, breaker, standing, past>>

ReleaseRemoves(p) ==
  /\ at[Main(p)] = "writing" /\ calls[Main(p)] = 2
  /\ lease' = NoProc /\ aged' = FALSE
  /\ GoTo(Main(p), "unlock")
  /\ UNCHANGED <<lock, expired, calls, breaker, standing, past>>

\* The lock was not had within the budget, of which the first attempt never
\* is the end: an acquirer exits, a beat is skipped if the lease still names the
\* process, a release leaves the file.
GiveUp(t) ==
  /\ at[t] = "waiting"
  /\ \/ t[2] = "main" /\ Return(t) /\ UNCHANGED <<standing, past>>
     \/ t[2] = "keeper" /\ Verified(t[1]) /\ Return(t) /\ UNCHANGED standing
     \/ /\ t[2] = "keeper" /\ Denied(t[1]) /\ Lose(t[1])
        /\ GoTo(t, "gone") /\ UNCHANGED past
  /\ UNCHANGED <<files, calls, breaker>>

-----------------------------------------------------------------------------

LockStep(t) ==
  \/ TakeLock(t) \/ FindBusy(t) \/ JudgeStale(t) \/ MoveAside(t) \/ PutBack(t)
  \/ ReadLock(t) \/ LeaveLock(t) \/ RemoveLock(t) \/ GiveUp(t)

AcquireStep(p) == Start(p) \/ Recheck(p) \/ WriteLease(p) \/ WriteFails(p)
BeatStep(p) ==
  \/ Tick(p) \/ BeatVerifies(p) \/ BeatDenied(p) \/ BeatWrites(p) \/ BeatFails(p)
ReleaseStep(p) ==
  \/ Stop(p) \/ KeeperStops(p) \/ Leave(p)
  \/ ReleaseVerifies(p) \/ ReleaseDenied(p) \/ ReleaseRemoves(p)

Next ==
  \/ \E t \in Threads : LockStep(t)
  \/ \E p \in Procs : AcquireStep(p) \/ BeatStep(p) \/ ReleaseStep(p) \/ Crash(p)
  \/ \E k \in Tokens : Expire(k)
  \/ Age

Spec == Init /\ [][Next]_vars

-----------------------------------------------------------------------------

Holds(p) == Alive(p) /\ standing[p] = "held"

\* At most one live process believes that it holds the lease: what
\* AcquireLease promises its callers.
OneOwner == \A p, q \in Procs : Holds(p) /\ Holds(q) => p = q

\* The lock excludes: at most one goroutine is between taking and returning
\* it, so that the check of the lease and the change of it are one step.
LockExcludes ==
  \A t, u \in Threads :
    at[t] \in {"inside", "writing"} /\ at[u] \in {"inside", "writing"} => t = u

\* Both hold, whatever crashed and whichever old locks were broken, until a
\* live process is suspended for a whole window or the lock is taken in the
\* moment in which a breaker has moved the wrong one aside.
SoundUntilUsurped == ~late /\ ~usurped => OneOwner /\ LockExcludes

\* unlockLease removes no lock but its own, whatever breakers did to the path
\* since it read it, under the same condition.
OwnLockOnly ==
  [][~late /\ ~usurped => \A t \in Threads : at[t] = "unlocking" /\ at'[t] # "unlocking" =>
                 lock \in {Token(t), NoLock}]_vars

\* Release never removes the lease of a reclaimer, under the same condition.
OwnLeaseOnly ==
  [][~late /\ ~usurped /\ lease # NoProc /\ lease' = NoProc =>
       lease \in Procs /\ at[Main(lease)] = "writing"]_vars

\* The lease of a process is handed to another one only when it was stale, under
\* the same condition.
FreshStays ==
  [][~late /\ ~usurped /\ lease \in Procs /\ lease' \notin {lease, NoProc} => aged]_vars

\* The protocol with its lock, its breakers and its crashes is a lease as
\* LeaseAuthority describes it, under the same condition; a process that ended
\* has left.
Authority ==
  INSTANCE LeaseAuthority WITH
    Timely <- TRUE,
    standing <- [p \in Procs |->
                   IF at[Main(p)] = "gone" THEN "lost" ELSE standing[p]]
ImplementsAuthority ==
  /\ Authority!LeaseInit
  /\ [][late' \/ usurped' \/ Authority!LeaseNext \/ UNCHANGED Authority!lvars]_vars

=============================================================================

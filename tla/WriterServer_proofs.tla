------------------------- MODULE WriterServer_proofs -------------------------
(***************************************************************************)
(* Proofs about LeaseAuthority and WriterServer for any number of daemons  *)
(* and launchers: until a lease lapses there is one holder, and nobody     *)
(* else touches the socket it serves on.                                   *)
(***************************************************************************)
EXTENDS WriterServer, TLAPS

LeaseInv == LeaseTypeOK /\ SingleHolder

LEMMA LeaseInitHolds == LeaseInit => LeaseInv
BY AuthorityConstants DEF LeaseInit, LeaseInv, LeaseTypeOK, SingleHolder

\* Only a free lease is taken, only its holder drops it, and a held lease
\* does not age.
LEMMA LeaseStepKeeps == LeaseInv /\ [LeaseNext]_lvars => LeaseInv'
<1> SUFFICES ASSUME LeaseInv, [LeaseNext]_lvars PROVE LeaseInv'
  OBVIOUS
<1> USE AuthorityConstants DEF LeaseInv, LeaseTypeOK, SingleHolder
<1>1. ASSUME NEW p \in Procs, Acquire(p) PROVE LeaseInv'
  BY <1>1 DEF Acquire, Free
<1>2. ASSUME NEW p \in Procs, Beat(p) PROVE LeaseInv'
  BY <1>2 DEF Beat
<1>3. ASSUME NEW p \in Procs, Leave(p) PROVE LeaseInv'
  BY <1>3 DEF Leave
<1>4. ASSUME NEW p \in Procs, Drop(p) PROVE LeaseInv'
  BY <1>4 DEF Drop
<1>5. ASSUME Age PROVE LeaseInv'
  BY <1>5 DEF Age
<1>6. CASE UNCHANGED lvars
  BY <1>6 DEF lvars
<1> QED BY <1>1, <1>2, <1>3, <1>4, <1>5, <1>6 DEF LeaseNext

\* As long as the lease of a holder does not go stale, every process that
\* believes that it holds the lease is the one the lease file names.
THEOREM OneHolder == LeaseSpec => []SingleHolder
<1>1. LeaseInv => SingleHolder
  BY DEF LeaseInv
<1> QED BY <1>1, LeaseInitHolds, LeaseStepKeeps, PTL DEF LeaseSpec

-----------------------------------------------------------------------------

\* Every daemon between taking the lease and Release holds it.
Binding ==
  \A p \in Procs :
    srv[p] \in Listening \cup {"verify", "unlink", "listen", "close", "unlinkOwn"}
      => standing[p] = "held"

\* What a daemon finds at the path it has just bound is no leftover.
LeftoverGone == \A p \in Procs : srv[p] = "stat" => path # Past

ServerInv ==
  /\ TypeOK /\ LeftoverGone
  /\ HolderNamed
  /\ ~late => Binding

LEMMA ServerInitHolds == Init => ServerInv
<1> SUFFICES ASSUME Init PROVE ServerInv
  OBVIOUS
<1>1. LeaseTypeOK
  BY LeaseInitHolds DEF Init, LeaseInv
<1>2. recent \in [Procs -> BOOLEAN]
  BY Zenon DEF Init
<1>3. HolderNamed /\ Binding /\ LeftoverGone
  BY DEF Init, LeaseInit, HolderNamed, Binding, LeftoverGone, Listening
<1>4. /\ path \in Procs \cup {Past, NoProc}
      /\ inode \in [Procs -> Procs \cup {NoProc}]
      /\ srv \in [Procs -> SrvPCs]
  BY DEF Init, Listening, SrvPCs
<1>5. /\ attached \in [Procs -> SUBSET Launchers] /\ idled \subseteq Procs
      /\ launcher \in [Launchers -> LauncherPCs]
      /\ promised \in [Launchers -> Procs \cup {NoProc}]
  BY DEF Init, LauncherPCs
<1>6. faults \in 0 .. MaxFaults
  BY ServerConstants DEF Init
<1>7. late \in BOOLEAN
  BY DEF Init
<1>8. \A p \in Procs : standing[p] # "held"
  BY DEF Init, LeaseInit
<1> QED BY <1>1, <1>2, <1>3, <1>4, <1>5, <1>6, <1>7, <1>8 DEF ServerInv, TypeOK

LeaseMove ==
  \E p \in Procs : Acquire(p) \/ Beat(p) \/ Leave(p) \/ Drop(p)

\* Each step of the server is a lapse, another step of the lease, or leaves the
\* lease alone.
LEMMA LeaseStep ==
  ASSUME [Next]_vars
  PROVE  LeaseAges \/ (UNCHANGED late /\ (LeaseMove \/ UNCHANGED lvars))
<1>1. ASSUME NEW c \in Launchers, EnsureStep(c) PROVE UNCHANGED <<late, lvars>>
  BY <1>1 DEF EnsureStep, PingFirst, FindHeld, SeeSocket, NoGuarantee, EndSession,
              Spawn, PingAgain, Attach, past
<1>2. ASSUME NEW p \in Procs, Starting(p)
      PROVE  UNCHANGED late /\ (LeaseMove \/ UNCHANGED lvars)
  BY <1>2 DEF Starting, TakeLease, LoseRace, MayBind, Unlink, Listen, StatSocket, LeaseMove, past
<1>3. ASSUME NEW p \in Procs, Watching(p) \/ Quiet(p) \/ Cancel(p)
      PROVE  UNCHANGED <<late, lvars>>
  BY <1>3 DEF Watching, WatchOwner, WatchIdle, Quiet, Cancel, past
<1>4. ASSUME NEW p \in Procs, Closing(p)
      PROVE  UNCHANGED late /\ (LeaseMove \/ UNCHANGED lvars)
  BY <1>4 DEF Closing, CloseListener, LookAtPath, UnlinkOwn, StopKeeping, DropLease, LeaseMove, past
<1>5. ASSUME NEW p \in Procs, Keeping(p) \/ Crash(p)
      PROVE  UNCHANGED late /\ (LeaseMove \/ UNCHANGED lvars)
  BY <1>5 DEF Keeping, KeeperBeats, KeeperLoses, Crash, LeaseMove, past
<1>6. CASE UNCHANGED vars
  BY <1>6 DEF vars, past
<1> QED BY <1>1, <1>2, <1>3, <1>4, <1>5, <1>6 DEF Next

LEMMA LeaseTypesKept ==
  ASSUME LeaseTypeOK, [Next]_vars
  PROVE  LeaseTypeOK'
<1>1. CASE LeaseAges
  BY <1>1 DEF LeaseAges, Age, LeaseTypeOK
<1>2. CASE LeaseMove
  BY <1>2 DEF LeaseMove, Acquire, Beat, Leave, Drop, LeaseTypeOK
<1>3. CASE UNCHANGED lvars
  BY <1>3 DEF lvars, LeaseTypeOK
<1> QED BY <1>1, <1>2, <1>3, LeaseStep

\* Only a free lease is taken, only its holder drops it, and one that ages
\* under its holder is a lapse.
LEMMA HolderStep ==
  ASSUME LeaseTypeOK, HolderNamed, [Next]_vars
  PROVE  HolderNamed'
<1> USE AuthorityConstants DEF LeaseTypeOK, HolderNamed
<1>1. CASE LeaseAges
  BY <1>1 DEF LeaseAges, Age, past
<1>2. ASSUME UNCHANGED late, NEW p \in Procs, Acquire(p) PROVE HolderNamed'
  BY <1>2 DEF Acquire, Free
<1>3. ASSUME UNCHANGED late, NEW p \in Procs, Beat(p) PROVE HolderNamed'
  BY <1>3 DEF Beat
<1>4. ASSUME UNCHANGED late, NEW p \in Procs, Leave(p) PROVE HolderNamed'
  BY <1>4 DEF Leave
<1>5. ASSUME UNCHANGED late, NEW p \in Procs, Drop(p) PROVE HolderNamed'
  BY <1>5 DEF Drop
<1>6. CASE UNCHANGED late /\ UNCHANGED lvars
  BY <1>6 DEF lvars
<1> QED BY <1>1, <1>2, <1>3, <1>4, <1>5, <1>6, LeaseStep DEF LeaseMove

LEMMA BindingStep ==
  ASSUME ServerInv, ~late', [Next]_vars
  PROVE  Binding'
<1>0. ~late /\ LeaseTypeOK /\ srv \in [Procs -> SrvPCs] /\ Binding /\ HolderNamed
  BY LeaseStep DEF ServerInv, TypeOK, LeaseAges, past
<1> USE <1>0 DEF Binding, SrvPCs, Listening, Go
<1>1. ASSUME NEW c \in Launchers, EnsureStep(c) PROVE Binding'
  BY <1>1 DEF EnsureStep, PingFirst, FindHeld, SeeSocket, NoGuarantee, EndSession,
              Spawn, PingAgain, Attach, lvars
<1>2. ASSUME NEW p \in Procs, Starting(p) PROVE Binding'
  <2>1. CASE TakeLease(p)
    BY <2>1 DEF TakeLease, Acquire, LeaseTypeOK
  <2>2. CASE LoseRace(p)
    BY <2>2 DEF LoseRace, Leave, LeaseTypeOK
  <2>3. CASE MayBind(p) \/ Unlink(p) \/ Listen(p) \/ StatSocket(p)
    BY <2>3 DEF MayBind, Unlink, Listen, StatSocket, lvars
  <2> QED BY <1>2, <2>1, <2>2, <2>3 DEF Starting
<1>3. ASSUME NEW p \in Procs, Watching(p) \/ Quiet(p) \/ Cancel(p) PROVE Binding'
  BY <1>3 DEF Watching, WatchOwner, WatchIdle, Quiet, Cancel, lvars
<1>4. ASSUME NEW p \in Procs, Closing(p) PROVE Binding'
  <2>1. CASE CloseListener(p) \/ LookAtPath(p) \/ UnlinkOwn(p)
    BY <2>1 DEF CloseListener, LookAtPath, UnlinkOwn, lvars
  <2>2. CASE StopKeeping(p)
    BY <2>2 DEF StopKeeping, Leave, LeaseTypeOK, lvars
  <2>3. CASE DropLease(p)
    BY <2>3 DEF DropLease, Drop, lvars
  <2> QED BY <1>4, <2>1, <2>2, <2>3 DEF Closing
<1>5. ASSUME NEW p \in Procs, KeeperBeats(p) \/ Crash(p) PROVE Binding'
  <2>1. CASE KeeperBeats(p)
    BY <2>1 DEF KeeperBeats, Beat
  <2>2. CASE Crash(p)
    BY <2>2 DEF Crash, Leave, LeaseTypeOK, lvars
  <2> QED BY <1>5, <2>1, <2>2
<1>6. ASSUME NEW p \in Procs, KeeperLoses(p) PROVE Binding'
  BY <1>6 DEF KeeperLoses, Leave, HolderNamed
<1>7. ASSUME LeaseAges PROVE Binding'
  BY <1>7 DEF LeaseAges, Age, past
<1>8. CASE UNCHANGED vars
  BY <1>8 DEF vars, lvars
<1> QED BY <1>1, <1>2, <1>3, <1>4, <1>5, <1>6, <1>7, <1>8 DEF Next, Keeping

LEMMA LeftoverStep ==
  ASSUME TypeOK, LeftoverGone, [Next]_vars
  PROVE  LeftoverGone'
<1> USE AuthorityConstants DEF TypeOK, LeftoverGone, SrvPCs, Listening, Go, socket
<1>1. ASSUME NEW c \in Launchers, EnsureStep(c) PROVE LeftoverGone'
  BY <1>1 DEF EnsureStep, PingFirst, FindHeld, SeeSocket, NoGuarantee, EndSession,
              Spawn, PingAgain, Attach
<1>2. ASSUME NEW p \in Procs, Starting(p) PROVE LeftoverGone'
  BY <1>2 DEF Starting, TakeLease, LoseRace, MayBind, Unlink, Listen, StatSocket
<1>3. ASSUME NEW p \in Procs, Watching(p) \/ Quiet(p) \/ Cancel(p) \/ Keeping(p) \/ Crash(p)
      PROVE  LeftoverGone'
  BY <1>3 DEF Watching, WatchOwner, WatchIdle, Quiet, Cancel, Keeping, KeeperBeats,
              KeeperLoses, Crash
<1>4. ASSUME NEW p \in Procs, Closing(p) PROVE LeftoverGone'
  BY <1>4 DEF Closing, CloseListener, LookAtPath, UnlinkOwn, StopKeeping, DropLease
<1>5. CASE LeaseAges \/ UNCHANGED vars
  BY <1>5 DEF LeaseAges, vars
<1> QED BY <1>1, <1>2, <1>3, <1>4, <1>5 DEF Next

\* The activity flags, which each step leaves alone or sets at one daemon.
LEMMA RecentStep ==
  ASSUME recent \in [Procs -> BOOLEAN], [Next]_vars
  PROVE  recent' \in [Procs -> BOOLEAN]
<1>1. UNCHANGED recent \/ \E p \in Procs, b \in BOOLEAN : recent' = [recent EXCEPT ![p] = b]
  <2>1. ASSUME NEW c \in Launchers, EnsureStep(c)
        PROVE  UNCHANGED recent \/ \E p \in Procs, b \in BOOLEAN : recent' = [recent EXCEPT ![p] = b]
    BY <2>1, Zenon DEF EnsureStep, PingFirst, FindHeld, SeeSocket, NoGuarantee, EndSession,
                Spawn, PingAgain, Attach
  <2>2. ASSUME NEW p \in Procs, Starting(p)
        PROVE  UNCHANGED recent \/ \E q \in Procs, b \in BOOLEAN : recent' = [recent EXCEPT ![q] = b]
    BY <2>2, Zenon DEF Starting, TakeLease, LoseRace, MayBind, Unlink, Listen, StatSocket, clients
  <2>3. ASSUME NEW p \in Procs, Watching(p) \/ Quiet(p) \/ Cancel(p) \/ Keeping(p) \/ Crash(p)
        PROVE  UNCHANGED recent \/ \E q \in Procs, b \in BOOLEAN : recent' = [recent EXCEPT ![q] = b]
    BY <2>3, Zenon DEF Watching, WatchOwner, WatchIdle, Quiet, Cancel, Keeping, KeeperBeats,
                KeeperLoses, Crash, clients
  <2>4. ASSUME NEW p \in Procs, Closing(p) PROVE UNCHANGED recent
    BY <2>4 DEF Closing, CloseListener, LookAtPath, UnlinkOwn, StopKeeping, DropLease, clients
  <2>5. CASE LeaseAges \/ UNCHANGED vars
    BY <2>5 DEF LeaseAges, vars, clients
  <2> QED BY <2>1, <2>2, <2>3, <2>4, <2>5 DEF Next
<1>2. ASSUME NEW p \in Procs, NEW b \in BOOLEAN, recent' = [recent EXCEPT ![p] = b]
      PROVE  recent' \in [Procs -> BOOLEAN]
  BY <1>2, Zenon
<1> QED BY <1>1, <1>2

LEMMA ServerTypes ==
  ASSUME TypeOK, LeftoverGone, [Next]_vars
  PROVE  TypeOK'
<1>0. LeaseTypeOK' /\ recent' \in [Procs -> BOOLEAN]
  BY LeaseTypesKept, RecentStep DEF TypeOK
<1> USE <1>0, ServerConstants, AuthorityConstants
    DEF TypeOK, SrvPCs, Listening, LauncherPCs, Go, CGo, socket, clients, past
<1>1. ASSUME NEW c \in Launchers, EnsureStep(c) PROVE TypeOK'
  <2> USE DEF lvars
  <2>1. CASE PingFirst(c) \/ FindHeld(c) \/ SeeSocket(c) \/ NoGuarantee(c) \/ EndSession(c)
    BY <2>1 DEF PingFirst, FindHeld, SeeSocket, NoGuarantee, EndSession
  <2>2. ASSUME NEW p \in Procs, Spawn(c, p) PROVE TypeOK'
    BY <2>2 DEF Spawn
  <2>3. ASSUME NEW p \in Procs, PingAgain(c, p) \/ Attach(c, p) PROVE TypeOK'
    BY <2>3 DEF PingAgain, Attach
  <2> QED BY <1>1, <2>1, <2>2, <2>3 DEF EnsureStep
<1>2. ASSUME NEW p \in Procs, Starting(p) PROVE TypeOK'
  <2>1. CASE TakeLease(p)
    BY <2>1 DEF TakeLease, Acquire, LeaseTypeOK
  <2>2. CASE LoseRace(p)
    BY <2>2 DEF LoseRace, Leave, LeaseTypeOK
  <2>3. CASE MayBind(p) \/ Unlink(p) \/ Listen(p)
    BY <2>3 DEF MayBind, Unlink, Listen, lvars
  <2>4. CASE StatSocket(p)
    BY <2>4 DEF StatSocket, LeftoverGone, lvars
  <2> QED BY <1>2, <2>1, <2>2, <2>3, <2>4 DEF Starting
<1>3. ASSUME NEW p \in Procs, Watching(p) \/ Quiet(p) \/ Cancel(p) PROVE TypeOK'
  <2>1. CASE WatchOwner(p) \/ Cancel(p)
    BY <2>1 DEF WatchOwner, Cancel, lvars
  <2>2. CASE WatchIdle(p)
    BY <2>2 DEF WatchIdle, LiveAttached, lvars
  <2>3. CASE Quiet(p)
    BY <2>3 DEF Quiet, lvars
  <2> QED BY <1>3, <2>1, <2>2, <2>3 DEF Watching
<1>4. ASSUME NEW p \in Procs, Closing(p) PROVE TypeOK'
  <2>1. CASE CloseListener(p) \/ LookAtPath(p) \/ UnlinkOwn(p)
    BY <2>1 DEF CloseListener, LookAtPath, UnlinkOwn, lvars
  <2>2. CASE StopKeeping(p)
    BY <2>2 DEF StopKeeping, Leave, LeaseTypeOK, lvars
  <2>3. CASE DropLease(p)
    BY <2>3 DEF DropLease, Drop, lvars
  <2> QED BY <1>4, <2>1, <2>2, <2>3 DEF Closing
<1>5. ASSUME NEW p \in Procs, KeeperBeats(p) \/ KeeperLoses(p) PROVE TypeOK'
  BY <1>5 DEF KeeperBeats, KeeperLoses, Beat, Leave, LeaseTypeOK
<1>6. ASSUME NEW p \in Procs, Crash(p) PROVE TypeOK'
  BY <1>6 DEF Crash, Leave, LeaseTypeOK, lvars
<1>7. CASE LeaseAges
  <2>1. faults' \in 0 .. MaxFaults
    BY <1>7 DEF LeaseAges
  <2>2. late' \in BOOLEAN
    BY <1>7 DEF LeaseAges
  <2>3. UNCHANGED <<socket, srv, clients, idled, standing>>
    BY <1>7 DEF LeaseAges, Age
  <2> QED BY <2>1, <2>2, <2>3
<1>8. CASE UNCHANGED vars
  BY <1>8 DEF vars, lvars
<1> QED BY <1>1, <1>2, <1>3, <1>4, <1>5, <1>6, <1>7, <1>8 DEF Next, Keeping

LEMMA ServerStepKeeps == ServerInv /\ [Next]_vars => ServerInv'
<1> SUFFICES ASSUME ServerInv, [Next]_vars PROVE ServerInv'
  OBVIOUS
<1>1. TypeOK' /\ LeftoverGone' /\ HolderNamed'
  BY ServerTypes, LeftoverStep, HolderStep DEF ServerInv, TypeOK
<1>2. ~late' => Binding'
  BY BindingStep
<1> QED BY <1>1, <1>2 DEF ServerInv

LEMMA ServerInvariant == Spec => []ServerInv
BY ServerInitHolds, ServerStepKeeps, PTL DEF Spec

\* Every reachable state of the daemons and launchers is well typed, and no
\* daemon that has released its lease still thinks that it holds it.
THEOREM ServerTypeCorrect == Spec => []TypeOK
<1>1. ServerInv => TypeOK
  BY DEF ServerInv
<1> QED BY <1>1, ServerInvariant, PTL

\* Until a lease goes stale under its holder one daemon at most believes that
\* it holds it, and the file names that daemon.
THEOREM OneNamedHolder == Spec => []HolderNamed
<1>1. ServerInv => HolderNamed
  BY DEF ServerInv
<1> QED BY <1>1, ServerInvariant, PTL

\* Both hold in every reachable state of the daemons and launchers.
THEOREM ServerStaysSound == Spec => []ServerSound
BY ServerTypeCorrect, OneNamedHolder, PTL DEF ServerSound

\* Whoever takes a path away is clearing leftovers before it binds, or closing
\* its own socket.
LEMMA PathTaken ==
  ASSUME ServerInv, [Next]_vars, NEW p \in Procs, path = p, path' # p
  PROVE  \E q \in Procs : Unlink(q) \/ UnlinkOwn(q)
<1>1. ASSUME NEW c \in Launchers, EnsureStep(c) PROVE FALSE
  BY <1>1 DEF EnsureStep, PingFirst, FindHeld, SeeSocket, NoGuarantee, EndSession,
              Spawn, PingAgain, Attach, socket
<1>2. ASSUME NEW q \in Procs, Starting(q) PROVE Unlink(q)
  BY <1>2, AuthorityConstants
     DEF Starting, TakeLease, LoseRace, MayBind, Listen, StatSocket, socket
<1>3. ASSUME NEW q \in Procs, Watching(q) \/ Quiet(q) \/ Cancel(q) \/ Keeping(q) \/ Crash(q)
      PROVE  FALSE
  BY <1>3 DEF Watching, WatchOwner, WatchIdle, Quiet, Cancel, Keeping, KeeperBeats,
              KeeperLoses, Crash, socket
<1>4. ASSUME NEW q \in Procs, Closing(q) PROVE UnlinkOwn(q)
  BY <1>4 DEF Closing, CloseListener, LookAtPath, StopKeeping, DropLease, socket
<1>5. ~ (LeaseAges \/ UNCHANGED vars)
  BY DEF LeaseAges, vars, socket
<1> QED BY <1>1, <1>2, <1>3, <1>4, <1>5 DEF Next

\* Until a lease goes stale under its holder no starter and no predecessor takes
\* the socket away from a daemon that holds the lease and serves, for any number
\* of daemons, launchers, signals, crashes and lapses.
THEOREM SocketIsKept == Spec => SocketKept
<1>1. ASSUME ServerInv, [Next]_vars, ~late, NEW p \in Procs,
             path = p, standing[p] = "held", {srv[p], srv'[p]} \subseteq {"stat", "serving"}
      PROVE  path' = p
  <2> SUFFICES ASSUME path' # p PROVE FALSE
    OBVIOUS
  <2>1. PICK q \in Procs : srv[q] \in {"unlink", "unlinkOwn"}
    BY <1>1, PathTaken DEF Unlink, UnlinkOwn
  <2>2. standing[q] = "held"
    BY <1>1, <2>1 DEF ServerInv, Binding
  <2>3. q = p
    BY <1>1, <2>2 DEF ServerInv, HolderNamed
  <2> QED BY <1>1, <2>1, <2>3
<1>2. ServerInv /\ [Next]_vars =>
        [~late => \A p \in Procs :
           path = p /\ standing[p] = "held" /\ {srv[p], srv'[p]} \subseteq {"stat", "serving"}
             => path' = p]_vars
  BY <1>1
<1> QED BY <1>2, ServerInvariant, PTL DEF Spec, SocketKept

-----------------------------------------------------------------------------
\* From the bind of its socket to its end a daemon finds its own socket at the
\* path.
Serving == {"stat", "serving", "stopping", "close", "unlinkOwn"}
Bound == \A p \in Procs : srv[p] \in Serving => path = p

\* A daemon binds before it serves.
LEMMA BindsFirst ==
  ASSUME TypeOK, [Next]_vars, NEW p \in Procs, srv'[p] \in Serving
  PROVE  srv[p] \in Serving \/ path' = p
<1> USE DEF TypeOK, Serving, Go
<1>1. ASSUME NEW c \in Launchers, EnsureStep(c) PROVE srv[p] \in Serving
  BY <1>1 DEF EnsureStep, PingFirst, FindHeld, SeeSocket, NoGuarantee, EndSession,
              Spawn, PingAgain, Attach
<1>2. ASSUME NEW q \in Procs, Starting(q) PROVE srv[p] \in Serving \/ path' = p
  BY <1>2 DEF Starting, TakeLease, LoseRace, MayBind, Unlink, Listen, StatSocket
<1>3. ASSUME NEW q \in Procs, Watching(q) \/ Quiet(q) \/ Cancel(q) \/ Keeping(q) \/ Crash(q)
      PROVE  srv[p] \in Serving
  BY <1>3 DEF Watching, WatchOwner, WatchIdle, Quiet, Cancel, Keeping, KeeperBeats,
              KeeperLoses, Crash
<1>4. ASSUME NEW q \in Procs, Closing(q) PROVE srv[p] \in Serving
  BY <1>4 DEF Closing, CloseListener, LookAtPath, UnlinkOwn, StopKeeping, DropLease
<1>5. CASE LeaseAges \/ UNCHANGED vars
  BY <1>5 DEF LeaseAges, vars
<1> QED BY <1>1, <1>2, <1>3, <1>4, <1>5 DEF Next

LEMMA BoundStep ==
  ASSUME ServerInv, ~late => Bound, [Next]_vars, ~late' PROVE Bound'
<1>1. ~late
  BY LeaseStep DEF LeaseAges, past
<1>2. SUFFICES ASSUME NEW p \in Procs, srv'[p] \in Serving, path' # p PROVE FALSE
  BY DEF Bound
<1>3. srv[p] \in Serving /\ path = p
  BY <1>1, <1>2, BindsFirst DEF ServerInv, Bound
<1>4. PICK q \in Procs : Unlink(q) \/ UnlinkOwn(q)
  BY <1>2, <1>3, PathTaken
<1>5. standing[q] = "held" /\ standing[p] = "held"
  BY <1>1, <1>3, <1>4 DEF ServerInv, Binding, Serving, Listening, Unlink, UnlinkOwn
<1>6. q = p
  BY <1>1, <1>5 DEF ServerInv, HolderNamed
<1> QED BY <1>2, <1>3, <1>4, <1>6 DEF Unlink, UnlinkOwn, Serving, Go, ServerInv, TypeOK

\* A closing daemon looks at the path and removes it in a second step, and still
\* never takes the socket of a successor, until a lease goes stale under its
\* holder: no other daemon gets as far as the path while it holds the lease.
THEOREM SuccessorsSocketIsKept == Spec => SuccessorsSocketKept
<1>1. Init => Bound
  BY DEF Init, Bound, Serving
<1>2. ServerInv /\ (~late => Bound) /\ [Next]_vars => (~late => Bound)'
  BY BoundStep
<1>3. (~late => Bound) /\ [Next]_vars =>
        [~late => \A p \in Procs :
           srv[p] = "unlinkOwn" /\ srv'[p] = "release" => path \in {p, NoProc}]_vars
  BY DEF Bound, Serving
<1> QED BY <1>1, <1>2, <1>3, ServerInvariant, PTL DEF Spec, SuccessorsSocketKept

=============================================================================

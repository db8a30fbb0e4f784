---------------------------- MODULE WriterServer ----------------------------
(***************************************************************************)
(* The daemon behind the lease: who starts it, how it binds the project's  *)
(* socket, when it stops, and what it promises a launcher that attached    *)
(* (core/daemon/ensure.go, socket*.go; cmd/wipnote/writer_daemon.go).      *)
(*                                                                         *)
(* The lease is LeaseAuthority.  A socket is named by the process that     *)
(* bound it, which stands for its inode.  Launchers live as long as their  *)
(* session; each is also a client that attaches to the daemon it found.    *)
(***************************************************************************)
EXTENDS LeaseAuthority

CONSTANTS
  Launchers,
  Signals,   \* whether the operator may stop a daemon with a signal
  MaxFaults  \* bound: crashes and lapses of daemons in one behaviour

ASSUME ServerConstants ==
  /\ Signals \in BOOLEAN /\ MaxFaults \in Nat
  /\ Procs \cap Launchers = {}

VARIABLES
  path,      \* the inode at .wipnote/writer.sock
  inode,     \* per daemon: sockInfo, the inode it found there after it bound
  srv,       \* per daemon: the next step of its main goroutine
  attached,  \* per daemon: the launchers registered with it
  recent,    \* per daemon: an op within the idle window
  idled,     \* history: daemons that stopped for lack of a client
  launcher,  \* per launcher: the next step of EnsureDaemon
  promised,  \* per launcher: the daemon EnsureDaemon promised to its session
  faults,
  late       \* history: a lapse, the lease of a process that held it went stale

socket  == <<path, inode>>
clients == <<attached, recent, launcher, promised>>
past == <<faults, late>>
vars == <<lvars, socket, srv, clients, idled, past>>

Listening == {"stat", "serving", "stopping"}
SrvPCs == Listening \cup
  {"off", "acquire", "verify", "unlink", "listen", "close", "unlinkOwn",
   "release", "drop", "gone"}
LauncherPCs == {"new", "inspect", "wait", "ping", "attach", "session", "ended"}

TypeOK ==
  /\ LeaseTypeOK
  /\ path \in Procs \cup {Past, NoProc}
  /\ inode \in [Procs -> Procs \cup {NoProc}]
  /\ srv \in [Procs -> SrvPCs]
  /\ attached \in [Procs -> SUBSET Launchers]
  /\ recent \in [Procs -> BOOLEAN] /\ idled \subseteq Procs
  /\ launcher \in [Launchers -> LauncherPCs]
  /\ promised \in [Launchers -> Procs \cup {NoProc}]
  /\ faults \in 0 .. MaxFaults /\ late \in BOOLEAN
  /\ \A p \in Procs : standing[p] = "held" =>
       srv[p] \notin {"off", "acquire", "drop", "gone"}

Init ==
  /\ LeaseInit
  /\ path \in {NoProc, Past} /\ inode = [p \in Procs |-> NoProc]
  /\ srv = [p \in Procs |-> "off"]
  /\ attached = [p \in Procs |-> {}] /\ recent = [p \in Procs |-> FALSE]
  /\ idled = {}
  /\ launcher = [c \in Launchers |-> "new"]
  /\ promised = [c \in Launchers |-> NoProc]
  /\ faults = 0 /\ late = FALSE

Go(p, s) == srv' = [srv EXCEPT ![p] = s]
CGo(c, s) == launcher' = [launcher EXCEPT ![c] = s]

\* A dial of the path reaches the daemon that bound it, while it listens; a
\* frame is answered once it accepts.
Dials(p) == path = p /\ srv[p] \in Listening
Reaches(p) == path = p /\ srv[p] \in Listening \ {"stat"}
Up == \E p \in Procs : Reaches(p)
Running(c) == launcher[c] # "ended"

-----------------------------------------------------------------------------
(* A launcher's EnsureDaemon *)

\* The fast path: a daemon answers a ping.
PingFirst(c) ==
  /\ launcher[c] = "new"
  /\ IF Up
     THEN CGo(c, "attach") /\ \E p \in Procs : Reaches(p) /\
            recent' = [recent EXCEPT ![p] = TRUE]
     ELSE CGo(c, "inspect") /\ UNCHANGED recent
  /\ UNCHANGED <<lvars, socket, srv, attached, promised, idled, past>>

\* startWriterUnlessHeld: a holder is starting or serving, wait for it ...
FindHeld(c) ==
  /\ launcher[c] = "inspect" /\ ~Free
  /\ CGo(c, "wait")
  /\ UNCHANGED <<lvars, socket, srv, attached, recent, promised, idled, past>>

\* ... otherwise start one, though the reading may be stale by now.
Spawn(c, p) ==
  /\ launcher[c] = "inspect" /\ Free
  /\ srv[p] = "off"
  /\ Go(p, "acquire") /\ CGo(c, "wait")
  /\ UNCHANGED <<lvars, socket, attached, recent, promised, idled, past>>

\* waitForSocketPath: a dial succeeds ...
SeeSocket(c) ==
  /\ launcher[c] = "wait" /\ \E p \in Procs : Dials(p)
  /\ CGo(c, "ping")
  /\ UNCHANGED <<lvars, socket, srv, attached, recent, promised, idled, past>>

PingAgain(c, p) ==
  /\ launcher[c] = "ping" /\ Reaches(p)
  /\ recent' = [recent EXCEPT ![p] = TRUE]
  /\ CGo(c, "attach")
  /\ UNCHANGED <<lvars, socket, srv, attached, promised, idled, past>>

\* readAttach registers the launcher; its reply is the promise.
Attach(c, p) ==
  /\ launcher[c] = "attach" /\ Reaches(p)
  /\ attached' = [attached EXCEPT ![p] = @ \cup {c}]
  /\ recent' = [recent EXCEPT ![p] = TRUE]
  /\ promised' = [promised EXCEPT ![c] = p]
  /\ CGo(c, "session")
  /\ UNCHANGED <<lvars, socket, srv, idled, past>>

\* The wait times out, no daemon can be started, or nothing answers any more:
\* the session runs without the guarantee.
NoGuarantee(c) ==
  /\ \/ launcher[c] \in {"inspect", "wait"}
     \/ launcher[c] \in {"ping", "attach"} /\ ~Up
  /\ CGo(c, "session")
  /\ UNCHANGED <<lvars, socket, srv, attached, recent, promised, idled, past>>

EndSession(c) ==
  /\ launcher[c] = "session"
  /\ CGo(c, "ended")
  /\ UNCHANGED <<lvars, socket, srv, attached, recent, promised, idled, past>>

-----------------------------------------------------------------------------
(* A daemon *)

TakeLease(p) ==
  /\ srv[p] = "acquire" /\ Acquire(p)
  /\ Go(p, "verify")
  /\ UNCHANGED <<socket, clients, idled, past>>

\* ErrLeaseHeld: the loser of a race exits.
LoseRace(p) ==
  /\ srv[p] = "acquire" /\ Leave(p)
  /\ Go(p, "gone")
  /\ UNCHANGED <<socket, clients, idled, past>>

Verified(p) == standing[p] = "held" /\ lease = p

\* unlinkStaleSocket: only the lease owner may bind ...
MayBind(p) ==
  /\ srv[p] = "verify"
  /\ Go(p, IF Verified(p) THEN "unlink" ELSE "release")
  /\ UNCHANGED <<lvars, socket, clients, idled, past>>

\* ... and what it then finds at the path is taken for a leftover.
Unlink(p) ==
  /\ srv[p] = "unlink"
  /\ path' = NoProc
  /\ Go(p, "listen")
  /\ UNCHANGED <<lvars, inode, clients, idled, past>>

Listen(p) ==
  /\ srv[p] = "listen"
  /\ IF path = NoProc
     THEN path' = p /\ Go(p, "stat")
     ELSE UNCHANGED path /\ Go(p, "release")
  /\ UNCHANGED <<lvars, inode, clients, idled, past>>

\* The inode is read back from the path; none if the path is missing.
StatSocket(p) ==
  /\ srv[p] = "stat"
  /\ inode' = [inode EXCEPT ![p] = path]
  /\ recent' = [recent EXCEPT ![p] = TRUE]
  /\ Go(p, "serving")
  /\ UNCHANGED <<lvars, path, attached, launcher, promised, idled, past>>

\* ownsSocket: an unknown inode is no proof of loss.
OwnsSocket(p) == path # NoProc /\ inode[p] \in {path, NoProc}

\* Mutant: dead launchers are not dropped.
EverAttached(p) == attached[p]

LiveAttached(p) == {c \in attached[p] : Running(c)}
Idle(p) == LiveAttached(p) = {} /\ ~recent[p]

\* The window passes without an op.
Quiet(p) ==
  /\ srv[p] = "serving" /\ recent[p]
  /\ recent' = [recent EXCEPT ![p] = FALSE]
  /\ UNCHANGED <<lvars, socket, srv, attached, launcher, promised, idled, past>>

\* watch: exitReason in its order; liveAttachedCount drops the dead launchers.
WatchOwner(p) ==
  /\ srv[p] = "serving" /\ ~ (Verified(p) /\ OwnsSocket(p))
  /\ Go(p, "stopping")
  /\ UNCHANGED <<lvars, socket, clients, idled, past>>

WatchIdle(p) ==
  /\ srv[p] = "serving" /\ Verified(p) /\ OwnsSocket(p) /\ Idle(p)
  /\ attached' = [attached EXCEPT ![p] = LiveAttached(p)]
  /\ idled' = idled \cup {p}
  /\ Go(p, "stopping")
  /\ UNCHANGED <<lvars, socket, recent, launcher, promised, past>>

\* A signal, or the keeper's onLost, cancels the context too.
Cancel(p) ==
  /\ srv[p] = "serving" /\ (Signals \/ ~Verified(p))
  /\ Go(p, "stopping")
  /\ UNCHANGED <<lvars, socket, clients, idled, past>>

\* Mutant: the lease is dropped before the socket.
CloseAndDrop(p) ==
  /\ srv[p] = "stopping"
  /\ Go(p, "close")
  /\ standing' = [standing EXCEPT ![p] = "lost"]
  /\ lease' = IF lease = p THEN NoProc ELSE lease
  /\ aged' = FALSE
  /\ UNCHANGED <<socket, clients, idled, past>>

\* Close, in a goroutine that waits for the context: the listener is closed,
\* then the path is looked at, then it is removed.
CloseListener(p) ==
  /\ srv[p] = "stopping"
  /\ Go(p, "close")
  /\ UNCHANGED <<lvars, socket, clients, idled, past>>

LookAtPath(p) ==
  /\ srv[p] = "close"
  /\ Go(p, IF OwnsSocket(p) THEN "unlinkOwn" ELSE "release")
  /\ UNCHANGED <<lvars, socket, clients, idled, past>>

UnlinkOwn(p) ==
  /\ srv[p] = "unlinkOwn"
  /\ path' = NoProc
  /\ Go(p, "release")
  /\ UNCHANGED <<lvars, inode, clients, idled, past>>

\* Mutant: Release does not stop the holder from thinking that it holds.
StopKeepingOnly(p) ==
  /\ srv[p] = "release"
  /\ Go(p, "drop")
  /\ UNCHANGED <<lvars, socket, clients, idled, past>>

\* lease.Release, deferred last.
StopKeeping(p) ==
  /\ srv[p] = "release"
  /\ Go(p, "drop")
  /\ IF standing[p] = "lost" THEN UNCHANGED lvars ELSE Leave(p)
  /\ UNCHANGED <<socket, clients, idled, past>>

\* Release removes the lease if it is its own and the lock is to be had.
DropLease(p) ==
  /\ srv[p] = "drop"
  /\ Go(p, "gone")
  /\ Drop(p) \/ UNCHANGED lvars
  /\ UNCHANGED <<socket, clients, idled, past>>

KeeperBeats(p) ==
  /\ srv[p] \notin {"off", "gone"} /\ aged /\ Beat(p)
  /\ UNCHANGED <<socket, srv, clients, idled, past>>

KeeperLoses(p) ==
  /\ srv[p] \notin {"off", "acquire", "gone"} /\ lease # p /\ Leave(p)
  /\ UNCHANGED <<socket, srv, clients, idled, past>>

Crash(p) ==
  /\ srv[p] \notin {"off", "gone"}
  /\ faults < MaxFaults /\ faults' = faults + 1
  /\ Go(p, "gone")
  /\ IF standing[p] = "lost" THEN UNCHANGED lvars ELSE Leave(p)
  /\ UNCHANGED <<socket, clients, idled, late>>

LeaseAges ==
  /\ Age
  /\ IF lease \in Procs /\ standing[lease] = "held"
     THEN faults < MaxFaults /\ faults' = faults + 1 /\ late' = TRUE
     ELSE UNCHANGED past
  /\ UNCHANGED <<socket, srv, clients, idled>>

-----------------------------------------------------------------------------

EnsureStep(c) ==
  \/ PingFirst(c) \/ FindHeld(c) \/ SeeSocket(c) \/ NoGuarantee(c) \/ EndSession(c)
  \/ \E p \in Procs : Spawn(c, p) \/ PingAgain(c, p) \/ Attach(c, p)

Starting(p) ==
  \/ TakeLease(p) \/ LoseRace(p) \/ MayBind(p) \/ Unlink(p) \/ Listen(p)
  \/ StatSocket(p)
Watching(p) == WatchOwner(p) \/ WatchIdle(p)
Closing(p) ==
  \/ CloseListener(p) \/ LookAtPath(p) \/ UnlinkOwn(p) \/ StopKeeping(p)
  \/ DropLease(p)
Keeping(p) == KeeperBeats(p) \/ KeeperLoses(p)

Next ==
  \/ \E c \in Launchers : EnsureStep(c)
  \/ \E p \in Procs :
       \/ Starting(p) \/ Watching(p) \/ Closing(p) \/ Keeping(p)
       \/ Quiet(p) \/ Cancel(p) \/ Crash(p)
  \/ LeaseAges

Spec == Init /\ [][Next]_vars

\* The operating system runs a live daemon: it gets through its start and its
\* shutdown, its watcher's and its keeper's tickers fire, and time passes.
Live(p) ==
  /\ WF_vars(Starting(p)) /\ WF_vars(Closing(p))
  /\ WF_vars(Watching(p)) /\ WF_vars(Quiet(p))
LiveSpec == Spec /\ \A p \in Procs : Live(p)

-----------------------------------------------------------------------------

\* Until the lease of a process that held it goes stale - its daemon did not
\* run for longer than the window - at most one daemon believes that it holds
\* the lease, and the file names that daemon.
HolderNamed ==
  ~late => \A p \in Procs : standing[p] = "held" => lease = p /\ ~aged

\* What holds in every state of the daemons: a daemon that released its lease
\* does not think that it holds it, and the holder is the one the file names.
ServerSound == TypeOK /\ HolderNamed

\* Until then nobody takes the path away from a daemon that holds the
\* lease and serves there: not a starter that clears leftovers, not a
\* predecessor that closes.
SocketKept ==
  [][~late => \A p \in Procs :
       path = p /\ standing[p] = "held" /\ {srv[p], srv'[p]} \subseteq {"stat", "serving"}
         => path' = p]_vars

\* Close removes the path only while it is the inode this listener bound, so a
\* server that lost its socket never deletes its successor's, under the same
\* condition: it looks at the path in one step and removes it in the next.
SuccessorsSocketKept ==
  [][~late => \A p \in Procs :
       srv[p] = "unlinkOwn" /\ srv'[p] = "release" => path \in {p, NoProc}]_vars

\* While an attached launcher lives, its daemon does not stop for idleness.
PromiseKept ==
  \A c \in Launchers : launcher[c] = "session" => promised[c] \notin idled

\* A server that lost its lease or its socket goes away, whoever is attached.
OrphansExit ==
  \A p \in Procs :
    srv[p] = "serving" /\ (lease # p \/ path # p) ~> srv[p] = "gone"

\* Once every launcher has ended no daemon lingers.
IdleExits ==
  (\A c \in Launchers : launcher[c] = "ended")
     ~> (\A p \in Procs : srv[p] \in {"off", "gone"})

\* No daemon lingers: neither one that lost its lease or socket nor the last.
DaemonsExit == OrphansExit /\ IdleExits

=============================================================================

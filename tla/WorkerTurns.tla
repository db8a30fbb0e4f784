----------------------------- MODULE WorkerTurns -----------------------------
(***************************************************************************)
(* One delegate worker and the callers that give it tasks                  *)
(* (internal/delegate/session: mail.go, observe.go, wait.go, questions.go, *)
(* answer.go, reply.go; the hooks of core/hooks/delegate_events.go and     *)
(* delegate_bind.go; the mailbox of internal/delegate/runstore).           *)
(*                                                                         *)
(* The worker's hooks append events and acks, the worker writes question   *)
(* and result files, a caller posts tasks under the send lock, and a wait  *)
(* looks at all of it one file after another, with no lock: what it        *)
(* settles on must have been true at some moment of its look.              *)
(*                                                                         *)
(* The events of the run are kept as what factsOf folds them to.  Trust    *)
(* dialogs, permission prompts and background shells are left out.         *)
(***************************************************************************)
EXTENDS Integers, FiniteSets

CONSTANTS
  Callers,   \* processes that send
  MaxTasks,  \* bound: tasks posted
  Ops        \* what else happens in a run, a subset of AllOps

AllOps == {"person",      \* a person types prompts into the worker's pane
           "lostHint",    \* herdr fails to type a task's hint
           "clear",       \* the worker's session is cleared: a new one binds
           "exit",        \* the harness exits
           "concurrent"}  \* one caller sends while another one waits

NoOne == "nobody"

ASSUME TurnConstants ==
  Ops \subseteq AllOps /\ MaxTasks \in Nat /\ NoOne \notin Callers

VARIABLES
  posted,    \* the number of tasks in the inbox; task n has turn n
  acked,     \* the tasks with a file in ack/
  asked,     \* the tasks with a question file in outbox/
  replied,   \* those of them whose question has an answer in the inbox
  results,   \* the tasks with a result file
  facts,     \* factsOf: whether a session is bound, its turn, its pending asks
  harness,   \* the harness: its step, the task its prompt came from, and
             \* whether that prompt is the task's hint
  typed,     \* the tasks whose hint was typed and not yet taken as a prompt
  notes,     \* the answers that were not yet taken as a prompt, by their task
  sendLock,  \* the caller that holds send.lock, or NoOne
  send,      \* per caller: its step
  hints,     \* the posted tasks whose hint is still to be typed
  look,      \* the wait's look: its step and what it has read
  truths,    \* history: what was true at the moments of the look
  calm,      \* history: the look saw no post, no new session, no other turn
  ended,     \* history: the tasks of which a turn of their own has ended
  crossed    \* history: a prompt that was no hint has acked a task

mail == <<posted, acked, asked, replied, results>>
prompts == <<typed, notes>>
calls == <<sendLock, send, hints>>
history == <<truths, calm, ended, crossed>>
vars == <<mail, facts, harness, prompts, calls, look, history>>

Tasks == 1 .. MaxTasks
Newest == posted
Turns == {"none", "running", "ended"}
HarnessSteps == {"boot", "idle", "prompted", "working", "asking", "exited"}
SendSteps == {"idle", "locked", "observed", "decided"}
LookSteps == {"idle", "acks", "events", "questions", "results", "pane", "settled"}
Outcomes == {"none", "gone", "done", "asks", "idle_no_result", "ready"}
NoLook == [at |-> "idle", task |-> 0, acked |-> FALSE, bound |-> FALSE, turn |-> "none",
           ask |-> FALSE, question |-> FALSE, answered |-> FALSE, pending |-> FALSE,
           out |-> "none"]

TypeOK ==
  /\ posted \in 0 .. MaxTasks
  /\ acked \subseteq Tasks /\ asked \subseteq Tasks /\ replied \subseteq asked
  /\ results \subseteq Tasks /\ typed \subseteq Tasks /\ hints \subseteq Tasks
  /\ notes \subseteq replied /\ ended \subseteq Tasks
  /\ facts \in [bound : BOOLEAN, turn : Turns, ask : BOOLEAN]
  /\ harness \in [at : HarnessSteps, task : 0 .. MaxTasks, hinted : BOOLEAN]
  /\ sendLock \in Callers \cup {NoOne}
  /\ send \in [Callers -> SendSteps]
  /\ \A c \in Callers : (send[c] \in {"locked", "observed", "decided"}) <=> (sendLock = c)
  /\ look \in [at : LookSteps, task : 0 .. MaxTasks, acked : BOOLEAN, bound : BOOLEAN,
              turn : Turns, ask : BOOLEAN, question : BOOLEAN, answered : BOOLEAN,
              pending : BOOLEAN, out : Outcomes]
  /\ truths \subseteq Outcomes \X (0 .. MaxTasks)
  /\ calm \in BOOLEAN /\ crossed \in BOOLEAN

(* The brief, when there is one, is the first task; the boot types it.     *)
Init ==
  /\ posted \in {0, 1} \cap (0 .. MaxTasks)
  /\ acked = {} /\ asked = {} /\ replied = {} /\ results = {}
  /\ facts = [bound |-> FALSE, turn |-> "none", ask |-> FALSE]
  /\ harness = [at |-> "boot", task |-> 0, hinted |-> FALSE]
  /\ typed = 1 .. posted /\ notes = {} /\ hints = {}
  /\ sendLock = NoOne /\ send = [c \in Callers |-> "idle"]
  /\ look = NoLook /\ truths = {} /\ calm = TRUE /\ ended = {} /\ crossed = FALSE

(***************************************************************************)
(* The worker: its harness, its hooks and the files it writes.             *)
(***************************************************************************)
Rests(step) == [at |-> step, task |-> 0, hinted |-> FALSE]

Bind ==
  /\ \/ harness.at = "boot"
     \/ harness.at = "idle" /\ "clear" \in Ops /\ facts.turn # "none"
  /\ facts' = [bound |-> TRUE, turn |-> "none", ask |-> FALSE]
  /\ harness' = Rests("idle")
  /\ UNCHANGED <<mail, prompts, calls, look>>

(* UserPromptSubmit: the prompt event is written before the ack.  A prompt *)
(* is the hint of a task, an answer, or what a person typed.               *)
PromptEvent ==
  /\ harness.at = "idle"
  /\ \/ \E t \in typed :
          /\ typed' = typed \ {t} /\ UNCHANGED notes
          /\ harness' = [at |-> "prompted", task |-> t, hinted |-> TRUE]
     \/ \E t \in notes \cup (IF "person" \in Ops THEN {0} ELSE {}) :
          /\ notes' = notes \ {t} /\ UNCHANGED typed
          /\ harness' = [at |-> "prompted", task |-> t, hinted |-> FALSE]
  /\ facts' = [facts EXCEPT !.turn = "running", !.ask = FALSE]
  /\ UNCHANGED <<mail, calls, look>>

\* Mutant: a worker that has acked a task acks no other.
AckNewestOnce ==
  /\ harness.at = "prompted"
  /\ acked' = IF acked = {} THEN {Newest} \cap Tasks ELSE acked
  /\ harness' = [harness EXCEPT !.at = "working"]
  /\ UNCHANGED <<posted, asked, replied, results, facts, prompts, calls, look>>

(* The ack names the newest task in the inbox, whatever the prompt was.    *)
AckNewest ==
  /\ harness.at = "prompted"
  /\ acked' = acked \cup ({Newest} \cap Tasks)
  /\ harness' = [harness EXCEPT !.at = "working"]
  /\ UNCHANGED <<posted, asked, replied, results, facts, prompts, calls, look>>

(* `delegate reply --ask`, or a question tool: the worker waits for an     *)
(* answer, which may also be typed into its pane.                          *)
AskInFile ==
  /\ harness.at = "working" /\ harness.task \in Tasks \ (asked \cup results)
  /\ asked' = asked \cup {harness.task}
  /\ UNCHANGED <<posted, acked, replied, results, facts, harness, prompts, calls, look>>

AskInPane ==
  /\ harness.at = "working" /\ ~facts.ask
  /\ facts' = [facts EXCEPT !.ask = TRUE]
  /\ harness' = [harness EXCEPT !.at = "asking"]
  /\ UNCHANGED <<mail, prompts, calls, look>>

AnswerTyped ==
  /\ harness.at = "asking"
  /\ facts' = [facts EXCEPT !.ask = FALSE]
  /\ harness' = [harness EXCEPT !.at = "working"]
  /\ UNCHANGED <<mail, prompts, calls, look>>

WriteResult ==
  /\ harness.at = "working" /\ harness.task \in Tasks \ results
  /\ results' = results \cup {harness.task}
  /\ UNCHANGED <<posted, acked, asked, replied, facts, harness, prompts, calls, look>>

\* Mutant: the stop event waits for the result.
StopTurnWithResult ==
  /\ harness.at = "working"
  /\ facts' = [facts EXCEPT !.turn = IF harness.task \in results THEN "ended" ELSE @, !.ask = FALSE]
  /\ harness' = Rests("idle")
  /\ UNCHANGED <<mail, prompts, calls, look>>

(* The turn ends, with its result file or without one.                     *)
StopTurn ==
  /\ harness.at = "working"
  /\ facts' = [facts EXCEPT !.turn = "ended", !.ask = FALSE]
  /\ harness' = Rests("idle")
  /\ UNCHANGED <<mail, prompts, calls, look>>

ExitHarness ==
  /\ "exit" \in Ops /\ harness.at \in {"idle", "working"}
  /\ harness' = Rests("exited") /\ typed' = {} /\ notes' = {}
  /\ UNCHANGED <<mail, facts, calls, look>>

(***************************************************************************)
(* What is true of the worker at one moment.                               *)
(***************************************************************************)
Lost == facts.bound /\ harness.at = "exited"
PendingQFile == Newest \in asked \ (replied \cup results)
Unacked == Newest \in Tasks \ acked

(* Ready, and settle's rule over it: which outcome ends a wait.            *)
Settles(lost, answered, ask, pending, unacked, bound, turn) ==
  IF lost THEN "gone"
  ELSE IF answered THEN "done"
  ELSE IF ask THEN "asks"
  ELSE IF (pending /\ unacked) \/ ~bound \/ turn = "running" THEN "none"
  ELSE IF turn = "ended" /\ pending THEN "idle_no_result"
  ELSE "ready"

Now == <<Settles(Lost, Newest \in results, facts.ask \/ PendingQFile,
                 Newest \in Tasks \ results, Unacked, facts.bound, facts.turn), Newest>>

AcceptsInput == facts.bound /\ facts.turn # "running" /\ ~Lost /\ ~facts.ask /\ ~PendingQFile

(***************************************************************************)
(* Callers.                                                                *)
(***************************************************************************)

\* Mutant: the lock file is opened but not locked.
TakeSendUnlocked(c) ==
  /\ send[c] = "idle" /\ posted < MaxTasks
  /\ "concurrent" \in Ops \/ look.at \in {"idle", "settled"}
  /\ sendLock' = c /\ send' = [send EXCEPT ![c] = "locked"]
  /\ UNCHANGED <<mail, facts, harness, prompts, hints, look>>

TakeSend(c) ==
  /\ send[c] = "idle" /\ sendLock = NoOne /\ posted < MaxTasks
  /\ "concurrent" \in Ops \/ look.at \in {"idle", "settled"}
  /\ sendLock' = c /\ send' = [send EXCEPT ![c] = "locked"]
  /\ UNCHANGED <<mail, facts, harness, prompts, hints, look>>

(* A refusal writes nothing and gives the lock back.                       *)
DecidesIf(c, ok, step) ==
  IF ok THEN send' = [send EXCEPT ![c] = step] /\ UNCHANGED sendLock
  ELSE send' = [send EXCEPT ![c] = "idle"] /\ sendLock' = NoOne

(* Readiness and the input line are read under the lock.                   *)
ObserveSend(c) ==
  /\ send[c] = "locked" /\ DecidesIf(c, AcceptsInput, "observed")
  /\ UNCHANGED <<mail, facts, harness, prompts, hints, look>>

\* Mutant: the newest task need not be acked.
CheckAckedNever(c) ==
  /\ send[c] = "observed" /\ DecidesIf(c, TRUE, "decided")
  /\ UNCHANGED <<mail, facts, harness, prompts, hints, look>>

(* Then the newest task must be acked.                                     *)
CheckAcked(c) ==
  /\ send[c] = "observed" /\ DecidesIf(c, ~Unacked, "decided")
  /\ UNCHANGED <<mail, facts, harness, prompts, hints, look>>

PostTask(c) ==
  /\ send[c] = "decided"
  /\ posted' = IF posted < MaxTasks THEN posted + 1 ELSE posted
  /\ hints' = hints \cup {posted'}
  /\ send' = [send EXCEPT ![c] = "idle"] /\ sendLock' = NoOne
  /\ UNCHANGED <<acked, asked, replied, results, facts, harness, prompts, look>>

(* The hint is typed after the lock is released, or fails: the task is in  *)
(* the inbox anyway.                                                       *)
TypeHint ==
  \E t \in hints :
    /\ hints' = hints \ {t}
    /\ \/ harness.at # "exited" /\ typed' = typed \cup {t}
       \/ (harness.at = "exited" \/ "lostHint" \in Ops) /\ UNCHANGED typed
    /\ UNCHANGED <<mail, facts, harness, notes, sendLock, send, look>>

(* `delegate answer`: a note in reply to the question.  Its text is typed, *)
(* without the send lock, and is a prompt like any other when the harness  *)
(* comes to take it, unless a dialog takes it or nobody does.  An answer   *)
(* to an ask in the pane is typed into its dialog (AnswerTyped), and one   *)
(* that comes too late for it is like a person's prompt.                   *)
Answer ==
  /\ PendingQFile
  /\ replied' = replied \cup {Newest}
  /\ \/ harness.at # "exited" /\ notes' = notes \cup {Newest}
     \/ (harness.at \in {"exited", "asking"} \/ "lostHint" \in Ops) /\ UNCHANGED notes
  /\ UNCHANGED <<posted, acked, asked, results, facts, harness, typed, calls, look>>

(***************************************************************************)
(* One look of a wait.                                                     *)
(***************************************************************************)
LookStarts ==
  /\ look.at \in {"idle", "settled"}
  /\ "concurrent" \in Ops \/ (hints = {} /\ \A c \in Callers : send[c] = "idle")
  /\ look' = [NoLook EXCEPT !.at = "acks"]
  /\ UNCHANGED <<mail, facts, harness, prompts, calls>>

(* The ack is read before the events: the hook writes its prompt event     *)
(* before the ack, so the turn of an ack that is seen is in the events.    *)
ReadAck ==
  /\ look.at = "acks"
  /\ look' = [look EXCEPT !.at = "events", !.task = Newest, !.acked = Newest \in acked]
  /\ UNCHANGED <<mail, facts, harness, prompts, calls>>

ReadEvents ==
  /\ look.at = "events"
  /\ look' = [look EXCEPT !.at = "questions", !.bound = facts.bound, !.turn = facts.turn,
                          !.ask = facts.ask]
  /\ UNCHANGED <<mail, facts, harness, prompts, calls>>

(* Questions before the result: a result hides its task's questions.       *)
ReadQuestions ==
  /\ look.at = "questions"
  /\ look' = [look EXCEPT !.at = "results", !.question = PendingQFile]
  /\ UNCHANGED <<mail, facts, harness, prompts, calls>>

ReadResults ==
  /\ look.at = "results"
  /\ look' = [look EXCEPT !.at = "pane", !.answered = Newest \in results,
                          !.pending = Newest \in Tasks \ results]
  /\ UNCHANGED <<mail, facts, harness, prompts, calls>>

\* Mutant: asks that went away were answered by the result, which is not looked at.
SettleOnGoneAsks(unacked) ==
  /\ look.at = "pane"
  /\ LET out == Settles(Lost, look.answered, look.ask \/ look.question, look.pending,
                        unacked, look.bound, look.turn)
         real == IF out # "asks" \/ look.ask \/ PendingQFile THEN out ELSE "done"
     IN look' = [NoLook EXCEPT !.at = "settled", !.out = real]
  /\ UNCHANGED <<mail, facts, harness, prompts, calls>>

(* The asks of a look are the events' as they were read, and the question  *)
(* files as they are now; one without any settles on its result or goes on.*)
SettleOn(unacked) ==
  /\ look.at = "pane"
  /\ LET out == Settles(Lost, look.answered, look.ask \/ look.question, look.pending,
                        unacked, look.bound, look.turn)
         real == IF out # "asks" \/ look.ask \/ PendingQFile THEN out
                 ELSE IF Newest \in results THEN "done" ELSE "none"
     IN look' = [NoLook EXCEPT !.at = "settled", !.out = real]
  /\ UNCHANGED <<mail, facts, harness, prompts, calls>>

\* Mutant: the ack is read after the events.
SettleLookAckLast == SettleOn(look.task \in Tasks \ acked)

(* The pane is read last, and the look settles or is taken again.          *)
SettleLook == SettleOn(look.task \in Tasks /\ ~look.acked)

Step ==
  \/ Bind \/ PromptEvent \/ AckNewest \/ AskInFile \/ AskInPane \/ AnswerTyped
  \/ WriteResult \/ StopTurn \/ ExitHarness
  \/ \E c \in Callers : \/ TakeSend(c) \/ ObserveSend(c) \/ CheckAcked(c)
                        \/ PostTask(c)
  \/ TypeHint \/ Answer
  \/ LookStarts \/ ReadAck \/ ReadEvents \/ ReadQuestions \/ ReadResults \/ SettleLook

(* The history collects what is true at the moments of a look.             *)
Looking == look.at \notin {"idle", "settled"}
Next ==
  /\ Step
  /\ calm' = (Looking' => /\ Looking => calm
                          /\ posted' = posted
                          /\ harness.at = "idle" /\ harness'.at = "prompted" =>
                               harness'.task = Newest
                          /\ facts.turn = "none" \/ facts'.turn # "none")
  /\ truths' = IF Looking' /\ calm'
               THEN (IF Looking THEN truths ELSE {}) \cup {Now'} ELSE {}
  /\ ended' = IF harness.at = "working" /\ harness'.at = "idle"
              THEN ended \cup ({harness.task} \cap Tasks) ELSE ended
  /\ crossed' = (crossed \/ (harness.at = "prompted" /\ ~harness.hinted /\ acked' # acked))

Spec == Init /\ [][Next]_vars

(* The worker goes on with its turns and asks finitely often in each, a    *)
(* caller finishes its send, and a wait polls.  That a worker writes its   *)
(* result is its own affair.                                               *)
FairSpec ==
  /\ Spec
  /\ WF_vars(Next /\ ((Bind /\ harness.at = "boot") \/ PromptEvent \/ AckNewest \/ AnswerTyped))
  /\ SF_vars(Next /\ StopTurn)
  /\ \A c \in Callers :
       WF_vars(Next /\ (ObserveSend(c) \/ CheckAcked(c) \/ PostTask(c)))
  /\ WF_vars(Next /\ TypeHint)
  /\ WF_vars(Next /\ (LookStarts \/ ReadAck \/ ReadEvents \/ ReadQuestions
                      \/ ReadResults \/ SettleLook))

(***************************************************************************)
(* Properties                                                              *)
(***************************************************************************)

(* A worker has one task it has not started: send refuses another, from    *)
(* whichever caller (mail.go: "a second task would be acked in the first   *)
(* one's place").                                                          *)
OneUnacked == Cardinality((1 .. posted) \ acked) <= 1

(* What holds in every state.                                              *)
TurnsSound == TypeOK /\ OneUnacked

(* What a wait settles on was true of the worker at some moment of its     *)
(* look, when no task was posted, no new session bound and no other turn   *)
(* than the newest task's began during it.                                 *)
SettledOnTruth ==
  [][look.at = "pane" /\ calm /\ look'.out # "none" => <<look'.out, look.task>> \in truths]_vars

(* A wait that settles on an idle worker has seen a turn of its own task   *)
(* end (wait.go: "While the newest task is not yet acked, the hook turn    *)
(* state belongs to an older turn and is rejected"): it reads the ack      *)
(* before the events.  An answer's or a person's prompt that acks a task   *)
(* in passing breaks it, since the ack is then of another turn.            *)
IdleAfterOwnTurn ==
  [][look.at = "pane" /\ look'.out \in {"idle_no_result", "ready"} /\ look.task \in Tasks
       /\ ~crossed => look.task \in ended]_vars

(* An ack says that the worker's prompt was the task's (delegate_events.go: *)
(* the ack "tells wait that the turn belongs to that task"), until one that *)
(* is no hint, an answer or what a person typed, acks a task that was sent  *)
(* meanwhile.                                                               *)
AckIsOwnTurn ==
  [][~crossed' => \A t \in acked' \ acked : harness.task = t]_vars

(* A wait reports asks that are pending (wait.go: "never report asks with  *)
(* nothing to answer").  Not so of an ask in the pane: the events are not  *)
(* read again.                                                             *)
AsksArePending ==
  [][look.at = "pane" /\ look'.out = "asks" => facts.ask \/ PendingQFile]_vars

(* A task whose hint was typed is acked unless the worker exits, and a     *)
(* wait on it then settles.                                                *)
HintIsTaken == \A t \in Tasks : t \in typed ~> (t \in acked \/ harness.at = "exited")
WaitEnds ==
  (posted \in acked) ~>
    ((look.at = "settled" /\ look.out # "none") \/ posted \notin acked)

(* A task that was told of is taken, and the wait for it ends.             *)
WaitSettles == HintIsTaken /\ WaitEnds
=============================================================================

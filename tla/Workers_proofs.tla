--------------------------- MODULE Workers_proofs ---------------------------
(***************************************************************************)
(* Proofs about delegate workers, for any number of callers, tasks, runs   *)
(* and panes.  WorkerTurns: a worker has one task it has not started, an   *)
(* ack names the task whose prompt the worker took, an idle verdict comes  *)
(* after a turn of the task's own, and what a wait settles on was true.    *)
(* WorkerRows: one worker per item and name, no more than the cap of the   *)
(* tab, one end per run, every ended run finished, and no worker brought   *)
(* down by the release of another one's pane.                              *)
(***************************************************************************)
EXTENDS WorkerTurns, WorkerRows, FiniteSetTheorems, TLAPS

\* Only the newest task may be unacked, and a caller that has decided to post
\* has found it acked; nobody else posts before it does.
OldAcked ==
  /\ acked \subseteq 1 .. posted
  /\ \A t \in 1 .. posted : t # posted => t \in acked
DecidedAcked ==
  /\ \A c \in Callers : send[c] = "decided" => ~Unacked
  /\ sendLock # NoOne => posted < MaxTasks

TurnInv == TypeOK /\ OldAcked /\ DecidedAcked

\* Until a prompt that is no hint acks a task, a hint is of the newest task and
\* typed once: while it is being typed no other one is, and once it is a prompt
\* none is left.
TypedOnce ==
  ~crossed =>
    /\ \A t \in typed \cup hints : t = posted /\ t \notin acked
    /\ typed = {} \/ hints = {}
    /\ harness.at = "prompted" /\ harness.hinted =>
         harness.task = posted /\ Unacked /\ typed = {} /\ hints = {}

\* A task is asked about in a turn of its own, which takes its hint.
Untaken ==
  /\ asked \subseteq 1 .. posted /\ typed \cup hints \subseteq 1 .. posted
  /\ harness.task <= posted /\ typed \cap hints = {}
  /\ \A t \in typed \cup hints : t \notin asked /\ harness.task # t

-----------------------------------------------------------------------------
LEMMA TurnInitHolds == Init => TurnInv
<1> SUFFICES ASSUME Init PROVE TurnInv
  OBVIOUS
<1> USE TurnConstants
<1>1. posted \in 0 .. MaxTasks /\ typed \subseteq Tasks
  BY DEF Init, Tasks
<1>2. TypeOK
  <2>1. look \in [at : LookSteps, task : 0 .. MaxTasks, acked : BOOLEAN, bound : BOOLEAN,
                  turn : Turns, ask : BOOLEAN, question : BOOLEAN, answered : BOOLEAN,
                  pending : BOOLEAN, out : Outcomes]
    BY DEF Init, NoLook, LookSteps, Turns, Outcomes
  <2>2. harness \in [at : HarnessSteps, task : 0 .. MaxTasks, hinted : BOOLEAN]
    BY DEF Init, HarnessSteps
  <2>3. facts \in [bound : BOOLEAN, turn : Turns, ask : BOOLEAN]
    BY DEF Init, Turns
  <2> QED BY <1>1, <2>1, <2>2, <2>3 DEF Init, TypeOK, SendSteps
<1>3. OldAcked
  BY <1>1 DEF Init, OldAcked
<1>4. DecidedAcked
  BY DEF Init, DecidedAcked
<1> QED BY <1>2, <1>3, <1>4 DEF TurnInv

HarnessType == [at : HarnessSteps, task : 0 .. MaxTasks, hinted : BOOLEAN]
LookType == [at : LookSteps, task : 0 .. MaxTasks, acked : BOOLEAN, bound : BOOLEAN,
             turn : Turns, ask : BOOLEAN, question : BOOLEAN, answered : BOOLEAN,
             pending : BOOLEAN, out : Outcomes]

\* The part of the type invariant that the actions themselves keep.
StepTyped ==
  /\ posted \in 0 .. MaxTasks
  /\ acked \subseteq Tasks /\ asked \subseteq Tasks /\ replied \subseteq asked
  /\ results \subseteq Tasks /\ typed \subseteq Tasks /\ hints \subseteq Tasks
  /\ notes \subseteq replied
  /\ facts \in [bound : BOOLEAN, turn : Turns, ask : BOOLEAN]
  /\ harness \in HarnessType
  /\ sendLock \in Callers \cup {NoOne}
  /\ send \in [Callers -> SendSteps]
  /\ \A c \in Callers : (send[c] \in {"locked", "observed", "decided"}) <=> (sendLock = c)
  /\ look \in LookType

\* The actions of the worker and of a caller that answers.
LEMMA WorkerTyped ==
  ASSUME TypeOK,
         \/ Bind \/ PromptEvent \/ AckNewest \/ AskInFile \/ AskInPane \/ AnswerTyped
         \/ WriteResult \/ StopTurn \/ ExitHarness \/ Answer
  PROVE  StepTyped'
<1> USE TurnConstants
    DEF TypeOK, StepTyped, Tasks, Newest, Turns, HarnessSteps, HarnessType, LookType, Rests, mail,
        prompts, calls
<1>1. CASE Bind
  BY <1>1 DEF Bind
<1>2. CASE PromptEvent
  <2>1. facts' \in [bound : BOOLEAN, turn : Turns, ask : BOOLEAN]
    BY <1>2 DEF PromptEvent
  <2>2. typed' \subseteq typed /\ notes' \subseteq notes
    BY <1>2 DEF PromptEvent
  <2>4. typed \subseteq 0 .. MaxTasks /\ notes \subseteq 0 .. MaxTasks /\ 0 \in 0 .. MaxTasks
    OBVIOUS
  <2>5. \/ \E t \in typed : harness' = [at |-> "prompted", task |-> t, hinted |-> TRUE]
        \/ \E t \in notes \cup {0} : harness' = [at |-> "prompted", task |-> t, hinted |-> FALSE]
    BY <1>2 DEF PromptEvent
  <2>3. PICK t \in 0 .. MaxTasks, h \in BOOLEAN :
          harness' = [at |-> "prompted", task |-> t, hinted |-> h]
    BY <2>4, <2>5
  <2> QED BY <1>2, <2>1, <2>2, <2>3 DEF PromptEvent
<1>3. CASE AckNewest
  BY <1>3 DEF AckNewest
<1>4. CASE AskInFile
  <2>1. asked' \subseteq Tasks /\ replied' \subseteq asked'
    BY <1>4 DEF AskInFile
  <2>2. UNCHANGED <<posted, acked, replied, results, facts, harness, typed, notes, hints, sendLock,
                    send, look>>
    BY <1>4 DEF AskInFile
  <2> QED BY <2>1, <2>2
<1>5. CASE AskInPane
  BY <1>5 DEF AskInPane
<1>6. CASE AnswerTyped
  BY <1>6 DEF AnswerTyped
<1>7. CASE WriteResult
  <2>1. results' \subseteq Tasks
    BY <1>7 DEF WriteResult
  <2>2. UNCHANGED <<posted, acked, asked, replied, facts, harness, typed, notes, hints, sendLock,
                    send, look>>
    BY <1>7 DEF WriteResult
  <2> QED BY <2>1, <2>2
<1>8. CASE StopTurn
  <2>1. facts' \in [bound : BOOLEAN, turn : Turns, ask : BOOLEAN]
    BY <1>8 DEF StopTurn
  <2> QED BY <1>8, <2>1 DEF StopTurn
<1>9. CASE ExitHarness
  BY <1>9 DEF ExitHarness
<1>10. CASE Answer
  <2>1. replied' \subseteq asked /\ notes' \subseteq replied'
    BY <1>10 DEF Answer, PendingQFile
  <2> QED BY <1>10, <2>1 DEF Answer
<1> QED BY <1>1, <1>2, <1>3, <1>4, <1>5, <1>6, <1>7, <1>8, <1>9, <1>10

CallerStep(c) == TakeSend(c) \/ ObserveSend(c) \/ CheckAcked(c) \/ PostTask(c)

LEMMA HintTyped ==
  ASSUME TypeOK, TypeHint PROVE StepTyped'
<1>1. typed' \subseteq Tasks /\ hints' \subseteq Tasks
  BY DEF TypeHint, TypeOK
<1> QED BY <1>1 DEF TypeHint, TypeOK, StepTyped, HarnessType, LookType, mail

LEMMA CallerTyped ==
  ASSUME TypeOK, DecidedAcked, NEW c \in Callers, CallerStep(c) PROVE StepTyped'
<1> USE TurnConstants
    DEF TypeOK, StepTyped, SendSteps, HarnessType, LookType, mail, prompts, calls
<1>1. CASE TakeSend(c)
  BY <1>1 DEF TakeSend
<1>2. CASE ObserveSend(c)
  BY <1>2 DEF ObserveSend, DecidesIf
<1>3. CASE CheckAcked(c)
  BY <1>3 DEF CheckAcked, DecidesIf
<1>4. CASE PostTask(c)
  <2>1. posted < MaxTasks /\ posted' = posted + 1 /\ posted' \in Tasks
    BY <1>4 DEF PostTask, DecidedAcked, Tasks
  <2>2. hints' \subseteq Tasks
    BY <1>4, <2>1 DEF PostTask
  <2> QED BY <1>4, <2>1, <2>2 DEF PostTask
<1> QED BY <1>1, <1>2, <1>3, <1>4 DEF CallerStep

LookStep == LookStarts \/ ReadAck \/ ReadEvents \/ ReadQuestions \/ ReadResults \/ SettleLook

LEMMA LookRecord ==
  ASSUME NEW at \in LookSteps, NEW task \in 0 .. MaxTasks, NEW ack \in BOOLEAN,
         NEW bound \in BOOLEAN, NEW turn \in Turns, NEW ask \in BOOLEAN,
         NEW question \in BOOLEAN, NEW answered \in BOOLEAN, NEW pending \in BOOLEAN,
         NEW out \in Outcomes
  PROVE  [at |-> at, task |-> task, acked |-> ack, bound |-> bound, turn |-> turn,
          ask |-> ask, question |-> question, answered |-> answered, pending |-> pending,
          out |-> out] \in LookType
BY DEF LookType

LEMMA LookTyped ==
  ASSUME TypeOK, LookStep PROVE StepTyped'
<1>t. look \in LookType
  BY DEF TypeOK, LookType
<1>f. /\ look.task \in 0 .. MaxTasks /\ look.acked \in BOOLEAN /\ look.bound \in BOOLEAN
      /\ look.turn \in Turns /\ look.ask \in BOOLEAN /\ look.question \in BOOLEAN
      /\ look.answered \in BOOLEAN /\ look.pending \in BOOLEAN /\ look.out \in Outcomes
  BY <1>t DEF LookType
<1>s. ASSUME look' \in LookType, UNCHANGED <<mail, facts, harness, prompts, calls>>
      PROVE  StepTyped'
  BY <1>s DEF TypeOK, StepTyped, HarnessType, mail, prompts, calls
<1>1. CASE LookStarts
  <2>1. look' = [at |-> "acks", task |-> 0, acked |-> FALSE, bound |-> FALSE, turn |-> "none",
                 ask |-> FALSE, question |-> FALSE, answered |-> FALSE, pending |-> FALSE,
                 out |-> "none"]
    BY <1>1 DEF LookStarts, NoLook
  <2>2. "acks" \in LookSteps /\ "none" \in Turns /\ "none" \in Outcomes /\ 0 \in 0 .. MaxTasks
    BY TurnConstants DEF LookSteps, Turns, Outcomes
  <2>3. look' \in LookType
    BY <2>1, <2>2, LookRecord
  <2> QED BY <1>1, <1>s, <2>3 DEF LookStarts
<1>2. CASE ReadAck
  <2>1. look' = [look EXCEPT !.at = "events", !.task = posted, !.acked = (posted \in acked)]
    BY <1>2 DEF ReadAck, Newest
  <2>2. look' = [at |-> "events", task |-> posted, acked |-> (posted \in acked),
                 bound |-> look.bound, turn |-> look.turn, ask |-> look.ask, question |-> look.question,
                 answered |-> look.answered, pending |-> look.pending, out |-> look.out]
    BY <1>t, <2>1 DEF LookType
  <2>3. "events" \in LookSteps /\ posted \in 0 .. MaxTasks /\ (posted \in acked) \in BOOLEAN
    BY DEF LookSteps, TypeOK
  <2>4. [at |-> "events", task |-> posted, acked |-> (posted \in acked),
         bound |-> look.bound, turn |-> look.turn, ask |-> look.ask, question |-> look.question,
         answered |-> look.answered, pending |-> look.pending, out |-> look.out] \in LookType
    BY <1>f, <2>3 DEF LookType
  <2> QED BY <1>2, <1>s, <2>2, <2>4 DEF ReadAck
<1>3. CASE ReadEvents
  <2>1. look' = [at |-> "questions", task |-> look.task, acked |-> look.acked,
                 bound |-> facts.bound, turn |-> facts.turn, ask |-> facts.ask, question |-> look.question,
                 answered |-> look.answered, pending |-> look.pending, out |-> look.out]
    BY <1>3, <1>t DEF ReadEvents, LookType
  <2>2. "questions" \in LookSteps /\ facts.bound \in BOOLEAN /\ facts.turn \in Turns
        /\ facts.ask \in BOOLEAN
    BY DEF LookSteps, TypeOK
  <2>3. [at |-> "questions", task |-> look.task, acked |-> look.acked,
         bound |-> facts.bound, turn |-> facts.turn, ask |-> facts.ask, question |-> look.question,
         answered |-> look.answered, pending |-> look.pending, out |-> look.out] \in LookType
    BY <1>f, <2>2 DEF LookType
  <2> QED BY <1>3, <1>s, <2>1, <2>3 DEF ReadEvents
<1>4. CASE ReadQuestions
  <2>1. PICK q \in BOOLEAN : look' = [look EXCEPT !.at = "results", !.question = q]
    <3>1. PendingQFile \in BOOLEAN
      BY DEF PendingQFile
    <3> QED BY <1>4, <3>1, Zenon DEF ReadQuestions
  <2>2. look' = [at |-> "results", task |-> look.task, acked |-> look.acked,
                 bound |-> look.bound, turn |-> look.turn, ask |-> look.ask, question |-> q,
                 answered |-> look.answered, pending |-> look.pending, out |-> look.out]
    BY <1>t, <2>1 DEF LookType
  <2>3. "results" \in LookSteps
    BY DEF LookSteps
  <2>4. [at |-> "results", task |-> look.task, acked |-> look.acked,
         bound |-> look.bound, turn |-> look.turn, ask |-> look.ask, question |-> q,
         answered |-> look.answered, pending |-> look.pending, out |-> look.out] \in LookType
    BY <1>f, <2>3 DEF LookType
  <2> QED BY <1>4, <1>s, <2>2, <2>4 DEF ReadQuestions
<1>5. CASE ReadResults
  <2>1. PICK answered \in BOOLEAN, pending \in BOOLEAN :
          look' = [look EXCEPT !.at = "pane", !.answered = answered, !.pending = pending]
    <3>1. (Newest \in results) \in BOOLEAN /\ (Newest \in Tasks \ results) \in BOOLEAN
      OBVIOUS
    <3> QED BY <1>5, <3>1, Zenon DEF ReadResults
  <2>2. look' = [at |-> "pane", task |-> look.task, acked |-> look.acked,
                 bound |-> look.bound, turn |-> look.turn, ask |-> look.ask, question |-> look.question,
                 answered |-> answered, pending |-> pending, out |-> look.out]
    BY <1>t, <2>1 DEF LookType
  <2>3. "pane" \in LookSteps
    BY DEF LookSteps
  <2>4. [at |-> "pane", task |-> look.task, acked |-> look.acked,
         bound |-> look.bound, turn |-> look.turn, ask |-> look.ask, question |-> look.question,
         answered |-> answered, pending |-> pending, out |-> look.out] \in LookType
    BY <1>f, <2>3 DEF LookType
  <2> QED BY <1>5, <1>s, <2>2, <2>4 DEF ReadResults
<1>6. CASE SettleLook
  <2>1. PICK out \in Outcomes : look' = [NoLook EXCEPT !.at = "settled", !.out = out]
    BY <1>6, Zenon DEF SettleLook, SettleOn, Settles, Outcomes
  <2>2. look' = [at |-> "settled", task |-> 0, acked |-> FALSE, bound |-> FALSE, turn |-> "none",
                 ask |-> FALSE, question |-> FALSE, answered |-> FALSE, pending |-> FALSE,
                 out |-> out]
    BY <2>1 DEF NoLook
  <2>3. "settled" \in LookSteps /\ "none" \in Turns /\ 0 \in 0 .. MaxTasks
    BY TurnConstants DEF LookSteps, Turns
  <2>4. look' \in LookType
    BY <2>2, <2>3, LookRecord
  <2> QED BY <1>6, <1>s, <2>4 DEF SettleLook, SettleOn
<1> QED BY <1>1, <1>2, <1>3, <1>4, <1>5, <1>6 DEF LookStep

LEMMA TypeKept ==
  ASSUME TurnInv, Next PROVE TypeOK'
<1> USE DEF TurnInv
<1>1. StepTyped'
  BY WorkerTyped, CallerTyped, HintTyped, LookTyped DEF Next, Step, CallerStep, LookStep
<1>2. calm' \in BOOLEAN /\ crossed' \in BOOLEAN
  BY DEF Next, TypeOK
<1>5. ended' \subseteq Tasks
  BY DEF Next, TypeOK
<1>3. Now' \in Outcomes \X (0 .. MaxTasks)
  BY <1>1 DEF StepTyped, Now, Settles, Outcomes, Newest
<1>4. truths' \subseteq Outcomes \X (0 .. MaxTasks)
  BY <1>3 DEF Next, TypeOK
<1> QED BY <1>1, <1>2, <1>4, <1>5 DEF TypeOK, StepTyped, HarnessType, LookType

-----------------------------------------------------------------------------
\* A task becomes the newest only when the one before is acked.
LEMMA OneUnackedKept ==
  ASSUME TurnInv, Next PROVE OldAcked' /\ DecidedAcked'
<1> USE TurnConstants
    DEF TurnInv, TypeOK, OldAcked, DecidedAcked, Unacked, Newest, Tasks, mail, calls
<1>1. ASSUME NEW c \in Callers, TakeSend(c) PROVE OldAcked' /\ DecidedAcked'
  BY <1>1 DEF TakeSend
<1>2. ASSUME NEW c \in Callers, ObserveSend(c) PROVE OldAcked' /\ DecidedAcked'
  BY <1>2 DEF ObserveSend, DecidesIf
<1>3. ASSUME NEW c \in Callers, CheckAcked(c) PROVE OldAcked' /\ DecidedAcked'
  BY <1>3 DEF CheckAcked, DecidesIf
<1>4. ASSUME NEW c \in Callers, PostTask(c) PROVE OldAcked' /\ DecidedAcked'
  <2>1. sendLock = c /\ posted < MaxTasks /\ posted' = posted + 1 /\ acked' = acked
    BY <1>4 DEF PostTask
  <2>2. \A t \in 1 .. posted : t \in acked
    BY <1>4, <2>1 DEF PostTask
  <2>3. OldAcked'
    BY <2>1, <2>2
  <2>4. \A d \in Callers : send'[d] # "decided"
    BY <1>4, <2>1 DEF PostTask
  <2> QED BY <1>4, <2>1, <2>3, <2>4 DEF PostTask
<1>5. CASE TypeHint
  BY <1>5 DEF TypeHint
<1>6. CASE AckNewest
  BY <1>6 DEF AckNewest
<1>7. CASE \/ Bind \/ PromptEvent \/ AskInFile \/ AskInPane \/ AnswerTyped
           \/ WriteResult \/ StopTurn \/ ExitHarness \/ Answer
  BY <1>7 DEF Bind, PromptEvent, AskInFile, AskInPane, AnswerTyped, WriteResult, StopTurn,
              ExitHarness, Answer
<1>8. CASE LookStep
  BY <1>8 DEF LookStep, LookStarts, ReadAck, ReadEvents, ReadQuestions, ReadResults, SettleLook,
              SettleOn
<1> QED BY <1>1, <1>2, <1>3, <1>4, <1>5, <1>6, <1>7, <1>8 DEF Next, Step, LookStep

LEMMA TurnInvariant == Spec => []TurnInv
<1>1. TurnInv /\ [Next]_vars => TurnInv'
  <2>1. ASSUME TurnInv, Next PROVE TurnInv'
    BY <2>1, TypeKept, OneUnackedKept DEF TurnInv
  <2>2. ASSUME TurnInv, UNCHANGED vars PROVE TurnInv'
    BY <2>2 DEF TurnInv, TypeOK, OldAcked, DecidedAcked, Unacked, Newest, vars, mail, prompts, calls,
       history
  <2> QED BY <2>1, <2>2
<1> QED BY <1>1, TurnInitHolds, PTL DEF Spec

\* In every reachable state the files and the callers fit together, and one
\* task at most is unacked, for any number of callers, tasks and people typing.
THEOREM TurnsStaySound == Spec => []TurnsSound
<1>1. TurnInv => TurnsSound
  <2> SUFFICES ASSUME TurnInv PROVE OneUnacked
    BY DEF TurnInv, TurnsSound
  <2>1. (1 .. posted) \ acked \subseteq {posted}
    BY DEF TurnInv, OldAcked
  <2>2. IsFiniteSet({posted}) /\ Cardinality({posted}) = 1
    BY FS_Singleton
  <2>3. /\ IsFiniteSet((1 .. posted) \ acked)
        /\ Cardinality((1 .. posted) \ acked) <= Cardinality({posted})
    BY <2>1, <2>2, FS_Subset
  <2> QED BY <2>2, <2>3 DEF OneUnacked
<1> QED BY <1>1, TurnInvariant, PTL

-----------------------------------------------------------------------------
LEMMA TypedInitHolds == Init => TypedOnce
BY TurnConstants DEF Init, TypedOnce

LEMMA TypedOnceKept ==
  ASSUME TurnInv, TypedOnce, Next PROVE TypedOnce'
<1> SUFFICES ASSUME ~crossed' PROVE TypedOnce'
  BY DEF TypedOnce
<1>c. /\ ~crossed
      /\ harness.at = "prompted" /\ ~harness.hinted => acked' = acked
  BY DEF Next
<1> USE TurnConstants
    DEF TurnInv, TypeOK, OldAcked, DecidedAcked, TypedOnce, Unacked, Newest, Tasks, mail, prompts,
        calls, Rests
<1>1. ASSUME NEW c \in Callers, TakeSend(c) PROVE TypedOnce'
  BY <1>1, <1>c DEF TakeSend
<1>2. ASSUME NEW c \in Callers, ObserveSend(c) PROVE TypedOnce'
  BY <1>2, <1>c DEF ObserveSend, DecidesIf
<1>3. ASSUME NEW c \in Callers, CheckAcked(c) PROVE TypedOnce'
  BY <1>3, <1>c DEF CheckAcked, DecidesIf
<1>4. ASSUME NEW c \in Callers, PostTask(c) PROVE TypedOnce'
  <2>1. posted < MaxTasks /\ posted' = posted + 1 /\ acked' = acked /\ ~Unacked
    BY <1>4 DEF PostTask
  <2>2. typed = {} /\ hints = {} /\ ~(harness.at = "prompted" /\ harness.hinted)
    BY <1>c, <2>1
  <2>3. hints' = {posted'} /\ typed' = {} /\ harness' = harness
    BY <1>4, <2>1, <2>2 DEF PostTask
  <2>4. posted' \notin acked'
    BY <2>1
  <2> QED BY <2>2, <2>3, <2>4
<1>5. CASE TypeHint
  <2>1. PICK t \in hints : hints' = hints \ {t} /\ (typed' = typed \cup {t} \/ typed' = typed)
    BY <1>5 DEF TypeHint
  <2>2. UNCHANGED <<posted, acked, harness>>
    BY <1>5 DEF TypeHint
  <2>3. t = posted /\ t \notin acked /\ typed = {} /\ hints' = {}
        /\ ~(harness.at = "prompted" /\ harness.hinted)
    BY <1>c, <2>1
  <2> QED BY <2>1, <2>2, <2>3
<1>6. CASE PromptEvent
  <2>1. UNCHANGED <<posted, acked, hints>> /\ typed' \subseteq typed
    BY <1>6 DEF PromptEvent
  <2>2. \/ ~harness'.hinted
        \/ /\ harness'.task \in typed /\ typed' = typed \ {harness'.task}
    BY <1>6 DEF PromptEvent
  <2>3. CASE ~harness'.hinted
    BY <1>c, <2>1, <2>3
  <2>4. CASE harness'.task \in typed /\ typed' = typed \ {harness'.task}
    <3>2. harness'.task = posted /\ Unacked /\ hints = {} /\ \A t \in typed : t = posted
      BY <1>c, <2>4
    <3>1. harness'.task = posted /\ Unacked /\ typed' = {} /\ hints = {}
      BY <2>4, <3>2
    <3> QED BY <2>1, <3>1
  <2> QED BY <2>2, <2>3, <2>4
<1>7. CASE AckNewest
  <2>1. UNCHANGED <<posted, typed, hints>> /\ harness'.at = "working" /\ harness.at = "prompted"
    BY <1>7 DEF AckNewest
  <2>2. typed \cup hints = {} \/ acked' = acked
    BY <1>c, <2>1
  <2> QED BY <1>c, <2>1, <2>2
<1>8. CASE \/ Bind \/ AskInFile \/ AskInPane \/ AnswerTyped
           \/ WriteResult \/ StopTurn \/ ExitHarness \/ Answer
  BY <1>8, <1>c DEF Bind, AskInFile, AskInPane, AnswerTyped, WriteResult, StopTurn, ExitHarness, Answer
<1>9. CASE LookStep
  BY <1>9, <1>c DEF LookStep, LookStarts, ReadAck, ReadEvents, ReadQuestions, ReadResults, SettleLook,
                    SettleOn
<1> QED BY <1>1, <1>2, <1>3, <1>4, <1>5, <1>6, <1>7, <1>8, <1>9 DEF Next, Step, LookStep

\* An ack names the task whose prompt the worker took, until an answer's or a
\* person's prompt acks one: however sends, answers, lost hints, cleared sessions
\* and exits interleave, the newest task is then the one that was typed.
THEOREM AcksAreOwn == Spec => AckIsOwnTurn
<1>1. Init => TurnInv /\ TypedOnce
  BY TurnInitHolds, TypedInitHolds
<1>2. TurnInv /\ TypedOnce /\ [Next]_vars => TypedOnce'
  <2>1. ASSUME TypedOnce, UNCHANGED vars PROVE TypedOnce'
    BY <2>1 DEF TypedOnce, Unacked, Newest, vars, mail, prompts, calls, history
  <2> QED BY <2>1, TypedOnceKept
<1>3. TypedOnce /\ [Next]_vars =>
        [~crossed' => \A t \in acked' \ acked : harness.task = t]_vars
  <2> SUFFICES ASSUME TypedOnce, Next, ~crossed', NEW t \in acked' \ acked PROVE harness.task = t
    OBVIOUS
  <2>1. AckNewest
    BY DEF Next, Step, Bind, PromptEvent, AskInFile, AskInPane, AnswerTyped, WriteResult,
           StopTurn, ExitHarness, Answer, TakeSend, ObserveSend, CheckAcked, PostTask, TypeHint,
           LookStarts, ReadAck, ReadEvents, ReadQuestions, ReadResults, SettleLook, SettleOn, mail
  <2>2. ~crossed /\ harness.at = "prompted" /\ harness.hinted
    BY <2>1 DEF Next, AckNewest
  <2> QED BY <2>1, <2>2 DEF AckNewest, TypedOnce, Newest
<1> QED BY <1>1, <1>2, <1>3, TurnInvariant, PTL DEF Spec, AckIsOwnTurn

-----------------------------------------------------------------------------
(* What a wait has read of its task *)

\* The ack that was read stays; and of the newest task the results were read,
\* or there is none; only a settled look has an outcome.
LookTold ==
  /\ look.at # "settled" => look.out = "none"
  /\ look.at \in {"events", "questions", "results", "pane"} =>
       /\ look.task <= posted
       /\ look.acked => look.task \in acked
  /\ look.at = "pane" /\ look.task \in Tasks => look.answered \/ look.pending

\* The parts of a look that a step of it changes.
LEMMA LookParts ==
  ASSUME TypeOK
  PROVE  /\ LookStarts => look'.at = "acks" /\ look'.out = "none"
         /\ ReadAck \/ ReadEvents \/ ReadQuestions \/ ReadResults =>
              look'.out = look.out /\ look.at \notin {"settled", "pane"}
         /\ ReadAck => look'.at = "events" /\ look'.task = posted /\ (look'.acked <=> posted \in acked)
         /\ ReadEvents => /\ look'.at = "questions" /\ look'.task = look.task
                          /\ look'.acked = look.acked /\ look'.bound = facts.bound
                          /\ look'.turn = facts.turn /\ look'.ask = facts.ask
         /\ ReadQuestions => /\ look'.at = "results" /\ look'.task = look.task
                             /\ look'.acked = look.acked /\ look'.bound = look.bound
                             /\ look'.turn = look.turn /\ look'.ask = look.ask
                             /\ look'.question <=> PendingQFile
         /\ ReadResults => /\ look'.at = "pane" /\ look'.task = look.task
                           /\ look'.acked = look.acked /\ look'.bound = look.bound
                           /\ look'.turn = look.turn /\ look'.ask = look.ask
                           /\ look'.question = look.question
                           /\ look'.answered <=> posted \in results
                           /\ look'.pending <=> posted \in Tasks \ results
         /\ SettleLook => look'.at = "settled"
<1>1. DOMAIN look = {"at", "task", "acked", "bound", "turn", "ask", "question", "answered",
                     "pending", "out"}
  BY DEF TypeOK
<1> QED BY <1>1, Zenon DEF LookStarts, NoLook, ReadAck, ReadEvents, ReadQuestions, ReadResults,
    SettleLook, SettleOn, Newest

\* A step of the worker or of a caller keeps the look and every file.
LEMMA OthersKeepFiles ==
  ASSUME TurnInv, Step, ~LookStep
  PROVE  /\ look' = look /\ posted' \in Nat /\ posted <= posted'
         /\ acked \subseteq acked' /\ results \subseteq results'
<1> USE TurnConstants DEF TurnInv, TypeOK
<1>1. ASSUME NEW c \in Callers, CallerStep(c)
      PROVE  look' = look /\ posted' \in Nat /\ posted <= posted' /\ UNCHANGED <<acked, results>>
  BY <1>1 DEF CallerStep, TakeSend, ObserveSend, CheckAcked, PostTask, mail
<1>2. CASE \/ Bind \/ PromptEvent \/ AckNewest \/ AskInFile \/ AskInPane \/ AnswerTyped
           \/ WriteResult \/ StopTurn \/ ExitHarness \/ Answer \/ TypeHint
  BY <1>2 DEF Bind, PromptEvent, AckNewest, AskInFile, AskInPane, AnswerTyped, WriteResult,
              StopTurn, ExitHarness, Answer, TypeHint, mail
<1> QED BY <1>1, <1>2 DEF Step, LookStep, CallerStep

LEMMA LookStepKeepsFiles ==
  ASSUME LookStep
  PROVE  UNCHANGED <<posted, acked, asked, replied, results, facts, harness, typed, notes, hints>>
BY DEF LookStep, LookStarts, ReadAck, ReadEvents, ReadQuestions, ReadResults, SettleLook, SettleOn,
   mail, prompts, calls

LEMMA LookToldKept ==
  ASSUME TurnInv, LookTold, Next PROVE LookTold'
<1>1. TypeOK /\ posted \in 0 .. MaxTasks /\ posted \in Nat /\ look.task \in Nat
  BY TurnConstants DEF TurnInv, TypeOK
<1>2. CASE LookStep
  <2>1. UNCHANGED <<posted, acked, results>>
    BY <1>2, LookStepKeepsFiles
  <2>2. CASE LookStarts \/ SettleLook
    BY <1>1, <2>2, LookParts DEF LookTold
  <2>3. CASE ReadAck
    BY <1>1, <2>1, <2>3, LookParts DEF LookTold
  <2>4. CASE ReadEvents
    BY <1>1, <2>1, <2>4, LookParts DEF LookTold, ReadEvents
  <2>5. CASE ReadQuestions
    BY <1>1, <2>1, <2>5, LookParts DEF LookTold, ReadQuestions
  <2>6. CASE ReadResults
    <3>1. /\ look'.at = "pane" /\ look'.out = look.out /\ look.at \notin {"settled", "pane"}
          /\ look'.task = look.task /\ look'.acked = look.acked
          /\ look'.answered <=> posted \in results
          /\ look'.pending <=> posted \in Tasks \ results
      <4>1. /\ look'.at = "pane" /\ look'.task = look.task /\ look'.acked = look.acked
            /\ look'.answered <=> posted \in results
            /\ look'.pending <=> posted \in Tasks \ results
        BY <1>1, <2>6, LookParts, Zenon
      <4>2. look'.out = look.out /\ look.at \notin {"settled", "pane"}
        BY <1>1, <2>6, LookParts, Zenon
      <4> QED BY <4>1, <4>2
    <3>2. look.at = "results"
      BY <2>6 DEF ReadResults
    <3>3. look.task <= posted /\ (look.acked => look.task \in acked) /\ look.out = "none"
      BY <3>2 DEF LookTold
    <3>4. look.task \in Tasks => posted \in Tasks
      <4> HIDE DEF LookTold
      <4> QED BY <1>1, <3>3, TurnConstants DEF Tasks
    <3>5. look'.task \in Tasks => look'.answered \/ look'.pending
      BY <3>1, <3>4
    <3> QED BY <2>1, <3>1, <3>3, <3>5 DEF LookTold
  <2> QED BY <1>2, <2>2, <2>3, <2>4, <2>5, <2>6 DEF LookStep
<1>3. CASE ~LookStep
  <2>1. /\ look' = look /\ posted' \in Nat /\ posted <= posted' /\ acked \subseteq acked'
    BY <1>3, OthersKeepFiles DEF Next
  <2> QED BY <1>1, <2>1 DEF LookTold
<1> QED BY <1>2, <1>3

-----------------------------------------------------------------------------
(* Where the harness is *)

\* The events tell where the harness is.
HarnessFits ==
  /\ facts.bound <=> harness.at # "boot"
  /\ harness.at = "boot" => facts.turn = "none"
  /\ harness.at \in {"prompted", "working", "asking"} => facts.turn = "running"
  /\ harness.at = "idle" => facts.turn # "running"
  /\ facts.ask <=> harness.at = "asking"

LEMMA HarnessFitsKept ==
  ASSUME TurnInv, HarnessFits, Next PROVE HarnessFits'
<1> USE DEF HarnessFits, Rests
<1>0. facts \in [bound : BOOLEAN, turn : Turns, ask : BOOLEAN]
      /\ harness \in [at : HarnessSteps, task : 0 .. MaxTasks, hinted : BOOLEAN]
  BY DEF TurnInv, TypeOK
<1>1. CASE Bind
  BY <1>1 DEF Bind
<1>2. CASE PromptEvent
  <2>1. harness'.at = "prompted" /\ harness.at = "idle"
    BY <1>2 DEF PromptEvent
  <2>2. facts'.turn = "running" /\ facts'.ask = FALSE /\ facts'.bound = facts.bound
    BY <1>0, <1>2 DEF PromptEvent
  <2> QED BY <2>1, <2>2
<1>3. CASE AckNewest
  BY <1>0, <1>3 DEF AckNewest, HarnessSteps
<1>4. CASE AskInPane
  BY <1>0, <1>4 DEF AskInPane
<1>5. CASE AnswerTyped
  BY <1>0, <1>5 DEF AnswerTyped
<1>6. CASE StopTurn
  BY <1>0, <1>6 DEF StopTurn
<1>7. CASE ExitHarness
  BY <1>0, <1>7 DEF ExitHarness
<1>8. CASE UNCHANGED <<facts, harness>>
  BY <1>8
<1>9. \/ Bind \/ PromptEvent \/ AckNewest \/ AskInPane \/ AnswerTyped \/ StopTurn \/ ExitHarness
      \/ UNCHANGED <<facts, harness>>
  BY DEF Next, Step, AskInFile, WriteResult, Answer, TakeSend, ObserveSend, CheckAcked, PostTask,
     TypeHint, LookStarts, ReadAck, ReadEvents, ReadQuestions, ReadResults, SettleLook, SettleOn
<1> QED BY <1>1, <1>2, <1>3, <1>4, <1>5, <1>6, <1>7, <1>8, <1>9

\* Until a prompt that is no hint acks a task, every acked task but the one in
\* hand had a turn of its own, and it ended.
OwnEnded ==
  ~crossed =>
    /\ harness.at = "boot" => acked = {}
    /\ harness.at \in {"idle", "prompted"} => acked \subseteq ended
    /\ harness.at \in {"working", "asking"} => acked \subseteq ended \cup {harness.task}
    /\ harness.at = "exited" => acked \subseteq ended \/ facts.turn = "running"

\* A look that read the ack, and then no running turn, read after that end.
LookOwn ==
  ~crossed /\ look.at \in {"questions", "results", "pane"} /\ look.acked /\ look.task \in Tasks
    /\ look.turn # "running" => look.task \in ended

LEMMA OwnEndedKept ==
  ASSUME TurnInv, TypedOnce, HarnessFits, OwnEnded, Next PROVE OwnEnded'
<1> SUFFICES ASSUME ~crossed' PROVE OwnEnded'
  BY DEF OwnEnded
<1>c. /\ ~crossed /\ ended \subseteq ended'
      /\ harness.at = "prompted" /\ ~harness.hinted => acked' = acked
  BY DEF Next
<1>t. facts \in [bound : BOOLEAN, turn : Turns, ask : BOOLEAN]
      /\ harness \in [at : HarnessSteps, task : 0 .. MaxTasks, hinted : BOOLEAN]
      /\ acked \subseteq Tasks
  BY DEF TurnInv, TypeOK
<1> USE <1>c DEF OwnEnded, mail, Rests
<1>1. CASE Bind
  <2>1. harness'.at = "idle" /\ acked' = acked /\ harness.at \in {"boot", "idle"}
    BY <1>1 DEF Bind
  <2> QED BY <2>1
<1>2. CASE PromptEvent
  <2>1. harness'.at = "prompted" /\ acked' = acked /\ harness.at = "idle"
    BY <1>2 DEF PromptEvent
  <2> QED BY <2>1
<1>3. CASE AckNewest
  <2>1. /\ harness'.at = "working" /\ harness'.task = harness.task /\ harness.at = "prompted"
        /\ acked' \subseteq acked \cup {posted}
    BY <1>3, <1>t DEF AckNewest, Newest
  <2>2. acked' = acked \/ harness.task = posted
    BY <2>1 DEF TypedOnce
  <2> QED BY <2>1, <2>2
<1>4. CASE AskInPane \/ AnswerTyped
  <2>1. /\ harness'.at \in {"working", "asking"} /\ harness'.task = harness.task
        /\ harness.at \in {"working", "asking"} /\ acked' = acked
    BY <1>4, <1>t DEF AskInPane, AnswerTyped
  <2> QED BY <2>1
<1>5. CASE StopTurn
  <2>1. harness'.at = "idle" /\ harness.at = "working" /\ acked' = acked
    BY <1>5 DEF StopTurn
  <2>2. ended' = ended \cup ({harness.task} \cap Tasks)
    BY <2>1 DEF Next
  <2> QED BY <1>t, <2>1, <2>2
<1>6. CASE ExitHarness
  <2>1. /\ harness'.at = "exited" /\ harness.at \in {"idle", "working"}
        /\ acked' = acked /\ facts' = facts
    BY <1>6 DEF ExitHarness
  <2> QED BY <2>1 DEF HarnessFits
<1>7. CASE UNCHANGED <<facts, harness, acked>>
  BY <1>7
<1>8. \/ Bind \/ PromptEvent \/ AckNewest \/ AskInPane \/ AnswerTyped \/ StopTurn \/ ExitHarness
      \/ UNCHANGED <<facts, harness, acked>>
  BY DEF Next, Step, AskInFile, WriteResult, Answer, TakeSend, ObserveSend, CheckAcked, PostTask,
     TypeHint, LookStarts, ReadAck, ReadEvents, ReadQuestions, ReadResults, SettleLook, SettleOn
<1> QED BY <1>1, <1>2, <1>3, <1>4, <1>5, <1>6, <1>7, <1>8

LEMMA LookOwnKept ==
  ASSUME TurnInv, HarnessFits, OwnEnded, LookTold, LookOwn, Next PROVE LookOwn'
<1> SUFFICES ASSUME ~crossed', look'.at \in {"questions", "results", "pane"}, look'.acked,
                    look'.task \in Tasks, look'.turn # "running"
             PROVE  look'.task \in ended'
  BY DEF LookOwn
<1>c. ~crossed /\ ended \subseteq ended'
  BY DEF Next
<1>t. TypeOK /\ harness.at \in HarnessSteps
  BY DEF TurnInv, TypeOK
<1>1. CASE ReadEvents
  <2>1. look'.task = look.task /\ look'.acked = look.acked /\ look'.turn = facts.turn
        /\ look.at = "events"
    BY <1>1, <1>t, LookParts DEF ReadEvents
  <2>2. look.task \in acked
    BY <2>1 DEF LookTold
  <2>3. harness.at \in {"boot", "idle", "exited"}
    BY <1>t, <2>1 DEF HarnessFits, HarnessSteps
  <2> QED BY <1>c, <2>1, <2>2, <2>3 DEF OwnEnded
<1>2. CASE ReadQuestions \/ ReadResults
  <2>1. look'.task = look.task /\ look'.acked = look.acked /\ look'.turn = look.turn
        /\ look.at \in {"questions", "results"}
    BY <1>2, <1>t, LookParts DEF ReadQuestions, ReadResults
  <2> QED BY <1>c, <2>1 DEF LookOwn
<1>3. CASE LookStarts \/ ReadAck \/ SettleLook
  BY <1>3, <1>t, LookParts
<1>4. CASE ~LookStep
  <2>1. look' = look
    BY <1>4, OthersKeepFiles DEF Next
  <2> QED BY <1>c, <2>1 DEF LookOwn
<1> QED BY <1>1, <1>2, <1>3, <1>4 DEF LookStep

\* What a settled look says.
Said == Settles(Lost, look.answered, look.ask \/ look.question, look.pending,
                look.task \in Tasks /\ ~look.acked, look.bound, look.turn)

LEMMA SettledLook ==
  ASSUME SettleLook
  PROVE  look'.out = IF Said # "asks" \/ look.ask \/ PendingQFile THEN Said
                     ELSE IF posted \in results THEN "done" ELSE "none"
<1>1. look' = [NoLook EXCEPT !.at = "settled",
                             !.out = IF Said # "asks" \/ look.ask \/ PendingQFile THEN Said
                                     ELSE IF posted \in results THEN "done" ELSE "none"]
  BY Zenon DEF SettleLook, SettleOn, Newest, Said
<1> QED BY <1>1 DEF NoLook

\* A wait that settles on an idle worker has seen a turn of its own task end, for
\* however many callers, and however sends, cleared sessions, exits and answers
\* interleave with its look, until a prompt that is no hint acks a task.
THEOREM IdleIsAfterOwnTurn == Spec => IdleAfterOwnTurn
<1> DEFINE Inv == TypedOnce /\ HarnessFits /\ OwnEnded /\ LookTold /\ LookOwn
<1>1. Init => Inv
  BY TypedInitHolds DEF Init, HarnessFits, OwnEnded, LookTold, LookOwn, NoLook
<1>2. TurnInv /\ Inv /\ [Next]_vars => Inv'
  <2>1. ASSUME Inv, UNCHANGED vars PROVE Inv'
    BY <2>1 DEF TypedOnce, HarnessFits, OwnEnded, LookTold, LookOwn, Unacked, Newest, vars, mail,
       prompts, calls, history
  <2> QED BY <2>1, TypedOnceKept, HarnessFitsKept, OwnEndedKept, LookToldKept, LookOwnKept
<1>3. TurnInv /\ Inv /\ [Next]_vars =>
        [look.at = "pane" /\ look'.out \in {"idle_no_result", "ready"} /\ look.task \in Tasks
           /\ ~crossed => look.task \in ended]_vars
  <2> SUFFICES ASSUME TurnInv, Inv, Next, look.at = "pane",
                      look'.out \in {"idle_no_result", "ready"}, look.task \in Tasks, ~crossed
               PROVE  look.task \in ended
    OBVIOUS
  <2>1. CASE SettleLook
    <3>1. Said \in {"idle_no_result", "ready"}
      BY <2>1, SettledLook
    <3>2. /\ ~look.answered /\ ~(look.pending /\ look.task \in Tasks /\ ~look.acked)
          /\ look.turn # "running"
      BY <3>1 DEF Said, Settles
    <3>3. look.acked
      BY <3>2 DEF LookTold
    <3> QED BY <3>2, <3>3 DEF LookOwn
  <2>2. CASE ~SettleLook
    <3>1. look' = look
      BY <2>2, OthersKeepFiles DEF Next, LookStep, LookStarts, ReadAck, ReadEvents, ReadQuestions,
         ReadResults
    <3> QED BY <3>1 DEF LookTold
  <2> QED BY <2>1, <2>2
<1> QED BY <1>1, <1>2, <1>3, TurnInvariant, PTL DEF Spec, IdleAfterOwnTurn

-----------------------------------------------------------------------------
(* What a wait settles on *)

\* The look read that the newest task was acked, or that there is none, and
\* then that no turn was running.
Quiet == (look.acked \/ look.task \notin Tasks) /\ look.bound /\ look.turn # "running"

\* The harness rests still as it was read to, or it was idle with nothing asked
\* before a prompt, an answer's or a person's, set it going.
StillIdle ==
  /\ harness.at \in {"idle", "exited"} /\ facts.turn = look.turn
  /\ look.at \in {"results", "pane"} /\ ~look.question => ~PendingQFile
  /\ look.at = "pane" /\ ~look.answered => posted \notin results
IdleNow == <<IF look.turn = "ended" /\ posted \in Tasks THEN "idle_no_result" ELSE "ready", posted>>
ResultSeen == IF look.at = "pane" THEN look.answered ELSE posted \in results
WasIdle == IdleNow \in truths \/ ResultSeen
AskSaid == Lost \/ <<"asks", posted>> \in truths \/ ResultSeen

\* As long as a look is calm, what it read is still true, or was true at a
\* moment of it.
LookTrue ==
  Looking /\ calm =>
    /\ Now \in truths
    /\ look.at # "acks" => look.task = posted
    /\ look.at \in {"questions", "results", "pane"} /\ look.ask => AskSaid
    /\ look.at \in {"results", "pane"} /\ look.question => AskSaid
    /\ look.at \in {"questions", "results", "pane"} /\ Quiet => StillIdle \/ WasIdle
    /\ look.at = "pane" =>
         /\ look.answered => posted \in results
         /\ look.pending <=> posted \in Tasks /\ ~look.answered

LEMMA UntakenKept ==
  ASSUME TurnInv, Untaken, Next PROVE Untaken'
<1> USE TurnConstants DEF TurnInv, TypeOK, Untaken, Tasks, mail, prompts, calls, Rests
<1>1. CASE Bind \/ StopTurn \/ ExitHarness
  BY <1>1 DEF Bind, StopTurn, ExitHarness
<1>2. CASE PromptEvent
  <2>1. UNCHANGED <<posted, asked, hints>>
    BY <1>2 DEF PromptEvent
  <2>2. CASE \E t \in typed : /\ typed' = typed \ {t}
                              /\ harness' = [at |-> "prompted", task |-> t, hinted |-> TRUE]
    BY <2>1, <2>2
  <2>3. CASE typed' = typed /\ \E t \in notes \cup {0} :
               harness' = [at |-> "prompted", task |-> t, hinted |-> FALSE]
    <3>1. PICK t \in notes \cup {0} : harness' = [at |-> "prompted", task |-> t, hinted |-> FALSE]
      BY <2>3
    <3>2. t \in asked \/ t = 0
      OBVIOUS
    <3> QED BY <2>1, <2>3, <3>1, <3>2
  <2> QED BY <1>2, <2>2, <2>3 DEF PromptEvent
<1>3. CASE AckNewest \/ AskInPane \/ AnswerTyped
  BY <1>3 DEF AckNewest, AskInPane, AnswerTyped
<1>4. CASE AskInFile
  <2>1. /\ harness.task \in Tasks /\ asked' = asked \cup {harness.task}
        /\ UNCHANGED <<posted, typed, hints, harness>>
    BY <1>4 DEF AskInFile
  <2>2. asked \subseteq 1 .. posted /\ harness.task \in 1 .. posted
    BY <2>1
  <2>3. asked' \subseteq 1 .. posted'
    BY <2>1, <2>2
  <2>4. \A t \in typed' \cup hints' : t \notin asked'
    BY <2>1
  <2> QED BY <2>1, <2>2, <2>3, <2>4
<1>5. CASE WriteResult \/ Answer
  BY <1>5 DEF WriteResult, Answer
<1>6. ASSUME NEW c \in Callers, TakeSend(c) \/ ObserveSend(c) \/ CheckAcked(c) PROVE Untaken'
  BY <1>6 DEF TakeSend, ObserveSend, CheckAcked
<1>7. ASSUME NEW c \in Callers, PostTask(c) PROVE Untaken'
  <2>1. posted < MaxTasks /\ posted' = posted + 1 /\ hints' = hints \cup {posted + 1}
        /\ UNCHANGED <<asked, typed, harness>>
    BY <1>7 DEF PostTask, DecidedAcked
  <2> QED BY <2>1
<1>8. CASE TypeHint
  <2>1. PICK t \in hints : hints' = hints \ {t} /\ (typed' = typed \cup {t} \/ typed' = typed)
    BY <1>8 DEF TypeHint
  <2>2. UNCHANGED <<posted, asked, harness>>
    BY <1>8 DEF TypeHint
  <2> QED BY <2>1, <2>2
<1>9. CASE LookStep
  BY <1>9, LookStepKeepsFiles
<1> QED BY <1>1, <1>2, <1>3, <1>4, <1>5, <1>6, <1>7, <1>8, <1>9 DEF Next, Step, LookStep

\* A worker that asks is seen to ask, unless it is gone or has answered.
LEMMA NowAsks ==
  ASSUME facts.ask \/ PendingQFile, ~Lost, posted \notin results
  PROVE  Now = <<"asks", posted>>
BY DEF Now, Settles, Newest

\* An idle worker that asks nothing is seen idle.
LEMMA NowIdle ==
  ASSUME HarnessFits, harness.at = "idle", ~PendingQFile, posted \notin results,
         posted \in acked \/ posted \notin Tasks, facts.turn = look.turn
  PROVE  Now = IdleNow
<1>1. ~Lost /\ ~facts.ask /\ facts.bound /\ facts.turn # "running" /\ ~Unacked
  BY DEF Lost, HarnessFits, Unacked, Newest
<1> QED BY <1>1 DEF Now, Settles, IdleNow, Newest

\* A worker that is gone stays gone.
LEMMA LostStays ==
  ASSUME TurnInv, HarnessFits, Lost, Next PROVE Lost'
<1>1. harness.at = "exited" /\ facts \in [bound : BOOLEAN, turn : Turns, ask : BOOLEAN]
  BY DEF Lost, TurnInv, TypeOK
<1>2. harness' = harness /\ facts' = facts
  BY <1>1 DEF Next, Step, Bind, PromptEvent, AckNewest, AskInFile, AskInPane, AnswerTyped,
     WriteResult, StopTurn, ExitHarness, Answer, TakeSend, ObserveSend, CheckAcked, PostTask,
     TypeHint, LookStarts, ReadAck, ReadEvents, ReadQuestions, ReadResults, SettleLook, SettleOn
<1> QED BY <1>2 DEF Lost

\* An idle worker stays idle, but for an exit, or a prompt, which in a calm look
\* finds no question of the newest task.
LEMMA QuietStays ==
  ASSUME TurnInv, Untaken, Next, harness.at \in {"idle", "exited"},
         facts.turn = "none" \/ facts'.turn # "none",
         harness.at = "idle" /\ harness'.at = "prompted" => harness'.task = Newest
  PROVE  \/ /\ harness'.at \in {"idle", "exited"} /\ facts'.turn = facts.turn
            /\ UNCHANGED <<asked, results>> /\ replied \subseteq replied'
         \/ harness.at = "idle" /\ ~PendingQFile
<1>0. facts \in [bound : BOOLEAN, turn : Turns, ask : BOOLEAN]
      /\ asked \subseteq Tasks /\ replied \subseteq asked /\ notes \subseteq replied
  BY DEF TurnInv, TypeOK
<1>1. ~Bind
  BY <1>0 DEF Bind
<1>2. ASSUME PromptEvent PROVE harness.at = "idle" /\ ~PendingQFile
  <2>1. harness.at = "idle" /\ harness'.at = "prompted"
        /\ (harness'.task \in typed \/ harness'.task \in notes \cup {0})
    BY <1>2 DEF PromptEvent
  <2>2. harness'.task = Newest
    BY <2>1
  <2>3. 0 \notin asked
    BY <1>0, TurnConstants DEF Tasks
  <2> QED BY <1>0, <2>1, <2>2, <2>3 DEF Untaken, PendingQFile
<1>3. \/ PromptEvent \/ ExitHarness \/ Answer
      \/ UNCHANGED <<asked, results, replied, facts, harness>>
  BY <1>1 DEF Next, Step, AckNewest, AskInFile, AskInPane, AnswerTyped, WriteResult, StopTurn,
     TakeSend, ObserveSend, CheckAcked, PostTask, TypeHint, LookStarts, ReadAck, ReadEvents,
     ReadQuestions, ReadResults, SettleLook, SettleOn, mail
<1> QED BY <1>2, <1>3 DEF ExitHarness, Answer, Rests, mail

LEMMA LookTrueKept ==
  ASSUME TurnInv, Untaken, HarnessFits, LookTold, LookTrue, Next PROVE LookTrue'
<1>1. TypeOK
  BY DEF TurnInv
<1> SUFFICES ASSUME Looking', calm' PROVE LookTrue'
  BY DEF LookTrue
<1>2. Now' \in truths'
  BY DEF Next
<1>3. CASE ~Looking
  <2>1. look'.at = "acks"
    BY <1>1, <1>3, LookParts, OthersKeepFiles DEF Next, LookStep, Looking, ReadAck, ReadEvents,
       ReadQuestions, ReadResults, SettleLook
  <2> QED BY <1>2, <2>1 DEF LookTrue
<1>4. CASE Looking
  <2>1. /\ calm /\ posted' = posted /\ truths \subseteq truths'
        /\ facts.turn = "none" \/ facts'.turn # "none"
        /\ harness.at = "idle" /\ harness'.at = "prompted" => harness'.task = Newest
    BY <1>4 DEF Next
  <2>2. /\ Now \in truths
        /\ look.at # "acks" => look.task = posted
        /\ look.at \in {"questions", "results", "pane"} /\ look.ask => AskSaid
        /\ look.at \in {"results", "pane"} /\ look.question => AskSaid
        /\ look.at \in {"questions", "results", "pane"} /\ Quiet => StillIdle \/ WasIdle
        /\ look.at = "pane" =>
             /\ look.answered => posted \in results
             /\ look.pending <=> posted \in Tasks /\ ~look.answered
    BY <1>4, <2>1 DEF LookTrue
  <2>3. CASE LookStep
    <3>1. UNCHANGED <<posted, acked, asked, replied, results, facts, harness, typed>>
      BY <2>3, LookStepKeepsFiles
    <3>2. UNCHANGED <<Lost, PendingQFile>>
      BY <3>1 DEF Lost, PendingQFile, Newest
    <3>3. CASE LookStarts \/ SettleLook
      BY <1>4, <3>3, <1>1, LookParts DEF LookStarts, Looking
    <3>4. CASE ReadAck
      BY <1>1, <1>2, <3>1, <3>4, LookParts DEF LookTrue
    <3>5. CASE ReadEvents
      <4>1. /\ look'.at = "questions" /\ look'.task = look.task /\ look'.acked = look.acked
            /\ look'.bound = facts.bound /\ look'.turn = facts.turn /\ look'.ask = facts.ask
            /\ look.at = "events"
        BY <1>1, <3>5, LookParts DEF ReadEvents
      <4>2. look'.ask => AskSaid'
        BY <2>1, <2>2, <3>1, <3>2, <4>1, NowAsks DEF AskSaid, ResultSeen
      <4>3. Quiet' => StillIdle'
        <5>1. harness.at \in HarnessSteps
          BY <1>1 DEF TypeOK
        <5> QED BY <3>1, <4>1, <5>1 DEF Quiet, HarnessFits, HarnessSteps, StillIdle
      <4> QED BY <1>2, <2>1, <2>2, <4>1, <4>2, <4>3 DEF LookTrue
    <3>6. CASE ReadQuestions
      <4>1. /\ look'.at = "results" /\ look'.task = look.task /\ look'.acked = look.acked
            /\ look'.bound = look.bound /\ look'.turn = look.turn /\ look'.ask = look.ask
            /\ look'.question <=> PendingQFile
            /\ look.at = "questions"
        BY <1>1, <3>6, LookParts DEF ReadQuestions
      <4>2. look'.ask => AskSaid'
        BY <2>1, <2>2, <3>1, <3>2, <4>1 DEF AskSaid, ResultSeen
      <4>4. look'.question => AskSaid'
        BY <2>1, <2>2, <3>1, <3>2, <4>1, NowAsks DEF AskSaid, ResultSeen
      <4>3. Quiet' => StillIdle' \/ WasIdle'
        <5>1. Quiet' => Quiet
          BY <4>1 DEF Quiet
        <5>2. StillIdle => StillIdle'
          BY <3>1, <3>2, <4>1 DEF StillIdle
        <5>3. WasIdle => WasIdle'
          BY <2>1, <3>1, <4>1 DEF WasIdle, IdleNow, ResultSeen
        <5> QED BY <2>2, <4>1, <5>1, <5>2, <5>3
      <4> QED BY <1>2, <2>1, <2>2, <4>1, <4>2, <4>3, <4>4 DEF LookTrue
    <3>7. CASE ReadResults
      <4>1. /\ look'.at = "pane" /\ look'.task = look.task /\ look'.acked = look.acked
            /\ look'.bound = look.bound /\ look'.turn = look.turn /\ look'.ask = look.ask
            /\ look'.question = look.question
            /\ look'.answered <=> posted \in results
            /\ look'.pending <=> posted \in Tasks \ results
            /\ look.at = "results"
        BY <1>1, <3>7, LookParts DEF ReadResults
      <4>2. AskSaid => AskSaid'
        BY <2>1, <3>1, <3>2, <4>1 DEF AskSaid, ResultSeen
      <4>3. Quiet' => StillIdle' \/ WasIdle'
        <5>1. Quiet' => Quiet
          BY <4>1 DEF Quiet
        <5>2. StillIdle => StillIdle'
          BY <3>1, <3>2, <4>1 DEF StillIdle
        <5>3. WasIdle => WasIdle'
          BY <2>1, <3>1, <4>1 DEF WasIdle, IdleNow, ResultSeen
        <5> QED BY <2>2, <4>1, <5>1, <5>2, <5>3
      <4>4. /\ look'.answered => posted' \in results'
            /\ look'.pending <=> posted' \in Tasks /\ ~look'.answered
        BY <3>1, <4>1
      <4> QED BY <1>2, <2>1, <2>2, <4>1, <4>2, <4>3, <4>4 DEF LookTrue
    <3> QED BY <2>3, <3>3, <3>4, <3>5, <3>6, <3>7 DEF LookStep
  <2>4. CASE ~LookStep
    <3>1. look' = look /\ results \subseteq results' /\ acked \subseteq acked'
      BY <2>4, OthersKeepFiles DEF Next
    <3>2. Lost => Lost'
      BY LostStays
    <3>3. AskSaid => AskSaid'
      BY <2>1, <3>1, <3>2 DEF AskSaid, ResultSeen
    <3>4. WasIdle => WasIdle'
      BY <2>1, <3>1 DEF WasIdle, IdleNow, ResultSeen
    <3>5. Quiet' <=> Quiet
      BY <3>1 DEF Quiet
    <3>6. ASSUME look.at \in {"questions", "results", "pane"}, Quiet, StillIdle
          PROVE  StillIdle' \/ WasIdle'
      <4>1. posted \in acked \/ posted \notin Tasks
        BY <2>2, <3>6 DEF Quiet, LookTold
      <4>2. CASE /\ harness'.at \in {"idle", "exited"} /\ facts'.turn = facts.turn
                 /\ UNCHANGED <<asked, results>> /\ replied \subseteq replied'
        <5>1. ~PendingQFile => ~PendingQFile'
          BY <2>1, <4>2 DEF PendingQFile, Newest
        <5> QED BY <2>1, <3>1, <3>6, <4>2, <5>1 DEF StillIdle
      <4>3. CASE harness.at = "idle" /\ ~PendingQFile
        <5>1. posted \notin results => Now = IdleNow
          BY <3>6, <4>1, <4>3, NowIdle DEF StillIdle
        <5>2. posted \in results => ResultSeen
          BY <3>6 DEF StillIdle, ResultSeen
        <5> QED BY <2>2, <3>4, <5>1, <5>2 DEF WasIdle
      <4> QED BY <2>1, <3>6, <4>2, <4>3, QuietStays DEF StillIdle
    <3> QED BY <1>2, <2>1, <2>2, <3>1, <3>3, <3>4, <3>5, <3>6 DEF LookTrue
  <2> QED BY <2>3, <2>4
<1> QED BY <1>3, <1>4

\* What a wait settles on was true of the worker at a moment of its look, if no
\* task was posted, no session bound and no other turn than the newest task's
\* began during it: though the look reads acks, events, questions, results and
\* the pane one after the other, no answer of it is made of moments that never
\* were together.  It is so whoever types prompts, answers included.
THEOREM SettlesOnTruth == Spec => SettledOnTruth
<1> DEFINE Inv == Untaken /\ HarnessFits /\ LookTold /\ LookTrue
<1>1. Init => Inv
  <2>1. Init => Untaken
    BY TurnConstants DEF Init, Untaken
  <2> QED BY <2>1 DEF Init, HarnessFits, LookTold, LookTrue, Looking, NoLook
<1>2. TurnInv /\ Inv /\ [Next]_vars => Inv'
  <2>1. ASSUME Inv, UNCHANGED vars PROVE Inv'
    BY <2>1 DEF Untaken, HarnessFits, LookTold, LookTrue, Looking, Quiet, StillIdle, WasIdle, IdleNow,
       ResultSeen, AskSaid, Unacked, Newest, PendingQFile, Lost, Now, Settles, vars, mail, prompts,
       calls, history
  <2> QED BY <2>1, UntakenKept, HarnessFitsKept, LookToldKept, LookTrueKept
<1>3. TurnInv /\ Inv /\ [Next]_vars =>
        [look.at = "pane" /\ calm /\ look'.out # "none" => <<look'.out, look.task>> \in truths]_vars
  <2> SUFFICES ASSUME TurnInv, Inv, Next, look.at = "pane", calm, look'.out # "none"
               PROVE  <<look'.out, look.task>> \in truths
    OBVIOUS
  <2>1. SettleLook
    <3>1. ~SettleLook => look' = look
      BY OthersKeepFiles DEF Next, LookStep, LookStarts, ReadAck, ReadEvents, ReadQuestions,
         ReadResults
    <3> QED BY <3>1 DEF LookTold
  <2>2. look'.out = IF Said # "asks" \/ look.ask \/ PendingQFile THEN Said
                    ELSE IF posted \in results THEN "done" ELSE "none"
    BY <2>1, SettledLook
  <2>3. /\ Now \in truths /\ look.task = posted
        /\ look.ask \/ look.question => AskSaid
        /\ Quiet => StillIdle \/ WasIdle
        /\ look.answered => posted \in results
        /\ look.pending <=> posted \in Tasks /\ ~look.answered
    BY DEF LookTrue, Looking
  <2>4. CASE Lost
    BY <2>2, <2>3, <2>4 DEF Now, Settles, Said, Newest
  <2>5. CASE ~Lost /\ posted \in results /\ look'.out = "done"
    BY <2>3, <2>5 DEF Now, Settles, Newest
  <2>6. CASE ~Lost /\ look'.out = "asks"
    <3>1. ~look.answered /\ (look.ask \/ look.question)
      BY <2>2, <2>6 DEF Said, Settles
    <3> QED BY <2>3, <2>6, <3>1 DEF AskSaid, ResultSeen
  <2>7. CASE ~Lost /\ look'.out \notin {"done", "asks"}
    <3>1. /\ ~look.answered /\ ~look.ask /\ ~look.question
          /\ ~(look.pending /\ look.task \in Tasks /\ ~look.acked)
          /\ look.bound /\ look.turn # "running"
          /\ look'.out = IF look.turn = "ended" /\ look.pending THEN "idle_no_result" ELSE "ready"
      BY <2>2, <2>7 DEF Said, Settles
    <3>2. Quiet
      BY <2>3, <3>1 DEF Quiet
    <3>3. <<look'.out, posted>> = IdleNow
      BY <2>3, <3>1 DEF IdleNow
    <3>4. CASE WasIdle
      BY <2>3, <3>1, <3>3, <3>4 DEF WasIdle, ResultSeen
    <3>5. CASE StillIdle
      <4>1. /\ ~PendingQFile /\ posted \notin results /\ facts.turn = look.turn
            /\ harness.at \in {"idle", "exited"}
        BY <3>1, <3>5 DEF StillIdle
      <4>2. posted \in acked \/ posted \notin Tasks
        BY <2>3, <3>2 DEF Quiet, LookTold
      <4>3. harness.at = "idle"
        BY <2>7, <4>1 DEF Lost, HarnessFits
      <4> QED BY <2>3, <3>3, <4>1, <4>2, <4>3, NowIdle
    <3> QED BY <2>3, <3>2, <3>4, <3>5
  <2>8. look'.out = "done" => posted \in results \/ Lost
    BY <2>2, <2>3 DEF Said, Settles
  <2> QED BY <2>4, <2>5, <2>6, <2>7, <2>8
<1> QED BY <1>1, <1>2, <1>3, TurnInvariant, PTL DEF Spec, SettledOnTruth

(***************************************************************************)
(* The rows, folders, claims and panes of several workers (WorkerRows).    *)
(***************************************************************************)

\* The types of the tables, and who holds the lock of the record of panes.
Records == [tab : Runs \cup {None}, panes : SUBSET (Panes \X Runs)]
ProcType == [at : {"idle"} \cup SpawnSteps \cup StopSteps, run : Runs \cup {None},
             key : Keys \cup {None}, saw : Ended \cup {None}, w : Records]
Tables ==
  /\ row \in [Runs -> [st : {"none", "open"} \cup Ended, key : Keys \cup {None}]]
  /\ folder \in [Runs -> [pane : Panes \cup {None}, exit : {"none"} \cup Ended]]
  /\ claim \in [Runs -> {"none", "held", "ended", "expired"}]
  /\ worker \in [Runs -> {"none", "up", "exited"}]
  /\ pane \in [Panes -> [holds : Runs \cup {None, Stranger}, tab : Runs \cup {None}]]
  /\ used \subseteq Panes /\ faults \in [AllFaults -> Nat]
LockFits ==
  /\ proc \in [Clients -> ProcType] /\ lock \in Clients \cup {None}
  /\ \A c \in Clients : (proc[c].at \in Locked) <=> (lock = c)
Fit == Tables /\ LockFits /\ record \in Records

\* What a client at a step knows of its run.
Spawning == {"place", "boot", "abandon"}
GoneSteps == {"unwind", "release", "unplace", "end", "finish", "expire"}
HasRun ==
  \A c \in Clients :
    /\ proc[c].at \in {"idle", "claim"} <=> proc[c].run = None
    /\ proc[c].at \in StopSteps => proc[c].saw \in Ended
    /\ proc[c].at = "claim" => proc[c].key \in Keys

-----------------------------------------------------------------------------
\* The tables that the helpers return.
LEMMA TablesFit ==
  ASSUME Fit, NEW rs, NEW reason \in Ended, NEW ps
  PROVE  /\ RowsClosed(rs, reason) \in [Runs -> [st : {"none", "open"} \cup Ended, key : Keys \cup {None}]]
         /\ FoldersFinished(rs, reason) \in [Runs -> [pane : Panes \cup {None}, exit : {"none"} \cup Ended]]
         /\ ClaimsExpired(rs) \in [Runs -> {"none", "held", "ended", "expired"}]
         /\ Closing(ps) \in [Panes -> [holds : Runs \cup {None, Stranger}, tab : Runs \cup {None}]]
         /\ Killed(ps) \in [Runs -> {"none", "up", "exited"}]
<1>1. RowsClosed(rs, reason) \in [Runs -> [st : {"none", "open"} \cup Ended, key : Keys \cup {None}]]
  BY DEF Fit, Tables, RowsClosed
<1>2. FoldersFinished(rs, reason) \in [Runs -> [pane : Panes \cup {None}, exit : {"none"} \cup Ended]]
  BY DEF Fit, Tables, FoldersFinished
<1>3. ClaimsExpired(rs) \in [Runs -> {"none", "held", "ended", "expired"}]
  BY DEF Fit, Tables, ClaimsExpired
<1>4. Closing(ps) \in [Panes -> [holds : Runs \cup {None, Stranger}, tab : Runs \cup {None}]]
  BY DEF Fit, Tables, Closing
<1>5. Killed(ps) \in [Runs -> {"none", "up", "exited"}]
  BY DEF Fit, Tables, Killed
<1> QED BY <1>1, <1>2, <1>3, <1>4, <1>5

\* What is left of the record, and of its tab, when entries leave it.
LEMMA ReleasedFits ==
  ASSUME NEW w \in Records, NEW out, NEW shut
  PROVE  /\ Released(w, out, shut).w \in Records
         /\ Released(w, out, shut).w.panes \subseteq w.panes
         /\ \/ Released(w, out, shut).w.tab = w.tab
            \/ Released(w, out, shut).w.tab = None /\ Released(w, out, shut).w.panes = {}
<1> DEFINE left == {e \in Alive(w) \ out : e[1] \notin shut}
           v == IF left = {} THEN NoTab ELSE [w EXCEPT !.panes = left]
<1>1. Released(w, out, shut).w = v
  BY DEF Released
<1>2. left \subseteq w.panes /\ w.panes \subseteq Panes \X Runs
  BY DEF Alive, Records
<1>3. CASE left = {}
  BY <1>1, <1>3 DEF NoTab, Records
<1>4. CASE left # {}
  <2>1. v = [w EXCEPT !.panes = left]
    BY <1>4
  <2> HIDE DEF left
  <2>2. v \in Records /\ v.tab = w.tab /\ v.panes = left
    BY <1>2, <2>1 DEF Records
  <2> QED BY <1>1, <1>2, <2>2
<1> QED BY <1>3, <1>4

LEMMA UnplacedFits ==
  ASSUME NEW w \in Records, NEW rs
  PROVE  /\ Unplaced(w, rs).w \in Records
         /\ Unplaced(w, rs).w.panes \subseteq w.panes
         /\ \/ Unplaced(w, rs).w.tab = w.tab
            \/ Unplaced(w, rs).w.tab = None /\ Unplaced(w, rs).w.panes = {}
<1> DEFINE out == {e \in w.panes : e[2] \in rs}
           own == {folder[r].pane : r \in {x \in rs : Exited(x)}}
<1>1. CASE own = {}
  <2> DEFINE v == [w EXCEPT !.panes = @ \ out]
  <2>1. Unplaced(w, rs).w = v
    BY <1>1 DEF Unplaced
  <2>2. v \in Records /\ v.tab = w.tab /\ v.panes = w.panes \ out
    BY DEF Records
  <2> QED BY <2>1, <2>2
<1>2. CASE own # {}
  <2>1. Unplaced(w, rs) = Released(w, out, own)
    BY <1>2 DEF Unplaced
  <2> HIDE DEF out, own
  <2> QED BY <2>1, ReleasedFits
<1> QED BY <1>1, <1>2

LEMMA FaultFits ==
  ASSUME Fit, NEW kind, Fault(kind)
  PROVE  /\ faults' \in [AllFaults -> Nat] /\ kind \in AllFaults
         /\ faults' # faults /\ faults'[kind] # 0
         /\ \A k \in AllFaults : faults'[k] = 0 => faults[k] = 0
<1>1. kind \in AllFaults /\ faults \in [AllFaults -> Nat] /\ faults' = [faults EXCEPT ![kind] = @ + 1]
  BY RowConstants DEF Fault, Fit, Tables
<1>2. faults'[kind] = faults[kind] + 1 /\ faults[kind] \in Nat
  BY <1>1
<1> QED BY <1>1, <1>2

LEMMA RowsInitFit == RowsInit => Fit
<1> SUFFICES ASSUME RowsInit PROVE Fit
  OBVIOUS
<1>1. NoTab \in Records
  BY DEF NoTab, Records
<1>2. Idle \in ProcType
  BY <1>1 DEF Idle, ProcType
<1>3. Tables
  BY DEF RowsInit, Tables
<1>4. LockFits
  <2>1. \A c \in Clients : proc[c].at = "idle"
    BY DEF RowsInit, Idle
  <2>2. lock = None /\ None \notin Clients
    BY RowConstants DEF RowsInit
  <2> QED BY <1>2, <2>1, <2>2 DEF LockFits, Locked, RowsInit
<1> QED BY <1>1, <1>3, <1>4 DEF Fit, RowsInit

\* What the model's type invariant says follows.
LEMMA FitTyped == ASSUME Fit PROVE RowsTyped
<1>1. record.tab \in Runs \cup {None} /\ record.panes \subseteq Panes \X Runs
  BY DEF Fit, Records
<1>2. \A c \in Clients : proc[c].at \in {"idle"} \cup SpawnSteps \cup StopSteps
  BY DEF Fit, LockFits, ProcType
<1> QED BY <1>1, <1>2 DEF Fit, Tables, LockFits, RowsTyped

\* The step of one client, with what it does to the lock.
StepsBy(c, q) ==
  /\ proc' = [proc EXCEPT ![c] = q]
  /\ \/ lock' = lock /\ (q.at \in Locked <=> proc[c].at \in Locked)
     \/ lock' = c /\ lock = None /\ q.at \in Locked
     \/ lock' = None /\ proc[c].at \in Locked /\ q.at \notin Locked
     \/ lock' = (IF lock = c THEN None ELSE lock) /\ q.at \notin Locked

LEMMA TurnsFit ==
  ASSUME Fit, NEW c \in Clients, NEW q \in ProcType, StepsBy(c, q)
  PROVE  LockFits'
<1>1. proc \in [Clients -> ProcType] /\ lock \in Clients \cup {None} /\ None \notin Clients
      /\ \A d \in Clients : (proc[d].at \in Locked) <=> (lock = d)
  BY RowConstants DEF Fit, LockFits
<1>2. proc' \in [Clients -> ProcType] /\ proc'[c] = q /\ \A d \in Clients : d # c => proc'[d] = proc[d]
  BY <1>1 DEF StepsBy
<1>3. lock' \in Clients \cup {None}
  BY <1>1 DEF StepsBy
<1>4. \A d \in Clients : (proc'[d].at \in Locked) <=> (lock' = d)
  BY <1>1, <1>2 DEF StepsBy
<1> QED BY <1>2, <1>3, <1>4 DEF LockFits

LEMMA SpawnsFit ==
  ASSUME Fit, HasRun, NEW c \in Clients,
         \/ \E k \in Keys : SpawnBegin(c, k)
         \/ SpawnClaim(c) \/ SpawnPlace(c) \/ SpawnRefused(c) \/ SpawnBoot(c)
         \/ SpawnAbandon(c) \/ ReleasePane(c)
  PROVE  Fit'
<1>0. /\ proc[c] \in ProcType /\ record \in Records /\ "gone" \in Ended /\ None \notin Runs
      /\ NoTab \in Records /\ Idle \in ProcType /\ Idle.at \notin Locked /\ Idle.run = None
  <2>1. NoTab \in Records
    BY DEF NoTab, Records
  <2> QED BY <2>1, RowConstants DEF Fit, LockFits, ProcType, Idle, Ended, Locked
<1>1. ASSUME NEW k \in Keys, SpawnBegin(c, k) PROVE Fit'
  <2> DEFINE lost == {r \in Runs : Open(r) /\ IsLost(r) /\ \E p \in Panes : <<p, r>> \in Alive(record)}
             v == [record EXCEPT !.panes = Alive(record)]
             u == Unplaced(v, lost)
             w == [u.w EXCEPT !.panes = {e \in @ : Open(e[2])}]
             q == [Idle EXCEPT !.at = "claim", !.key = k, !.w = w]
  <2>1. v \in Records
    BY <1>0 DEF Records, Alive
  <2>2. w \in Records
    <3> HIDE DEF v, lost
    <3>1. u.w \in Records
      BY <2>1, UnplacedFits
    <3> HIDE DEF u
    <3> QED BY <3>1 DEF Records
  <2>3. q \in ProcType /\ q.at = "claim"
    <3> HIDE DEF w
    <3> QED BY <1>0, <2>2 DEF ProcType, SpawnSteps, Idle
  <2>4. /\ row' = RowsClosed(lost, "gone") /\ folder' = FoldersFinished(lost, "gone")
        /\ claim' = ClaimsExpired(lost) /\ pane' = Closing(u.shut) /\ worker' = Killed(u.shut)
        /\ UNCHANGED <<used, record, faults>>
    BY <1>1 DEF SpawnBegin
  <2>5. UNCHANGED <<proc, lock>> \/ StepsBy(c, q)
    <3>1. UNCHANGED <<proc, lock>> \/ (proc' = [proc EXCEPT ![c] = q] /\ lock' = c /\ lock = None)
      BY <1>1 DEF SpawnBegin
    <3> HIDE DEF q
    <3> QED BY <2>3, <3>1 DEF StepsBy, Locked
  <2> HIDE DEF lost, u, q
  <2>6. /\ row' \in [Runs -> [st : {"none", "open"} \cup Ended, key : Keys \cup {None}]]
        /\ folder' \in [Runs -> [pane : Panes \cup {None}, exit : {"none"} \cup Ended]]
        /\ claim' \in [Runs -> {"none", "held", "ended", "expired"}]
        /\ pane' \in [Panes -> [holds : Runs \cup {None, Stranger}, tab : Runs \cup {None}]]
        /\ worker' \in [Runs -> {"none", "up", "exited"}]
    BY <1>0, <2>4, TablesFit
  <2>7. Tables' /\ record' \in Records
    BY <2>4, <2>6 DEF Fit, Tables
  <2>8. LockFits'
    BY <2>3, <2>5, TurnsFit DEF Fit, LockFits
  <2> QED BY <2>7, <2>8 DEF Fit
<1>2. CASE SpawnClaim(c)
  <2> DEFINE rivals == Rivals(proc[c].key)
             lost == {x \in rivals : IsLost(x) \/ Stale(x)}
             u == Unplaced(proc[c].w, lost)
  <2>0. PICK r \in Runs : row[r].st = "none"
          /\ row' = [RowsClosed(lost, "gone") EXCEPT
                       ![r] = IF rivals = lost THEN [st |-> "open", key |-> proc[c].key] ELSE @]
          /\ folder' = FoldersFinished(lost, "gone") /\ claim' = ClaimsExpired(lost)
          /\ pane' = Closing(u.shut) /\ worker' = Killed(u.shut)
          /\ IF rivals = lost
             THEN /\ proc' = [proc EXCEPT ![c].at = "place", ![c].run = r, ![c].w = u.w]
                  /\ UNCHANGED lock
             ELSE proc' = [proc EXCEPT ![c] = Idle] /\ lock' = None
    BY <1>2 DEF SpawnClaim
  <2>1. proc[c].at = "claim" /\ UNCHANGED <<used, record, faults>>
    BY <1>2 DEF SpawnClaim
  <2> DEFINE q == [proc[c] EXCEPT !.at = "place", !.run = r, !.w = u.w]
  <2>2. u.w \in Records
    <3> HIDE DEF lost
    <3> QED BY <1>0, UnplacedFits DEF ProcType
  <2>3. q \in ProcType /\ q.at = "place"
    <3> HIDE DEF u
    <3> QED BY <1>0, <2>2 DEF ProcType, SpawnSteps
  <2>4. StepsBy(c, q) \/ StepsBy(c, Idle)
    <3>1. \/ proc' = [proc EXCEPT ![c] = q] /\ lock' = lock
          \/ proc' = [proc EXCEPT ![c] = Idle] /\ lock' = None
      <4> HIDE DEF lost, u, rivals
      <4> QED BY <2>0
    <3> HIDE DEF q
    <3> QED BY <1>0, <2>1, <2>3, <3>1 DEF StepsBy, Locked
  <2> HIDE DEF lost, u, q, rivals
  <2>5. /\ RowsClosed(lost, "gone") \in [Runs -> [st : {"none", "open"} \cup Ended, key : Keys \cup {None}]]
        /\ folder' \in [Runs -> [pane : Panes \cup {None}, exit : {"none"} \cup Ended]]
        /\ claim' \in [Runs -> {"none", "held", "ended", "expired"}]
        /\ pane' \in [Panes -> [holds : Runs \cup {None, Stranger}, tab : Runs \cup {None}]]
        /\ worker' \in [Runs -> {"none", "up", "exited"}]
    BY <1>0, <2>0, TablesFit
  <2>6. row' \in [Runs -> [st : {"none", "open"} \cup Ended, key : Keys \cup {None}]]
    BY <1>0, <2>0, <2>5 DEF ProcType
  <2>9. Tables'
    BY <1>0, <2>1, <2>3, <2>4, <2>5, <2>6 DEF Fit, Tables
  <2>10. record' \in Records
    BY <1>0, <2>1, <2>3, <2>4, <2>5, <2>6 DEF Fit
  <2> QED BY <1>0, <2>1, <2>3, <2>4, <2>5, <2>6, <2>9, <2>10, TurnsFit DEF Fit
<1>3. CASE SpawnPlace(c)
  <2> DEFINE r == proc[c].run  w == proc[c].w
             tab == IF w.tab = None \/ Alive(w) = {} THEN r ELSE w.tab
             q == [proc[c] EXCEPT !.at = "boot", !.w = NoTab]
  <2>0. r \in Runs /\ tab \in Runs /\ w.panes \subseteq Panes \X Runs /\ proc[c].at = "place"
    BY <1>0, <1>3 DEF SpawnPlace, HasRun, ProcType, Records
  <2> HIDE DEF tab
  <2>1. PICK p \in Panes :
          /\ GivesOut(p)
          /\ pane' = [pane EXCEPT ![p] = [holds |-> r, tab |-> tab]] /\ used' = used \cup {p}
          /\ folder' = [folder EXCEPT ![r].pane = p]
          /\ record' = [tab |-> tab, panes |-> (IF tab = r THEN {} ELSE w.panes) \cup {<<p, r>>}]
    BY <1>3 DEF SpawnPlace, FreePanes, tab
  <2>2. faults' \in [AllFaults -> Nat]
    BY <2>1, FaultFits DEF GivesOut, Fit, Tables
  <2>3. record' \in Records
    BY <2>0, <2>1 DEF Records
  <2>4. q \in ProcType /\ StepsBy(c, q)
    BY <1>0, <1>3 DEF SpawnPlace, ProcType, SpawnSteps, StepsBy, Locked
  <2>5. /\ folder' \in [Runs -> [pane : Panes \cup {None}, exit : {"none"} \cup Ended]]
        /\ pane' \in [Panes -> [holds : Runs \cup {None, Stranger}, tab : Runs \cup {None}]]
        /\ used' \subseteq Panes /\ UNCHANGED <<row, claim, worker>>
    <3>1. folder' \in [Runs -> [pane : Panes \cup {None}, exit : {"none"} \cup Ended]]
      BY <2>0, <2>1 DEF Fit, Tables
    <3>2. pane' \in [Panes -> [holds : Runs \cup {None, Stranger}, tab : Runs \cup {None}]]
      BY <2>0, <2>1 DEF Fit, Tables
    <3>3. used' \subseteq Panes
      BY <2>1 DEF Fit, Tables
    <3>4. UNCHANGED <<row, claim, worker>>
      BY <1>3 DEF SpawnPlace
    <3> QED BY <3>1, <3>2, <3>3, <3>4
  <2> HIDE DEF q
  <2>9. Tables'
    BY <2>2, <2>3, <2>4, <2>5 DEF Fit, Tables
  <2>10. record' \in Records
    BY <2>2, <2>3, <2>4, <2>5 DEF Fit
  <2> QED BY <2>2, <2>3, <2>4, <2>5, <2>9, <2>10, TurnsFit DEF Fit
<1>4. CASE SpawnRefused(c)
  <2> DEFINE q == [proc[c] EXCEPT !.at = "abandon", !.w = NoTab]
  <2>1. q \in ProcType /\ StepsBy(c, q)
    BY <1>0, <1>4 DEF SpawnRefused, ProcType, SpawnSteps, StepsBy, Locked
  <2>2. faults' \in [AllFaults -> Nat]
    BY <1>4, FaultFits DEF SpawnRefused, Fit, Tables
  <2> HIDE DEF q
  <2>9. Tables'
    BY <1>4, <2>1, <2>2 DEF SpawnRefused, disk, herdr, Fit, Tables
  <2>10. record' \in Records
    BY <1>4, <2>1, <2>2 DEF SpawnRefused, disk, herdr, Fit
  <2> QED BY <1>4, <2>1, <2>2, <2>9, <2>10, TurnsFit DEF Fit
<1>5. CASE SpawnBoot(c)
  <2> DEFINE q == [proc[c] EXCEPT !.at = "abandon"]
  <2>1. q \in ProcType /\ (StepsBy(c, q) \/ StepsBy(c, Idle))
    BY <1>0, <1>5 DEF SpawnBoot, ProcType, SpawnSteps, StepsBy, Locked
  <2>2. faults' \in [AllFaults -> Nat]
    BY <1>5, FaultFits DEF SpawnBoot, Fit, Tables
  <2>3. /\ claim' \in [Runs -> {"none", "held", "ended", "expired"}]
        /\ worker' \in [Runs -> {"none", "up", "exited"}]
    BY <1>5 DEF SpawnBoot, Fit, Tables
  <2> HIDE DEF q
  <2>9. Tables'
    BY <1>0, <1>5, <2>1, <2>2, <2>3 DEF SpawnBoot, Fit, Tables
  <2>10. record' \in Records
    BY <1>0, <1>5, <2>1, <2>2, <2>3 DEF SpawnBoot, Fit
  <2> QED BY <1>0, <1>5, <2>1, <2>2, <2>3, <2>9, <2>10, TurnsFit DEF Fit
<1>6. CASE SpawnAbandon(c)
  <2> DEFINE r == proc[c].run
             at == IF folder[r].pane = None THEN "idle" ELSE "unwind"
             run == IF folder[r].pane = None THEN None ELSE r
             q == [proc[c] EXCEPT !.at = at, !.run = run]
  <2>1. q \in ProcType /\ StepsBy(c, q)
    BY <1>0, <1>6 DEF SpawnAbandon, ProcType, SpawnSteps, StepsBy, Locked
  <2>2. /\ row' = RowsClosed({r}, "gone")
        /\ folder' = FoldersFinished({r}, "gone") \/ folder' = folder
        /\ \E ps : pane' = Closing(ps) /\ worker' = Killed(ps)
    BY <1>6 DEF SpawnAbandon
  <2>3. /\ row' \in [Runs -> [st : {"none", "open"} \cup Ended, key : Keys \cup {None}]]
        /\ folder' \in [Runs -> [pane : Panes \cup {None}, exit : {"none"} \cup Ended]]
        /\ pane' \in [Panes -> [holds : Runs \cup {None, Stranger}, tab : Runs \cup {None}]]
        /\ worker' \in [Runs -> {"none", "up", "exited"}]
    BY <1>0, <2>2, TablesFit DEF Fit, Tables
  <2> HIDE DEF q
  <2>9. Tables'
    BY <1>6, <2>1, <2>3 DEF SpawnAbandon, Fit, Tables
  <2>10. record' \in Records
    BY <1>6, <2>1, <2>3 DEF SpawnAbandon, Fit
  <2> QED BY <1>6, <2>1, <2>3, <2>9, <2>10, TurnsFit DEF Fit
<1>7. CASE ReleasePane(c)
  <2> DEFINE mine == {e \in record.panes : e[1] = folder[proc[c].run].pane}
             u == Released(record, mine, {})
             q == IF proc[c].at = "unwind" THEN Idle ELSE [proc[c] EXCEPT !.at = "end"]
  <2>1. q \in ProcType /\ StepsBy(c, q)
    BY <1>0, <1>7 DEF ReleasePane, ProcType, StopSteps, StepsBy, Locked
  <2>2. record' = u.w /\ pane' = Closing(u.shut) /\ worker' = Killed(u.shut)
    BY <1>7 DEF ReleasePane
  <2> HIDE DEF mine, q
  <2>3. record' \in Records
    BY <1>0, <2>2, ReleasedFits
  <2> HIDE DEF u
  <2>4. /\ pane' \in [Panes -> [holds : Runs \cup {None, Stranger}, tab : Runs \cup {None}]]
        /\ worker' \in [Runs -> {"none", "up", "exited"}]
    BY <1>0, <2>2, TablesFit
  <2>9. Tables'
    BY <1>7, <2>1, <2>3, <2>4 DEF ReleasePane, disk, Fit, Tables
  <2>10. record' \in Records
    BY <1>7, <2>1, <2>3, <2>4 DEF ReleasePane, disk, Fit
  <2> QED BY <1>7, <2>1, <2>3, <2>4, <2>9, <2>10, TurnsFit DEF Fit
<1> QED BY <1>1, <1>2, <1>3, <1>4, <1>5, <1>6, <1>7

LEMMA StopsFit ==
  ASSUME Fit, HasRun, NEW c \in Clients,
         \/ \E r \in Runs : StopBegin(c, r) \/ LookLoses(c, r)
         \/ StopExit(c) \/ StopClose(c) \/ LoseUnplace(c)
         \/ EndRow(c) \/ FinishFolder(c) \/ ExpireClaims(c) \/ Die(c)
  PROVE  Fit'
<1>0. /\ proc[c] \in ProcType /\ record \in Records /\ None \notin Runs
      /\ NoTab \in Records /\ Idle \in ProcType /\ Idle.at \notin Locked /\ Idle.run = None
  <2>1. NoTab \in Records
    BY DEF NoTab, Records
  <2> QED BY <2>1, RowConstants DEF Fit, LockFits, ProcType, Idle, Ended, Locked
<1>1. ASSUME NEW r \in Runs, StopBegin(c, r) \/ LookLoses(c, r) PROVE Fit'
  <2>1. PICK step \in {"exit", "release", "unplace"}, saw \in Ended : Begins(c, step, r, saw)
    BY <1>1 DEF StopBegin, LookLoses, Ended
  <2> DEFINE q == [Idle EXCEPT !.at = step, !.run = r, !.saw = saw]
  <2>2. q \in ProcType /\ StepsBy(c, q)
    BY <1>0, <1>1, <2>1 DEF StopBegin, LookLoses, Begins, ProcType, StopSteps, StepsBy, Locked, Idle
  <2> HIDE DEF q
  <2>9. Tables'
    BY <1>1, <2>2 DEF StopBegin, LookLoses, disk, herdr, Fit, Tables
  <2>10. record' \in Records
    BY <1>1, <2>2 DEF StopBegin, LookLoses, disk, herdr, Fit
  <2> QED BY <1>1, <2>2, <2>9, <2>10, TurnsFit DEF Fit
<1>2. CASE StopExit(c)
  <2> DEFINE q == [proc[c] EXCEPT !.at = "close"]
  <2>1. q \in ProcType /\ (StepsBy(c, q) \/ StepsBy(c, Idle))
    BY <1>0, <1>2 DEF StopExit, ProcType, StopSteps, StepsBy, Locked
  <2>2. /\ claim' \in [Runs -> {"none", "held", "ended", "expired"}]
        /\ worker' \in [Runs -> {"none", "up", "exited"}]
    BY <1>2 DEF StopExit, Fit, Tables
  <2> HIDE DEF q
  <2>9. Tables'
    BY <1>0, <1>2, <2>1, <2>2 DEF StopExit, Fit, Tables
  <2>10. record' \in Records
    BY <1>0, <1>2, <2>1, <2>2 DEF StopExit, Fit
  <2> QED BY <1>0, <1>2, <2>1, <2>2, <2>9, <2>10, TurnsFit DEF Fit
<1>3. CASE StopClose(c)
  <2> DEFINE q == [proc[c] EXCEPT !.at = "release"]
  <2>1. q \in ProcType /\ (StepsBy(c, q) \/ StepsBy(c, Idle))
    BY <1>0, <1>3 DEF StopClose, ProcType, StopSteps, StepsBy, Locked
  <2>2. \/ UNCHANGED <<pane, worker>>
        \/ \E ps : pane' = Closing(ps) /\ worker' = Killed(ps)
    BY <1>3 DEF StopClose
  <2>3. /\ pane' \in [Panes -> [holds : Runs \cup {None, Stranger}, tab : Runs \cup {None}]]
        /\ worker' \in [Runs -> {"none", "up", "exited"}]
    <3>1. CASE UNCHANGED <<pane, worker>>
      BY <3>1 DEF Fit, Tables
    <3>2. CASE ~UNCHANGED <<pane, worker>>
      <4>1. PICK ps : pane' = Closing(ps) /\ worker' = Killed(ps)
        BY <2>2, <3>2
      <4> QED BY <4>1, TablesFit DEF Ended
    <3> QED BY <3>1, <3>2
  <2> HIDE DEF q
  <2>9. Tables'
    BY <1>0, <1>3, <2>1, <2>3 DEF StopClose, disk, Fit, Tables
  <2>10. record' \in Records
    BY <1>0, <1>3, <2>1, <2>3 DEF StopClose, disk, Fit
  <2> QED BY <1>0, <1>3, <2>1, <2>3, <2>9, <2>10, TurnsFit DEF Fit
<1>4. CASE LoseUnplace(c)
  <2> DEFINE q == [proc[c] EXCEPT !.at = "end"]
             u == Unplaced(record, {proc[c].run})
  <2>1. q \in ProcType /\ StepsBy(c, q)
    BY <1>0, <1>4 DEF LoseUnplace, ProcType, StopSteps, StepsBy, Locked
  <2>2. record' = u.w /\ pane' = Closing(u.shut) /\ worker' = Killed(u.shut)
    BY <1>4 DEF LoseUnplace
  <2> HIDE DEF q
  <2>3. record' \in Records
    BY <1>0, <2>2, UnplacedFits
  <2> HIDE DEF u
  <2>4. /\ pane' \in [Panes -> [holds : Runs \cup {None, Stranger}, tab : Runs \cup {None}]]
        /\ worker' \in [Runs -> {"none", "up", "exited"}]
    BY <2>2, TablesFit DEF Ended
  <2>9. Tables'
    BY <1>4, <2>1, <2>3, <2>4 DEF LoseUnplace, disk, Fit, Tables
  <2>10. record' \in Records
    BY <1>4, <2>1, <2>3, <2>4 DEF LoseUnplace, disk, Fit
  <2> QED BY <1>4, <2>1, <2>3, <2>4, <2>9, <2>10, TurnsFit DEF Fit
<1>5. CASE EndRow(c)
  <2> DEFINE q == IF Open(proc[c].run) THEN [proc[c] EXCEPT !.at = "finish"] ELSE Idle
  <2>1. q \in ProcType /\ StepsBy(c, q)
    BY <1>0, <1>5 DEF EndRow, ProcType, StopSteps, StepsBy, Locked
  <2>2. row' \in [Runs -> [st : {"none", "open"} \cup Ended, key : Keys \cup {None}]]
    BY <1>5, TablesFit DEF EndRow, HasRun, StopSteps
  <2> HIDE DEF q
  <2>9. Tables'
    BY <1>5, <2>1, <2>2 DEF EndRow, herdr, Fit, Tables
  <2>10. record' \in Records
    BY <1>5, <2>1, <2>2 DEF EndRow, herdr, Fit
  <2> QED BY <1>5, <2>1, <2>2, <2>9, <2>10, TurnsFit DEF Fit
<1>6. CASE FinishFolder(c)
  <2> DEFINE q == IF proc[c].saw = "gone" THEN [proc[c] EXCEPT !.at = "expire"] ELSE Idle
  <2>1. q \in ProcType /\ StepsBy(c, q)
    BY <1>0, <1>6 DEF FinishFolder, ProcType, StopSteps, StepsBy, Locked
  <2>2. folder' \in [Runs -> [pane : Panes \cup {None}, exit : {"none"} \cup Ended]]
    BY <1>6, TablesFit DEF FinishFolder, HasRun, StopSteps
  <2> HIDE DEF q
  <2>9. Tables'
    BY <1>6, <2>1, <2>2 DEF FinishFolder, herdr, Fit, Tables
  <2>10. record' \in Records
    BY <1>6, <2>1, <2>2 DEF FinishFolder, herdr, Fit
  <2> QED BY <1>6, <2>1, <2>2, <2>9, <2>10, TurnsFit DEF Fit
<1>7. CASE ExpireClaims(c)
  <2>1. StepsBy(c, Idle)
    BY <1>0, <1>7 DEF ExpireClaims, StepsBy, Locked
  <2>2. claim' \in [Runs -> {"none", "held", "ended", "expired"}]
    BY <1>7, TablesFit DEF ExpireClaims, Ended
  <2>9. Tables'
    BY <1>0, <1>7, <2>1, <2>2 DEF ExpireClaims, herdr, Fit, Tables
  <2>10. record' \in Records
    BY <1>0, <1>7, <2>1, <2>2 DEF ExpireClaims, herdr, Fit
  <2> QED BY <1>0, <1>7, <2>1, <2>2, <2>9, <2>10, TurnsFit DEF Fit
<1>8. CASE Die(c)
  <2>1. StepsBy(c, Idle)
    BY <1>0, <1>8 DEF Die, StepsBy
  <2>2. faults' \in [AllFaults -> Nat]
    BY <1>8, FaultFits DEF Die
  <2>9. Tables'
    BY <1>0, <1>8, <2>1, <2>2 DEF Die, disk, herdr, Fit, Tables
  <2>10. record' \in Records
    BY <1>0, <1>8, <2>1, <2>2 DEF Die, disk, herdr, Fit
  <2> QED BY <1>0, <1>8, <2>1, <2>2, <2>9, <2>10, TurnsFit DEF Fit
<1> QED BY <1>1, <1>2, <1>3, <1>4, <1>5, <1>6, <1>7, <1>8

LEMMA OthersFit ==
  ASSUME Fit, (\E r \in Runs : HarnessExits(r)) \/ (\E p \in Panes : PersonTakesPane(p))
  PROVE  Fit'
<1>1. ASSUME NEW r \in Runs, HarnessExits(r) PROVE Fit'
  <2>1. faults' \in [AllFaults -> Nat] /\ worker' \in [Runs -> {"none", "up", "exited"}]
    BY <1>1, FaultFits DEF HarnessExits, Fit, Tables
  <2>3. Tables'
    BY <1>1, <2>1 DEF HarnessExits, disk, Fit, Tables
  <2>4. LockFits' /\ record' \in Records
    BY <1>1 DEF HarnessExits, Fit, LockFits
  <2> QED BY <2>3, <2>4 DEF Fit
<1>2. ASSUME NEW p \in Panes, PersonTakesPane(p) PROVE Fit'
  <2>1. faults' \in [AllFaults -> Nat] /\ worker' \in [Runs -> {"none", "up", "exited"}]
    BY <1>2, FaultFits, TablesFit DEF PersonTakesPane, Ended
  <2>2. pane' \in [Panes -> [holds : Runs \cup {None, Stranger}, tab : Runs \cup {None}]]
    BY <1>2 DEF PersonTakesPane, Fit, Tables
  <2>3. Tables'
    BY <1>2, <2>1, <2>2 DEF PersonTakesPane, disk, Fit, Tables
  <2>4. LockFits' /\ record' \in Records
    BY <1>2 DEF PersonTakesPane, Fit, LockFits
  <2> QED BY <2>3, <2>4 DEF Fit
<1> QED BY <1>1, <1>2

-----------------------------------------------------------------------------
\* What a step does to a run: its pane is pinned once and held or lost, and its
\* harness goes down when it does.
SpawnStep(c) ==
  \/ \E k \in Keys : SpawnBegin(c, k)
  \/ SpawnClaim(c) \/ SpawnPlace(c) \/ SpawnRefused(c) \/ SpawnBoot(c)
  \/ SpawnAbandon(c) \/ ReleasePane(c)
StopStep(c) ==
  \/ \E r \in Runs : StopBegin(c, r) \/ LookLoses(c, r)
  \/ StopExit(c) \/ StopClose(c) \/ LoseUnplace(c)
  \/ EndRow(c) \/ FinishFolder(c) \/ ExpireClaims(c) \/ Die(c)
OtherStep == (\E r \in Runs : HarnessExits(r)) \/ (\E p \in Panes : PersonTakesPane(p))

LEMMA Steps == ASSUME RowsNext PROVE OtherStep \/ \E c \in Clients : SpawnStep(c) \/ StopStep(c)
BY DEF RowsNext, Goes, Looks, SpawnStep, StopStep, OtherStep

LEMMA FitKept == ASSUME Fit, HasRun, RowsNext PROVE Fit'
BY Steps, SpawnsFit, StopsFit, OthersFit DEF SpawnStep, StopStep, OtherStep

\* The spawner of a run is one, and its run has no harness yet.
SpawnersFit ==
  /\ \A c \in Clients :
       /\ proc[c].at \in Spawning => worker[proc[c].run] = "none" /\ claim[proc[c].run] = "none"
       /\ proc[c].at = "place" => folder[proc[c].run].pane = None /\ Open(proc[c].run)
  /\ \A c, d \in Clients :
       proc[c].at \in Spawning /\ proc[d].at \in Spawning /\ proc[c].run = proc[d].run => c = d

LEMMA FolderMoves ==
  ASSUME Fit, HasRun, RowsNext, NEW r \in Runs
  PROVE  folder'[r].pane = folder[r].pane \/ \E c \in Clients : SpawnPlace(c) /\ proc[c].run = r
<1>0. folder \in [Runs -> [pane : Panes \cup {None}, exit : {"none"} \cup Ended]]
  BY DEF Fit, Tables
<1>1. ASSUME NEW rs, NEW reason, folder' = FoldersFinished(rs, reason)
      PROVE  folder'[r].pane = folder[r].pane
  BY <1>0, <1>1 DEF FoldersFinished
<1>2. ASSUME NEW c \in Clients, SpawnPlace(c), proc[c].run # r PROVE folder'[r].pane = folder[r].pane
  BY <1>0, <1>2 DEF SpawnPlace
<1>3. ASSUME NEW c \in Clients, SpawnStep(c), ~SpawnPlace(c)
      PROVE  folder' = folder \/ \E rs, reason : folder' = FoldersFinished(rs, reason)
  BY <1>3 DEF SpawnStep, SpawnBegin, SpawnClaim, SpawnRefused, SpawnBoot, SpawnAbandon, ReleasePane,
     disk
<1>4. ASSUME NEW c \in Clients, StopStep(c)
      PROVE  folder' = folder \/ \E rs, reason : folder' = FoldersFinished(rs, reason)
  BY <1>4 DEF StopStep, StopBegin, LookLoses, StopExit, StopClose, LoseUnplace, EndRow, FinishFolder,
     ExpireClaims, Die, disk
<1>5. CASE OtherStep
  BY <1>5 DEF OtherStep, HarnessExits, PersonTakesPane, disk
<1> QED BY <1>1, <1>2, <1>3, <1>4, <1>5, Steps

LEMMA PaneMoves ==
  ASSUME Fit, RowsNext, NEW r \in Runs, NEW p \in Panes, pane'[p].holds = r
  PROVE  pane[p].holds = r \/ \E c \in Clients : SpawnPlace(c) /\ proc[c].run = r /\ folder'[r].pane = p
<1>0. /\ pane \in [Panes -> [holds : Runs \cup {None, Stranger}, tab : Runs \cup {None}]]
      /\ folder \in [Runs -> [pane : Panes \cup {None}, exit : {"none"} \cup Ended]]
      /\ None # r /\ Stranger # r
  BY RowConstants DEF Fit, Tables
<1>1. ASSUME NEW ps, pane' = Closing(ps) PROVE pane[p].holds = r
  BY <1>0, <1>1 DEF Closing
<1>2. ASSUME NEW c \in Clients, SpawnPlace(c), pane[p].holds # r
      PROVE  proc[c].run = r /\ folder'[r].pane = p
  BY <1>0, <1>2 DEF SpawnPlace
<1>3. ASSUME NEW c \in Clients, SpawnStep(c), ~SpawnPlace(c)
      PROVE  pane' = pane \/ \E ps : pane' = Closing(ps)
  BY <1>3 DEF SpawnStep, SpawnBegin, SpawnClaim, SpawnRefused, SpawnBoot, SpawnAbandon, ReleasePane,
     herdr
<1>4. ASSUME NEW c \in Clients, StopStep(c) PROVE pane' = pane \/ \E ps : pane' = Closing(ps)
  BY <1>4 DEF StopStep, StopBegin, LookLoses, StopExit, StopClose, LoseUnplace, EndRow, FinishFolder,
     ExpireClaims, Die, herdr
<1>5. CASE OtherStep
  <2>1. ASSUME NEW x \in Panes, PersonTakesPane(x) PROVE pane[p].holds = r
    <3>1. PICK h \in {None, Stranger} : pane' = [pane EXCEPT ![x] = [holds |-> h, tab |-> None]]
      BY <2>1 DEF PersonTakesPane
    <3> QED BY <1>0, <3>1
  <2>2. CASE \E x \in Runs : HarnessExits(x)
    BY <2>2 DEF HarnessExits
  <2> QED BY <1>5, <2>1, <2>2 DEF OtherStep
<1> QED BY <1>1, <1>2, <1>3, <1>4, <1>5, Steps

LEMMA WorkerMoves ==
  ASSUME Fit, RowsNext, NEW r \in Runs
  PROVE  \/ worker'[r] = worker[r]
         \/ worker[r] = "up" /\ worker'[r] = "exited"
         \/ \E c \in Clients :
              /\ SpawnBoot(c) /\ proc[c].run = r /\ OwnPane(r) /\ worker'[r] = "up"
              /\ proc'[c].at = "idle"
<1>0. worker \in [Runs -> {"none", "up", "exited"}]
  BY DEF Fit, Tables
<1>1. ASSUME NEW ps, worker' = Killed(ps)
      PROVE  worker'[r] = worker[r] \/ (worker[r] = "up" /\ worker'[r] = "exited")
  BY <1>0, <1>1 DEF Killed
<1>2. ASSUME NEW c \in Clients, SpawnBoot(c), worker'[r] # worker[r]
      PROVE  proc[c].run = r /\ OwnPane(r) /\ worker'[r] = "up" /\ proc'[c].at = "idle"
  BY <1>0, <1>2 DEF SpawnBoot, Fit, LockFits, Idle
<1>3. ASSUME NEW c \in Clients, SpawnStep(c), ~SpawnBoot(c)
      PROVE  worker' = worker \/ \E ps : worker' = Killed(ps)
  BY <1>3 DEF SpawnStep, SpawnBegin, SpawnClaim, SpawnRefused, SpawnPlace, SpawnAbandon, ReleasePane,
     herdr
<1>4. ASSUME NEW c \in Clients, StopExit(c)
      PROVE  worker'[r] = worker[r] \/ (worker[r] = "up" /\ worker'[r] = "exited")
  BY <1>0, <1>4 DEF StopExit
<1>5. ASSUME NEW c \in Clients, StopStep(c), ~StopExit(c)
      PROVE  worker' = worker \/ \E ps : worker' = Killed(ps)
  BY <1>5 DEF StopStep, StopBegin, LookLoses, StopClose, LoseUnplace, EndRow, FinishFolder,
     ExpireClaims, Die, herdr
<1>6. ASSUME NEW p \in Panes, PersonTakesPane(p) PROVE \E ps : worker' = Killed(ps)
  BY <1>6 DEF PersonTakesPane
<1>7. ASSUME NEW s \in Runs, HarnessExits(s)
      PROVE  worker'[r] = worker[r] \/ (worker[r] = "up" /\ worker'[r] = "exited")
  BY <1>0, <1>7 DEF HarnessExits
<1> QED BY <1>1, <1>2, <1>3, <1>4, <1>5, <1>6, <1>7, Steps DEF OtherStep

\* A pane lost is lost for good, and so is a harness that exited.
LEMMA LossStays ==
  ASSUME Fit, HasRun, SpawnersFit, RowsNext, NEW r \in Runs, IsLost(r) PROVE IsLost(r)'
<1>0. folder[r].pane # None /\ folder[r].pane \in Panes /\ (OwnPane(r) => worker[r] = "exited")
  BY DEF IsLost, PaneGone, Exited, OwnPane, Holds, Fit, Tables
<1>1. \A c \in Clients : SpawnPlace(c) => proc[c].run # r
  BY <1>0 DEF SpawnersFit, SpawnPlace
<1>2. folder'[r].pane = folder[r].pane
  BY <1>1, FolderMoves
<1>3. OwnPane(r)' => OwnPane(r)
  BY <1>0, <1>1, <1>2, PaneMoves DEF OwnPane, Holds
<1>4. worker[r] = "exited" => worker'[r] = "exited"
  BY <1>0, WorkerMoves DEF SpawnersFit, SpawnBoot, Spawning
<1> QED BY <1>0, <1>2, <1>3, <1>4 DEF IsLost, PaneGone, Exited

\* While its spawner has it, the worker of a run is not up.
LEMMA NoneStays ==
  ASSUME Fit, HasRun, SpawnersFit, RowsNext, NEW r \in Runs, worker[r] = "none",
         ~\E c \in Clients : SpawnBoot(c) /\ proc[c].run = r
  PROVE  worker'[r] = "none"
BY WorkerMoves

\* Who closes a row: a spawn that finds its worker lost or its row stale, its own
\* spawn that gives up, and the end of a run; a spawn opens a new one.
Closes(r) ==
  /\ Open(r) /\ row'[r].key = row[r].key /\ folder'[r].pane = folder[r].pane
  /\ \/ /\ row'[r].st = "gone" /\ folder'[r].exit = "gone" /\ claim'[r] # "held"
        /\ IsLost(r) \/ Stale(r)
     \/ /\ row'[r].st = "gone" /\ folder'[r].exit = "gone" /\ claim' = claim
        /\ \E c \in Clients : SpawnAbandon(c) /\ proc[c].run = r
     \/ \E c \in Clients :
          /\ EndRow(c) /\ proc[c].run = r /\ row'[r].st = proc[c].saw
          /\ proc'[c] = [proc[c] EXCEPT !.at = "finish"] /\ folder' = folder
Opens(c, r) ==
  /\ SpawnClaim(c) /\ row[r].st = "none" /\ row'[r] = [st |-> "open", key |-> proc[c].key]
  /\ proc'[c].at = "place" /\ proc'[c].run = r /\ folder'[r] = folder[r]
  /\ \A s \in Runs : s # r /\ Open(s) /\ row[s].key = proc[c].key => row'[s].st = "gone"
  /\ \A s \in Runs : s # r => row'[s] = row[s] \/ (Open(s) /\ row'[s].st = "gone")

\* A row closed, its folder finished and its claim expired.
LEMMA ClosedAt ==
  ASSUME Fit, NEW rs, NEW reason \in Ended, NEW s \in Runs
  PROVE  /\ (s \in rs /\ Open(s)) =>
              (RowsClosed(rs, reason)[s].st = reason /\ RowsClosed(rs, reason)[s].key = row[s].key)
         /\ ~(s \in rs /\ Open(s)) => RowsClosed(rs, reason)[s] = row[s]
         /\ s \in rs =>
              (/\ FoldersFinished(rs, reason)[s].exit = reason
               /\ FoldersFinished(rs, reason)[s].pane = folder[s].pane)
         /\ s \notin rs => FoldersFinished(rs, reason)[s] = folder[s]
         /\ (s \in rs /\ claim[s] = "held") => ClaimsExpired(rs)[s] = "expired"
         /\ ~(s \in rs /\ claim[s] = "held") => ClaimsExpired(rs)[s] = claim[s]
<1>0. /\ row \in [Runs -> [st : {"none", "open"} \cup Ended, key : Keys \cup {None}]]
      /\ folder \in [Runs -> [pane : Panes \cup {None}, exit : {"none"} \cup Ended]]
      /\ claim \in [Runs -> {"none", "held", "ended", "expired"}]
  BY DEF Fit, Tables
<1>1. (s \in rs /\ Open(s)) =>
        (RowsClosed(rs, reason)[s].st = reason /\ RowsClosed(rs, reason)[s].key = row[s].key)
  BY <1>0 DEF RowsClosed
<1>2. ~(s \in rs /\ Open(s)) => RowsClosed(rs, reason)[s] = row[s]
  BY <1>0 DEF RowsClosed
<1>3. s \in rs =>
      (/\ FoldersFinished(rs, reason)[s].exit = reason
       /\ FoldersFinished(rs, reason)[s].pane = folder[s].pane)
  BY <1>0 DEF FoldersFinished
<1>4. s \notin rs => FoldersFinished(rs, reason)[s] = folder[s]
  BY <1>0 DEF FoldersFinished
<1>5. (s \in rs /\ claim[s] = "held") => ClaimsExpired(rs)[s] = "expired"
  BY <1>0 DEF ClaimsExpired
<1>6. ~(s \in rs /\ claim[s] = "held") => ClaimsExpired(rs)[s] = claim[s]
  BY <1>0 DEF ClaimsExpired
<1> QED BY <1>1, <1>2, <1>3, <1>4, <1>5, <1>6

\* What a spawn's claim does to the rows.
LEMMA ExpiredAt ==
  ASSUME Fit, NEW rs, NEW s \in Runs
  PROVE  /\ (s \in rs /\ claim[s] = "held") => ClaimsExpired(rs)[s] = "expired"
         /\ ~(s \in rs /\ claim[s] = "held") => ClaimsExpired(rs)[s] = claim[s]
BY DEF Fit, Tables, ClaimsExpired

LEMMA GoneEnds == "gone" \in Ended
BY DEF Ended

LEMMA ClaimRows ==
  ASSUME Fit, NEW c \in Clients, SpawnClaim(c)
  PROVE  \E n \in Runs, lost \in SUBSET Runs :
           /\ row[n].st = "none" /\ n \notin lost
           /\ \A x \in lost : Open(x) /\ row[x].key = proc[c].key /\ (IsLost(x) \/ Stale(x))
           /\ folder' = FoldersFinished(lost, "gone") /\ claim' = ClaimsExpired(lost)
           /\ \A s \in Runs : s # n => row'[s] = RowsClosed(lost, "gone")[s]
           /\ \/ /\ row'[n] = [st |-> "open", key |-> proc[c].key]
                 /\ \A s \in Runs : Open(s) /\ row[s].key = proc[c].key => s \in lost
                 /\ proc' = [proc EXCEPT ![c].at = "place", ![c].run = n,
                                         ![c].w = Unplaced(proc[c].w, lost).w]
                 /\ lock' = lock
              \/ row'[n] = row[n] /\ proc' = [proc EXCEPT ![c] = Idle] /\ lock' = None
<1> DEFINE rivals == Rivals(proc[c].key)
           lost == {x \in rivals : IsLost(x) \/ Stale(x)}
           u == Unplaced(proc[c].w, lost)
           closed == RowsClosed(lost, "gone")
<1>1. PICK n \in Runs : row[n].st = "none"
        /\ row' = [closed EXCEPT ![n] = IF rivals = lost THEN [st |-> "open", key |-> proc[c].key]
                                        ELSE closed[n]]
        /\ folder' = FoldersFinished(lost, "gone") /\ claim' = ClaimsExpired(lost)
        /\ IF rivals = lost
           THEN /\ proc' = [proc EXCEPT ![c].at = "place", ![c].run = n, ![c].w = u.w]
                /\ UNCHANGED lock
           ELSE proc' = [proc EXCEPT ![c] = Idle] /\ lock' = None
  BY DEF SpawnClaim
<1>2. /\ lost \in SUBSET Runs /\ n \notin lost
      /\ \A x \in lost : Open(x) /\ row[x].key = proc[c].key /\ (IsLost(x) \/ Stale(x))
      /\ \A s \in Runs : (Open(s) /\ row[s].key = proc[c].key) => s \in rivals
  BY <1>1 DEF Rivals, Open
<1>3. closed[n] = row[n] /\ closed = [x \in Runs |-> closed[x]]
  <2>1. closed[n] = row[n]
    <3> HIDE DEF lost
    <3> QED BY <1>2, GoneEnds, ClosedAt
  <2>2. closed = [x \in Runs |-> closed[x]]
    BY DEF RowsClosed
  <2> QED BY <2>1, <2>2
<1> HIDE DEF rivals, lost
<1>4. \A s \in Runs : s # n => row'[s] = closed[s]
  <2>1. row' = [closed EXCEPT ![n] = IF rivals = lost THEN [st |-> "open", key |-> proc[c].key]
                                     ELSE closed[n]]
    BY <1>1
  <2> HIDE DEF closed
  <2> QED BY <1>3, <2>1
<1>5. row'[n] = IF rivals = lost THEN [st |-> "open", key |-> proc[c].key] ELSE row[n]
  <2>1. row' = [closed EXCEPT ![n] = IF rivals = lost THEN [st |-> "open", key |-> proc[c].key]
                                     ELSE closed[n]]
    BY <1>1
  <2> HIDE DEF closed
  <2> QED BY <1>3, <2>1
<1>6. CASE rivals = lost
  <2>1. /\ row'[n] = [st |-> "open", key |-> proc[c].key]
        /\ proc' = [proc EXCEPT ![c].at = "place", ![c].run = n, ![c].w = u.w]
        /\ lock' = lock
        /\ \A s \in Runs : (Open(s) /\ row[s].key = proc[c].key) => s \in lost
    BY <1>1, <1>2, <1>5, <1>6
  <2> QED BY <1>1, <1>2, <1>4, <2>1
<1>7. CASE rivals # lost
  <2>1. row'[n] = row[n] /\ proc' = [proc EXCEPT ![c] = Idle] /\ lock' = None
    BY <1>1, <1>5, <1>7
  <2> QED BY <1>1, <1>2, <1>4, <2>1
<1> QED BY <1>6, <1>7

\* A row that a spawn's claim changes is closed, or it is the new one.
LEMMA ClaimOpens ==
  ASSUME Fit, NEW c \in Clients, NEW r \in Runs, SpawnClaim(c), row'[r] # row[r]
  PROVE  Closes(r) \/ Opens(c, r)
<1>0. proc \in [Clients -> ProcType]
  BY DEF Fit, LockFits
<1>1. PICK n \in Runs, lost \in SUBSET Runs :
         /\ row[n].st = "none" /\ n \notin lost
         /\ \A x \in lost : Open(x) /\ row[x].key = proc[c].key /\ (IsLost(x) \/ Stale(x))
         /\ folder' = FoldersFinished(lost, "gone") /\ claim' = ClaimsExpired(lost)
         /\ \A s \in Runs : s # n => row'[s] = RowsClosed(lost, "gone")[s]
         /\ \/ /\ row'[n] = [st |-> "open", key |-> proc[c].key]
               /\ \A s \in Runs : Open(s) /\ row[s].key = proc[c].key => s \in lost
               /\ proc' = [proc EXCEPT ![c].at = "place", ![c].run = n,
                                       ![c].w = Unplaced(proc[c].w, lost).w]
               /\ lock' = lock
            \/ row'[n] = row[n] /\ proc' = [proc EXCEPT ![c] = Idle] /\ lock' = None
  BY ClaimRows
<1>2. CASE r # n
  <2>1. r \in lost /\ Open(r) /\ row'[r].st = "gone" /\ row'[r].key = row[r].key
    BY <1>1, <1>2, GoneEnds, ClosedAt
  <2>2. folder'[r].exit = "gone" /\ folder'[r].pane = folder[r].pane
    BY <1>1, <2>1, GoneEnds, ClosedAt
  <2>3. claim'[r] # "held"
    BY <1>1, <2>1, GoneEnds, ClosedAt
  <2>4. IsLost(r) \/ Stale(r)
    BY <1>1, <2>1
  <2> QED BY <2>1, <2>2, <2>3, <2>4 DEF Closes
<1>3. CASE r = n
  <2>1. /\ row'[r] = [st |-> "open", key |-> proc[c].key] /\ row[r].st = "none"
        /\ \A s \in Runs : (Open(s) /\ row[s].key = proc[c].key) => s \in lost
        /\ proc' = [proc EXCEPT ![c].at = "place", ![c].run = r, ![c].w = Unplaced(proc[c].w, lost).w]
    BY <1>1, <1>3
  <2>2. \A s \in Runs : s # r => row'[s] = row[s] \/ (Open(s) /\ row'[s].st = "gone")
    BY <1>1, <1>3, GoneEnds, ClosedAt
  <2>3. ASSUME NEW s \in Runs, s # r, Open(s), row[s].key = proc[c].key PROVE row'[s].st = "gone"
    <3>1. row'[s].st = "gone" /\ row'[s].key = row[s].key
      BY <1>1, <1>3, <2>1, <2>3, GoneEnds, ClosedAt
    <3> QED BY <3>1
  <2>4. proc'[c].at = "place" /\ proc'[c].run = r
    <3> DEFINE v == Unplaced(proc[c].w, lost).w
    <3> HIDE DEF v
    <3>1. proc' = [proc EXCEPT ![c].at = "place", ![c].run = r, ![c].w = v]
      BY <2>1 DEF v
    <3> QED BY <1>0, <3>1 DEF ProcType
  <2>5. folder'[r] = folder[r]
    BY <1>1, <1>3, GoneEnds, ClosedAt
  <2> QED BY <2>1, <2>2, <2>3, <2>4, <2>5 DEF Opens
<1> QED BY <1>2, <1>3

LEMMA RowMoves ==
  ASSUME Fit, HasRun, RowsNext, NEW r \in Runs
  PROVE  row'[r] = row[r] \/ Closes(r) \/ \E c \in Clients : Opens(c, r)
<1>0. proc \in [Clients -> ProcType]
  BY DEF Fit, LockFits
<1>1. ASSUME NEW c \in Clients, NEW k \in Keys, SpawnBegin(c, k), row'[r] # row[r] PROVE Closes(r)
  <2> DEFINE lost == {x \in Runs : Open(x) /\ IsLost(x) /\ \E p \in Panes : <<p, x>> \in Alive(record)}
  <2>1. /\ row' = RowsClosed(lost, "gone") /\ folder' = FoldersFinished(lost, "gone")
        /\ claim' = ClaimsExpired(lost)
    BY <1>1 DEF SpawnBegin
  <2>2. r \in lost => IsLost(r)
    OBVIOUS
  <2> HIDE DEF lost
  <2>3. r \in lost /\ Open(r) /\ row'[r].st = "gone" /\ row'[r].key = row[r].key
    BY <1>1, <2>1, GoneEnds, ClosedAt
  <2>4. folder'[r].exit = "gone" /\ folder'[r].pane = folder[r].pane
    BY <2>1, <2>3, GoneEnds, ClosedAt
  <2>5. claim'[r] # "held"
    BY <2>1, <2>3, GoneEnds, ClosedAt
  <2> QED BY <2>2, <2>3, <2>4, <2>5 DEF Closes
<1>2. ASSUME NEW c \in Clients, SpawnClaim(c), row'[r] # row[r] PROVE Closes(r) \/ Opens(c, r)
  BY <1>2, ClaimOpens
<1>3. ASSUME NEW c \in Clients, SpawnAbandon(c), row'[r] # row[r] PROVE Closes(r)
  <2> DEFINE x == proc[c].run
  <2>1. row' = RowsClosed({x}, "gone") /\ claim' = claim
        /\ (Open(x) => folder' = FoldersFinished({x}, "gone"))
    BY <1>3 DEF SpawnAbandon
  <2>2. r = x /\ Open(r) /\ row'[r].st = "gone" /\ row'[r].key = row[r].key
    BY <1>3, <2>1, GoneEnds, ClosedAt
  <2>3. folder'[r].exit = "gone" /\ folder'[r].pane = folder[r].pane
    <3>1. folder' = FoldersFinished({x}, "gone") /\ r \in {x}
      BY <2>1, <2>2
    <3> HIDE DEF x
    <3> QED BY <3>1, GoneEnds, ClosedAt
  <2> QED BY <1>3, <2>1, <2>2, <2>3 DEF Closes
<1>4. ASSUME NEW c \in Clients, EndRow(c), row'[r] # row[r] PROVE Closes(r)
  <2> DEFINE x == proc[c].run
  <2>1. row' = RowsClosed({x}, proc[c].saw)
    BY <1>4 DEF EndRow
  <2>5. proc[c].saw \in Ended
    BY <1>4 DEF EndRow, HasRun, StopSteps
  <2>2. r = x /\ Open(r) /\ row'[r].st = proc[c].saw /\ row'[r].key = row[r].key
    BY <1>4, <2>1, ClosedAt, <2>5
  <2>3. proc'[c] = [proc[c] EXCEPT !.at = "finish"]
    BY <1>0, <1>4, <2>2 DEF EndRow
  <2>4. row'[r].st = proc[c].saw /\ row'[r].key = row[r].key /\ folder' = folder
    BY <1>4, <2>2 DEF EndRow
  <2> QED BY <1>4, <2>2, <2>3, <2>4 DEF Closes
<1>5. ASSUME NEW c \in Clients, SpawnStep(c), ~SpawnClaim(c), ~SpawnAbandon(c),
             ~\E k \in Keys : SpawnBegin(c, k)
      PROVE  row' = row
  BY <1>5 DEF SpawnStep, SpawnPlace, SpawnRefused, SpawnBoot, ReleasePane, disk
<1>6. ASSUME NEW c \in Clients, StopStep(c), ~EndRow(c) PROVE row' = row
  BY <1>6 DEF StopStep, StopBegin, LookLoses, StopExit, StopClose, LoseUnplace, FinishFolder,
     ExpireClaims, Die, disk
<1>7. CASE OtherStep
  BY <1>7 DEF OtherStep, HarnessExits, PersonTakesPane, disk
<1> QED BY <1>1, <1>2, <1>3, <1>4, <1>5, <1>6, <1>7, Steps


\* How a client goes on: what it comes to, from what, and what it knows then.
Begun(c) ==
  /\ proc[c].at = "idle" /\ proc'[c].run \in Runs /\ Open(proc'[c].run)
  /\ folder[proc'[c].run].pane # None
  /\ \/ proc'[c].at = "exit" /\ proc'[c].saw \in Ended
     \/ proc'[c].at \in {"release", "unplace"} /\ IsLost(proc'[c].run) /\ proc'[c].saw = "gone"
Continued(c) ==
  /\ proc'[c].run = proc[c].run /\ proc'[c].saw = proc[c].saw
  /\ \/ proc'[c].at = "boot" /\ SpawnPlace(c)
     \/ proc'[c].at = "abandon" /\ proc[c].at \in {"place", "boot"}
     \/ proc'[c].at = "unwind" /\ SpawnAbandon(c) /\ folder[proc[c].run].pane # None
     \/ proc'[c].at = "close" /\ proc[c].at = "exit"
     \/ proc'[c].at = "release" /\ StopClose(c) /\ OwnPane(proc[c].run)
     \/ proc'[c].at = "end" /\ proc[c].at \in {"release", "unplace"}
     \/ proc'[c].at = "finish" /\ EndRow(c) /\ Open(proc[c].run)
     \/ proc'[c].at = "expire" /\ FinishFolder(c) /\ proc[c].saw = "gone"
Moves(c) ==
  \/ proc'[c] = proc[c]
  \/ proc'[c].at = "idle" /\ proc'[c].run = None
  \/ /\ proc'[c].at = "claim" /\ proc'[c].run = None /\ proc'[c].key \in Keys
     /\ \E k \in Keys : SpawnBegin(c, k)
  \/ proc'[c].run \in Runs /\ Opens(c, proc'[c].run)
  \/ Begun(c) \/ Continued(c)

LEMMA OthersKeep ==
  ASSUME Fit, NEW c \in Clients, SpawnStep(c) \/ StopStep(c)
  PROVE  \A d \in Clients : d # c => proc'[d] = proc[d]
<1>0. proc \in [Clients -> ProcType]
  BY DEF Fit, LockFits
<1>1. CASE SpawnStep(c)
  <2>1. ASSUME NEW k \in Keys, SpawnBegin(c, k) PROVE \A d \in Clients : d # c => proc'[d] = proc[d]
    BY <1>0, <2>1 DEF SpawnBegin
  <2>2. ASSUME SpawnClaim(c) PROVE \A d \in Clients : d # c => proc'[d] = proc[d]
    BY <1>0, <2>2 DEF SpawnClaim
  <2>3. ASSUME \/ SpawnPlace(c) \/ SpawnRefused(c) \/ SpawnBoot(c)
               \/ SpawnAbandon(c) \/ ReleasePane(c)
        PROVE \A d \in Clients : d # c => proc'[d] = proc[d]
    BY <1>0, <2>3 DEF SpawnPlace, SpawnRefused, SpawnBoot, SpawnAbandon, ReleasePane
  <2> QED BY <1>1, <2>1, <2>2, <2>3 DEF SpawnStep
<1>2. CASE StopStep(c)
  BY <1>0, <1>2 DEF StopStep, StopBegin, LookLoses, StopExit, StopClose, LoseUnplace, EndRow, FinishFolder,
     ExpireClaims, Die, Begins
<1> QED BY <1>1, <1>2

LEMMA NoneMoves == ASSUME OtherStep PROVE proc' = proc
BY DEF OtherStep, HarnessExits, PersonTakesPane

LEMMA SpawnMoves ==
  ASSUME Fit, HasRun, NEW c \in Clients, SpawnStep(c) PROVE Moves(c)
<1>0. proc \in [Clients -> ProcType] /\ Idle.run = None /\ Idle.at = "idle"
  BY DEF Fit, LockFits, Idle
<1>1. ASSUME NEW k \in Keys, SpawnBegin(c, k) PROVE Moves(c)
  <2> DEFINE lost == {r \in Runs : Open(r) /\ IsLost(r) /\ \E p \in Panes : <<p, r>> \in Alive(record)}
             u == Unplaced([record EXCEPT !.panes = Alive(record)], lost)
             w == [u.w EXCEPT !.panes = {e \in @ : Open(e[2])}]
  <2>1. proc' = proc \/ proc' = [proc EXCEPT ![c] = [Idle EXCEPT !.at = "claim", !.key = k, !.w = w]]
    BY <1>1 DEF SpawnBegin
  <2> HIDE DEF w
  <2>2. proc'[c] = proc[c] \/ (proc'[c].at = "claim" /\ proc'[c].run = None /\ proc'[c].key \in Keys)
    BY <1>0, <2>1 DEF Idle
  <2> QED BY <1>1, <2>2 DEF Moves
<1>2. CASE SpawnClaim(c)
  <2>1. \/ \E r \in Runs : proc'[c].run = r /\ row'[r] # row[r] /\ row[r].st = "none"
        \/ proc'[c].at = "idle" /\ proc'[c].run = None
    <3>1. PICK n \in Runs, lost \in SUBSET Runs :
             /\ row[n].st = "none"
             /\ \/ /\ row'[n] = [st |-> "open", key |-> proc[c].key]
                   /\ proc' = [proc EXCEPT ![c].at = "place", ![c].run = n,
                                           ![c].w = Unplaced(proc[c].w, lost).w]
                \/ proc' = [proc EXCEPT ![c] = Idle]
      BY <1>2, ClaimRows
    <3> DEFINE v == Unplaced(proc[c].w, lost).w
    <3>2. CASE row'[n] = [st |-> "open", key |-> proc[c].key]
               /\ proc' = [proc EXCEPT ![c].at = "place", ![c].run = n, ![c].w = v]
      <4> HIDE DEF v
      <4>1. proc'[c].run = n
        BY <1>0, <3>2 DEF ProcType
      <4>2. row'[n] # row[n]
        BY <3>1, <3>2
      <4> QED BY <3>1, <4>1, <4>2
    <3>3. CASE proc' = [proc EXCEPT ![c] = Idle]
      BY <1>0, <3>3
    <3> QED BY <3>1, <3>2, <3>3
  <2>2. ASSUME NEW r \in Runs, proc'[c].run = r, row'[r] # row[r], row[r].st = "none" PROVE Moves(c)
    <3>1. ~Closes(r)
      BY <2>2 DEF Closes, Open
    <3> QED BY <1>2, <2>2, <3>1, ClaimOpens DEF Moves
  <2> QED BY <2>1, <2>2 DEF Moves
<1>3. CASE SpawnPlace(c)
  <2>1. proc'[c].at = "boot" /\ proc'[c].run = proc[c].run /\ proc'[c].saw = proc[c].saw
    BY <1>0, <1>3 DEF SpawnPlace
  <2> QED BY <1>3, <2>1 DEF Moves, Continued
<1>4. CASE SpawnRefused(c)
  <2>1. /\ proc'[c].at = "abandon" /\ proc'[c].run = proc[c].run
        /\ proc'[c].saw = proc[c].saw /\ proc[c].at = "place"
    BY <1>0, <1>4 DEF SpawnRefused
  <2> QED BY <2>1 DEF Moves, Continued
<1>5. CASE SpawnBoot(c)
  <2>1. \/ proc'[c].at = "idle" /\ proc'[c].run = None
        \/ /\ proc'[c].at = "abandon" /\ proc'[c].run = proc[c].run
           /\ proc'[c].saw = proc[c].saw /\ proc[c].at = "boot"
    <3>1. /\ proc[c].at = "boot"
          /\ proc' = [proc EXCEPT ![c] = Idle] \/ proc' = [proc EXCEPT ![c].at = "abandon"]
      BY <1>5 DEF SpawnBoot
    <3>2. CASE proc' = [proc EXCEPT ![c] = Idle]
      BY <1>0, <3>2
    <3>3. CASE proc' = [proc EXCEPT ![c].at = "abandon"]
      BY <1>0, <3>1, <3>3 DEF ProcType
    <3> QED BY <3>1, <3>2, <3>3
  <2> QED BY <2>1 DEF Moves, Continued
<1>6. CASE SpawnAbandon(c)
  <2> DEFINE n == folder[proc[c].run].pane = None
  <2>1. proc' = [proc EXCEPT ![c].at = IF n THEN "idle" ELSE "unwind",
                             ![c].run = IF n THEN None ELSE proc[c].run]
    BY <1>6 DEF SpawnAbandon
  <2>2. CASE n
    <3>1. proc'[c].at = "idle" /\ proc'[c].run = None
      <4> HIDE DEF n
      <4> QED BY <1>0, <2>1, <2>2
    <3> QED BY <3>1 DEF Moves
  <2>3. CASE ~n
    <3>1. proc'[c].at = "unwind" /\ proc'[c].run = proc[c].run /\ proc'[c].saw = proc[c].saw
      <4> HIDE DEF n
      <4> QED BY <1>0, <2>1, <2>3
    <3> QED BY <1>6, <2>3, <3>1 DEF Moves, Continued
  <2> QED BY <2>2, <2>3
<1>7. CASE ReleasePane(c)
  <2>1. \/ proc'[c].at = "idle" /\ proc'[c].run = None
        \/ /\ proc'[c].at = "end" /\ proc'[c].run = proc[c].run /\ proc'[c].saw = proc[c].saw
           /\ proc[c].at = "release"
    BY <1>0, <1>7 DEF ReleasePane
  <2> QED BY <2>1 DEF Moves, Continued
<1> QED BY <1>1, <1>2, <1>3, <1>4, <1>5, <1>6, <1>7 DEF SpawnStep

LEMMA StopMoves ==
  ASSUME Fit, HasRun, NEW c \in Clients, StopStep(c) PROVE Moves(c)
<1>0. proc \in [Clients -> ProcType] /\ Idle.run = None /\ Idle.at = "idle"
  BY DEF Fit, LockFits, Idle
<1>a. ASSUME NEW step, NEW r, NEW saw, Begins(c, step, r, saw)
      PROVE  proc'[c].at = step /\ proc'[c].run = r /\ proc'[c].saw = saw
  BY <1>0, <1>a DEF Begins, Idle
<1>1. ASSUME NEW r \in Runs, StopBegin(c, r) PROVE Moves(c)
  <2>1. proc[c].at = "idle" /\ Open(r) /\ folder[r].pane # None
    BY <1>1 DEF StopBegin
  <2>2. CASE ~PaneGone(r)
    <3> DEFINE saw == IF IsLost(r) THEN "gone" ELSE "stop"
    <3>1. Begins(c, "exit", r, saw) /\ saw \in Ended
      BY <1>1, <2>2 DEF StopBegin, Ended
    <3> HIDE DEF saw
    <3>2. proc'[c].at = "exit" /\ proc'[c].run = r /\ proc'[c].saw = saw
      BY <3>1, <1>a
    <3> QED BY <2>1, <3>1, <3>2 DEF Moves, Begun
  <2>3. CASE PaneGone(r)
    <3> DEFINE step == IF pane[folder[r].pane].holds = None THEN "release" ELSE "unplace"
    <3>1. Begins(c, step, r, "gone") /\ step \in {"release", "unplace"}
      BY <1>1, <2>3 DEF StopBegin
    <3> HIDE DEF step
    <3>2. proc'[c].at = step /\ proc'[c].run = r /\ proc'[c].saw = "gone"
      BY <3>1, <1>a
    <3> QED BY <2>1, <2>3, <3>1, <3>2 DEF Moves, Begun, IsLost
  <2> QED BY <2>2, <2>3
<1>2. ASSUME NEW r \in Runs, LookLoses(c, r) PROVE Moves(c)
  <2>1. proc[c].at = "idle" /\ Open(r) /\ IsLost(r) /\ Begins(c, "unplace", r, "gone")
    BY <1>2 DEF LookLoses
  <2>2. proc'[c].at = "unplace" /\ proc'[c].run = r /\ proc'[c].saw = "gone"
    BY <2>1, <1>a
  <2>3. folder[r].pane # None
    BY <2>1 DEF IsLost, PaneGone, Exited, OwnPane, Holds
  <2> QED BY <2>1, <2>2, <2>3 DEF Moves, Begun
<1>3. CASE StopExit(c)
  <2>1. \/ proc'[c].at = "idle" /\ proc'[c].run = None
        \/ /\ proc'[c].at = "close" /\ proc'[c].run = proc[c].run
           /\ proc'[c].saw = proc[c].saw /\ proc[c].at = "exit"
    <3>1. /\ proc[c].at = "exit"
          /\ proc' = [proc EXCEPT ![c] = Idle] \/ proc' = [proc EXCEPT ![c].at = "close"]
      BY <1>3 DEF StopExit
    <3>2. CASE proc' = [proc EXCEPT ![c] = Idle]
      BY <1>0, <3>2
    <3>3. CASE proc' = [proc EXCEPT ![c].at = "close"]
      BY <1>0, <3>1, <3>3 DEF ProcType
    <3> QED BY <3>1, <3>2, <3>3
  <2> QED BY <2>1 DEF Moves, Continued
<1>4. CASE StopClose(c)
  <2>1. \/ proc'[c].at = "idle" /\ proc'[c].run = None
        \/ /\ proc'[c].at = "release" /\ proc'[c].run = proc[c].run /\ proc'[c].saw = proc[c].saw
           /\ OwnPane(proc[c].run)
    <3>1. \/ proc' = [proc EXCEPT ![c] = Idle]
          \/ proc' = [proc EXCEPT ![c].at = "release"] /\ OwnPane(proc[c].run)
      BY <1>4 DEF StopClose
    <3>2. CASE proc' = [proc EXCEPT ![c] = Idle]
      BY <1>0, <3>2
    <3>3. CASE proc' = [proc EXCEPT ![c].at = "release"] /\ OwnPane(proc[c].run)
      BY <1>0, <3>1, <3>3 DEF ProcType
    <3> QED BY <3>1, <3>2, <3>3
  <2> QED BY <1>4, <2>1 DEF Moves, Continued
<1>5. CASE LoseUnplace(c)
  <2>1. /\ proc'[c].at = "end" /\ proc'[c].run = proc[c].run
        /\ proc'[c].saw = proc[c].saw /\ proc[c].at = "unplace"
    BY <1>0, <1>5 DEF LoseUnplace
  <2> QED BY <2>1 DEF Moves, Continued
<1>6. CASE EndRow(c)
  <2>1. \/ proc'[c].at = "idle" /\ proc'[c].run = None
        \/ /\ proc'[c].at = "finish" /\ proc'[c].run = proc[c].run /\ proc'[c].saw = proc[c].saw
           /\ Open(proc[c].run)
    BY <1>0, <1>6 DEF EndRow
  <2> QED BY <1>6, <2>1 DEF Moves, Continued
<1>7. CASE FinishFolder(c)
  <2>1. \/ proc'[c].at = "idle" /\ proc'[c].run = None
        \/ /\ proc'[c].at = "expire" /\ proc'[c].run = proc[c].run /\ proc'[c].saw = proc[c].saw
           /\ proc[c].saw = "gone"
    BY <1>0, <1>7 DEF FinishFolder
  <2> QED BY <1>7, <2>1 DEF Moves, Continued
<1>8. CASE ExpireClaims(c) \/ Die(c)
  <2>1. proc'[c].at = "idle" /\ proc'[c].run = None
    BY <1>0, <1>8 DEF ExpireClaims, Die
  <2> QED BY <2>1 DEF Moves
<1> QED BY <1>1, <1>2, <1>3, <1>4, <1>5, <1>6, <1>7, <1>8 DEF StopStep


\* An exit file tells the end of the row that is closed with it, or what the call
\* that closed the row saw.
LEMMA ExitMoves ==
  ASSUME Fit, HasRun, RowsNext, NEW r \in Runs
  PROVE  \/ folder'[r].exit = folder[r].exit
         \/ folder'[r].exit = "gone" /\ row'[r].st = "gone"
         \/ \E c \in Clients : /\ FinishFolder(c) /\ proc[c].run = r
                               /\ folder'[r].exit = proc[c].saw
<1>0. folder \in [Runs -> [pane : Panes \cup {None}, exit : {"none"} \cup Ended]]
  BY DEF Fit, Tables
<1>1. ASSUME NEW c \in Clients, NEW k \in Keys, SpawnBegin(c, k), folder'[r].exit # folder[r].exit
      PROVE  folder'[r].exit = "gone" /\ row'[r].st = "gone"
  <2> DEFINE lost == {x \in Runs : Open(x) /\ IsLost(x) /\ \E p \in Panes : <<p, x>> \in Alive(record)}
  <2>1. row' = RowsClosed(lost, "gone") /\ folder' = FoldersFinished(lost, "gone")
    BY <1>1 DEF SpawnBegin
  <2>2. r \in lost => Open(r)
    OBVIOUS
  <2> HIDE DEF lost
  <2>3. r \in lost /\ folder'[r].exit = "gone"
    BY <1>1, <2>1, GoneEnds, ClosedAt
  <2> QED BY <2>1, <2>2, <2>3, GoneEnds, ClosedAt
<1>2. ASSUME NEW c \in Clients, SpawnClaim(c), folder'[r].exit # folder[r].exit
      PROVE  folder'[r].exit = "gone" /\ row'[r].st = "gone"
  <2>1. PICK n \in Runs, lost \in SUBSET Runs :
           /\ n \notin lost /\ folder' = FoldersFinished(lost, "gone")
           /\ \A x \in lost : Open(x)
           /\ \A s \in Runs : s # n => row'[s] = RowsClosed(lost, "gone")[s]
    BY <1>2, ClaimRows
  <2>2. r \in lost /\ folder'[r].exit = "gone"
    BY <1>2, <2>1, GoneEnds, ClosedAt
  <2> QED BY <2>1, <2>2, GoneEnds, ClosedAt
<1>3. ASSUME NEW c \in Clients, SpawnAbandon(c), folder'[r].exit # folder[r].exit
      PROVE  folder'[r].exit = "gone" /\ row'[r].st = "gone"
  <2> DEFINE x == proc[c].run  rs == {x}
  <2>1. Open(x) /\ folder' = FoldersFinished(rs, "gone") /\ row' = RowsClosed(rs, "gone")
    BY <1>3 DEF SpawnAbandon
  <2>2. r \in rs => Open(r)
    BY <2>1
  <2> HIDE DEF rs
  <2>3. r \in rs /\ folder'[r].exit = "gone"
    BY <1>3, <2>1, GoneEnds, ClosedAt
  <2> QED BY <2>1, <2>2, <2>3, GoneEnds, ClosedAt
<1>4. ASSUME NEW c \in Clients, FinishFolder(c), folder'[r].exit # folder[r].exit
      PROVE  proc[c].run = r /\ folder'[r].exit = proc[c].saw
  <2> DEFINE rs == {proc[c].run}
  <2>1. folder' = FoldersFinished(rs, proc[c].saw) /\ proc[c].saw \in Ended
    BY <1>4 DEF FinishFolder, HasRun, StopSteps
  <2>2. r \in rs => proc[c].run = r
    OBVIOUS
  <2> HIDE DEF rs
  <2> QED BY <1>4, <2>1, <2>2, ClosedAt
<1>5. ASSUME NEW c \in Clients, SpawnPlace(c) PROVE folder'[r].exit = folder[r].exit
  BY <1>0, <1>5 DEF SpawnPlace
<1>6. ASSUME NEW c \in Clients, SpawnStep(c), ~SpawnPlace(c), ~SpawnClaim(c), ~SpawnAbandon(c),
             ~\E k \in Keys : SpawnBegin(c, k)
      PROVE  folder' = folder
  BY <1>6 DEF SpawnStep, SpawnRefused, SpawnBoot, ReleasePane, disk
<1>7. ASSUME NEW c \in Clients, StopStep(c), ~FinishFolder(c) PROVE folder' = folder
  BY <1>7 DEF StopStep, StopBegin, LookLoses, StopExit, StopClose, LoseUnplace, EndRow,
     ExpireClaims, Die, disk
<1>8. CASE OtherStep
  BY <1>8 DEF OtherStep, HarnessExits, PersonTakesPane, disk
<1> QED BY <1>1, <1>2, <1>3, <1>4, <1>5, <1>6, <1>7, <1>8, Steps

\* An episode is opened by the boot of its worker, and expires with a worker that
\* is lost, a row that is stale, or in the last step of its end.
LEMMA ClaimMoves ==
  ASSUME Fit, HasRun, RowsNext, NEW r \in Runs
  PROVE  \/ claim'[r] = claim[r]
         \/ claim[r] = "held" /\ claim'[r] = "ended"
         \/ /\ claim[r] = "held" /\ claim'[r] = "expired"
            /\ IsLost(r) \/ Stale(r) \/ \E c \in Clients : ExpireClaims(c) /\ proc[c].run = r
         \/ \E c \in Clients :
              /\ SpawnBoot(c) /\ proc[c].run = r /\ OwnPane(r) /\ claim'[r] = "held"
              /\ proc'[c].at = "idle"
<1>0. claim \in [Runs -> {"none", "held", "ended", "expired"}]
  BY DEF Fit, Tables
<1>1. ASSUME NEW c \in Clients, NEW k \in Keys, SpawnBegin(c, k), claim'[r] # claim[r]
      PROVE  claim[r] = "held" /\ claim'[r] = "expired" /\ IsLost(r)
  <2> DEFINE lost == {x \in Runs : Open(x) /\ IsLost(x) /\ \E p \in Panes : <<p, x>> \in Alive(record)}
  <2>1. claim' = ClaimsExpired(lost)
    BY <1>1 DEF SpawnBegin
  <2>2. r \in lost => IsLost(r)
    OBVIOUS
  <2> HIDE DEF lost
  <2> QED BY <1>1, <2>1, <2>2, ExpiredAt
<1>2. ASSUME NEW c \in Clients, SpawnClaim(c), claim'[r] # claim[r]
      PROVE  claim[r] = "held" /\ claim'[r] = "expired" /\ (IsLost(r) \/ Stale(r))
  <2>1. PICK n \in Runs, lost \in SUBSET Runs :
           claim' = ClaimsExpired(lost) /\ \A x \in lost : IsLost(x) \/ Stale(x)
    BY <1>2, ClaimRows
  <2> QED BY <1>2, <2>1, ExpiredAt
<1>3. ASSUME NEW c \in Clients, ExpireClaims(c), claim'[r] # claim[r]
      PROVE  claim[r] = "held" /\ claim'[r] = "expired" /\ proc[c].run = r
  <2> DEFINE rs == {proc[c].run}
  <2>1. claim' = ClaimsExpired(rs) /\ (r \in rs => proc[c].run = r)
    BY <1>3 DEF ExpireClaims
  <2> HIDE DEF rs
  <2> QED BY <1>3, <2>1, ExpiredAt
<1>4. ASSUME NEW c \in Clients, SpawnBoot(c), claim'[r] # claim[r]
      PROVE  proc[c].run = r /\ OwnPane(r) /\ claim'[r] = "held" /\ proc'[c].at = "idle"
  BY <1>0, <1>4 DEF SpawnBoot, Fit, LockFits, Idle
<1>5. ASSUME NEW c \in Clients, StopExit(c), claim'[r] # claim[r]
      PROVE  claim[r] = "held" /\ claim'[r] = "ended"
  BY <1>0, <1>5 DEF StopExit
<1>6. ASSUME NEW c \in Clients, SpawnStep(c), ~SpawnBoot(c), ~SpawnClaim(c),
             ~\E k \in Keys : SpawnBegin(c, k)
      PROVE  claim' = claim
  BY <1>6 DEF SpawnStep, SpawnPlace, SpawnRefused, SpawnAbandon, ReleasePane, disk
<1>7. ASSUME NEW c \in Clients, StopStep(c), ~ExpireClaims(c), ~StopExit(c) PROVE claim' = claim
  BY <1>7 DEF StopStep, StopBegin, LookLoses, StopClose, LoseUnplace, EndRow, FinishFolder, Die, disk
<1>8. CASE OtherStep
  BY <1>8 DEF OtherStep, HarnessExits, PersonTakesPane, disk
<1> QED BY <1>1, <1>2, <1>3, <1>4, <1>5, <1>6, <1>7, <1>8, Steps

-----------------------------------------------------------------------------
\* What the pinned panes, the rows and the ends of runs have to do with one another.
Pinned ==
  /\ \A p \in Panes : pane[p].holds \in Runs => folder[pane[p].holds].pane = p
  /\ \A r \in Runs : folder[r].pane = None => worker[r] = "none" /\ claim[r] = "none"
Unborn ==
  \A r \in Runs : row[r].st = "none" =>
    /\ folder[r].pane = None /\ folder[r].exit = "none"
    /\ \A c \in Clients : proc[c].run # r
Ends ==
  /\ \A r \in Runs : row[r].st # "none" => row[r].key \in Keys
  /\ \A r \in Runs : row[r].st \in Ended => IsLost(r) \/ folder[r].pane = None
  /\ \A r \in Runs : claim[r] = "expired" => IsLost(r)
  /\ \A r, s \in Runs : Open(r) /\ Open(s) /\ row[r].key = row[s].key => r = s
EndersFit ==
  \A c \in Clients, r \in Runs : proc[c].run = r =>
    /\ proc[c].at \in GoneSteps => IsLost(r)
    /\ proc[c].at \in {"finish", "expire"} => row[r].st = proc[c].saw
RowsInv == Fit /\ HasRun /\ SpawnersFit /\ Pinned /\ Unborn /\ Ends /\ EndersFit /\ OneEnd

\* What one client does, and what becomes of every other.
LEMMA ProcMoves ==
  ASSUME Fit, HasRun, RowsNext, NEW c \in Clients
  PROVE  proc'[c] = proc[c] \/ (Moves(c) /\ \A d \in Clients : d # c => proc'[d] = proc[d])
<1>1. CASE OtherStep
  BY <1>1, NoneMoves
<1>2. ASSUME NEW d \in Clients, SpawnStep(d) \/ StopStep(d), proc'[c] # proc[c]
      PROVE  Moves(c) /\ \A e \in Clients : e # c => proc'[e] = proc[e]
  <2>1. c = d
    BY <1>2, OthersKeep
  <2> QED BY <1>2, <2>1, OthersKeep, SpawnMoves, StopMoves
<1> QED BY <1>1, <1>2, Steps

LEMMA HasRunKept == ASSUME Fit, HasRun, RowsNext PROVE HasRun'
<1> SUFFICES ASSUME NEW c \in Clients
             PROVE  /\ proc'[c].at \in {"idle", "claim"} <=> proc'[c].run = None
                    /\ proc'[c].at \in StopSteps => proc'[c].saw \in Ended
                    /\ proc'[c].at = "claim" => proc'[c].key \in Keys
  BY DEF HasRun
<1>0. /\ proc[c].at \in {"idle", "claim"} <=> proc[c].run = None
      /\ proc[c].at \in StopSteps => proc[c].saw \in Ended
      /\ proc[c].at = "claim" => proc[c].key \in Keys
      /\ None \notin Runs
  BY RowConstants DEF HasRun
<1>1. proc'[c] = proc[c] \/ Moves(c)
  BY ProcMoves
<1>2. CASE proc'[c] = proc[c]
  BY <1>0, <1>2
<1>3. CASE \/ proc'[c].at = "idle" /\ proc'[c].run = None
           \/ /\ proc'[c].at = "claim" /\ proc'[c].run = None /\ proc'[c].key \in Keys
              /\ \E k \in Keys : SpawnBegin(c, k)
  BY <1>3 DEF StopSteps
<1>4. CASE proc'[c].run \in Runs /\ Opens(c, proc'[c].run)
  BY <1>0, <1>4 DEF Opens, StopSteps
<1>5. CASE Begun(c)
  BY <1>0, <1>5 DEF Begun, GoneSteps, StopSteps, Ended
<1>6. CASE Continued(c)
  BY <1>0, <1>6 DEF Continued, StopSteps, SpawnPlace, SpawnAbandon, StopClose, EndRow, FinishFolder
<1> QED BY <1>1, <1>2, <1>3, <1>4, <1>5, <1>6 DEF Moves

\* The pane a run is pinned to stays.
LEMMA PinStays ==
  ASSUME Fit, HasRun, SpawnersFit, RowsNext, NEW r \in Runs, folder[r].pane # None
  PROVE  folder'[r].pane = folder[r].pane
<1>1. ASSUME NEW c \in Clients, SpawnPlace(c), proc[c].run = r PROVE FALSE
  <2>1. proc[c].at = "place"
    BY <1>1 DEF SpawnPlace
  <2> QED BY <1>1, <2>1 DEF SpawnersFit
<1> QED BY <1>1, FolderMoves

LEMMA PinnedKept == ASSUME RowsInv, RowsNext PROVE Pinned'
<1>0. Fit /\ HasRun /\ SpawnersFit /\ Pinned /\ Fit' /\ None \notin Panes
  BY FitKept, RowConstants DEF RowsInv
<1>1. ASSUME NEW p \in Panes, NEW r \in Runs, pane'[p].holds = r PROVE folder'[r].pane = p
  <2>1. CASE pane[p].holds = r
    <3>1. folder[r].pane = p
      BY <1>0, <2>1 DEF Pinned
    <3> QED BY <1>0, <3>1, PinStays
  <2> QED BY <1>0, <1>1, <2>1, PaneMoves
<1>2. ASSUME NEW r \in Runs, folder'[r].pane = None PROVE worker'[r] = "none" /\ claim'[r] = "none"
  <2>1. folder[r].pane = None
    BY <1>0, <1>2, PinStays
  <2>2. worker[r] = "none" /\ claim[r] = "none" /\ ~OwnPane(r)
    BY <1>0, <2>1 DEF Pinned, OwnPane, Holds
  <2> QED BY <1>0, <2>2, WorkerMoves, ClaimMoves
<1> QED BY <1>1, <1>2 DEF Pinned

LEMMA UnbornKept == ASSUME RowsInv, RowsNext PROVE Unborn'
<1>0. Fit /\ HasRun /\ SpawnersFit /\ Unborn /\ None \notin Runs
  BY RowConstants DEF RowsInv
<1> SUFFICES ASSUME NEW r \in Runs, row'[r].st = "none"
             PROVE  /\ folder'[r].pane = None /\ folder'[r].exit = "none"
                    /\ \A c \in Clients : proc'[c].run # r
  BY DEF Unborn
<1>1. row'[r] = row[r]
  <2>1. ASSUME NEW c \in Clients, EndRow(c) PROVE proc[c].saw \in Ended
    BY <1>0, <2>1 DEF EndRow, HasRun, StopSteps
  <2>2. ~Closes(r)
    BY <2>1 DEF Closes, Ended
  <2>3. \A c \in Clients : ~Opens(c, r)
    BY DEF Opens
  <2> QED BY <1>0, <2>2, <2>3, RowMoves
<1>2. folder[r].pane = None /\ folder[r].exit = "none" /\ \A c \in Clients : proc[c].run # r
  BY <1>0, <1>1 DEF Unborn
<1>3. folder'[r].pane = None
  BY <1>0, <1>2, FolderMoves
<1>4. folder'[r].exit = "none"
  BY <1>0, <1>1, <1>2, ExitMoves
<1>5. ASSUME NEW c \in Clients, proc'[c].run = r PROVE FALSE
  <2>1. proc'[c] # proc[c] /\ Moves(c)
    BY <1>0, <1>2, <1>5, ProcMoves
  <2>2. ~Opens(c, r)
    BY <1>1 DEF Opens
  <2>3. ~Open(r)
    BY <1>1 DEF Open
  <2> QED BY <1>0, <1>2, <1>5, <2>1, <2>2, <2>3 DEF Moves, Begun, Continued
<1> QED BY <1>3, <1>4, <1>5

\* A spawn that gives up has no pane, or closed it; a stop closes its run's.
LEMMA AbandonLoses ==
  ASSUME RowsInv, RowsNext, NEW c \in Clients, NEW r \in Runs, SpawnAbandon(c), proc[c].run = r
  PROVE  folder[r].pane = None \/ IsLost(r)'
<1> DEFINE own == IF OwnPane(r) THEN {folder[r].pane} ELSE {}
<1>0. /\ Fit /\ HasRun /\ SpawnersFit /\ None # r /\ pane' = Closing(own)
  BY RowConstants DEF RowsInv, SpawnAbandon
<1>1. ASSUME folder[r].pane # None PROVE IsLost(r)'
  <2>1. folder'[r].pane = folder[r].pane /\ folder[r].pane \in Panes
    BY <1>0, <1>1, PinStays DEF Fit, Tables
  <2> DEFINE p == folder[r].pane
  <2>2. pane'[p].holds # r
    <3>1. p \notin own => pane[p].holds # r
      BY <1>1 DEF OwnPane, Holds
    <3> HIDE DEF own, p
    <3> QED BY <1>0, <2>1, <3>1 DEF Closing, p
  <2> QED BY <1>1, <2>1, <2>2 DEF IsLost, PaneGone, OwnPane, Holds
<1> QED BY <1>1

LEMMA CloseLoses ==
  ASSUME RowsInv, RowsNext, NEW c \in Clients, NEW r \in Runs, StopClose(c), OwnPane(r), proc[c].run = r
  PROVE  IsLost(r)'
<1> DEFINE p == folder[r].pane
<1>0. Fit /\ HasRun /\ SpawnersFit /\ None # r /\ pane' = Closing({p})
  BY RowConstants DEF RowsInv, StopClose
<1>1. p # None
  BY DEF OwnPane, Holds
<1>2. folder'[r].pane = p /\ p \in Panes
  BY <1>0, <1>1, PinStays DEF Fit, Tables
<1>3. pane'[p].holds # r
  <2> HIDE DEF p
  <2> QED BY <1>0, <1>2 DEF Closing
<1> QED BY <1>1, <1>2, <1>3 DEF IsLost, PaneGone, OwnPane, Holds

LEMMA EndersKept == ASSUME RowsInv, RowsNext PROVE EndersFit'
<1>0. Fit /\ HasRun /\ SpawnersFit /\ EndersFit /\ None \notin Runs
  BY RowConstants DEF RowsInv
<1>a. ASSUME NEW r \in Runs, row[r].st \in Ended PROVE row'[r].st = row[r].st
  <2>1. ~Closes(r) /\ \A c \in Clients : ~Opens(c, r)
    BY <1>a DEF Closes, Opens, Open, Ended
  <2> QED BY <1>0, <2>1, RowMoves
<1> SUFFICES ASSUME NEW c \in Clients, NEW r \in Runs, proc'[c].run = r
             PROVE  /\ proc'[c].at \in GoneSteps => IsLost(r)'
                    /\ proc'[c].at \in {"finish", "expire"} => row'[r].st = proc'[c].saw
  BY DEF EndersFit
<1>b. ASSUME proc[c].run = r
      PROVE  /\ proc[c].at \in GoneSteps => IsLost(r)'
             /\ proc[c].at \in {"finish", "expire"} => row'[r].st = proc[c].saw
  <2>1. proc[c].at \in GoneSteps => IsLost(r)
    BY <1>0, <1>b DEF EndersFit
  <2>2. proc[c].at \in {"finish", "expire"} => (row[r].st = proc[c].saw /\ proc[c].saw \in Ended)
    BY <1>0, <1>b DEF EndersFit, HasRun, StopSteps
  <2> QED BY <1>0, <1>a, <2>1, <2>2, LossStays
<1>4. proc'[c] = proc[c] \/ Moves(c)
  BY <1>0, ProcMoves
<1>5. CASE proc'[c] = proc[c]
  BY <1>b, <1>5
<1>6. CASE proc'[c].at \in {"idle", "claim"}
  BY <1>6 DEF GoneSteps
<1>7. CASE Opens(c, r)
  BY <1>7 DEF Opens, GoneSteps
<1>8. CASE Begun(c)
  <2>1. proc'[c].at \in {"release", "unplace"} => IsLost(r)
    BY <1>8 DEF Begun
  <2>2. proc'[c].at \in {"exit", "release", "unplace"}
    BY <1>8 DEF Begun
  <2> QED BY <1>0, <2>1, <2>2, LossStays DEF GoneSteps
<1>9. CASE Continued(c)
  <2>0. proc[c].run = r /\ proc'[c].saw = proc[c].saw
    BY <1>9 DEF Continued
  <2>1. CASE proc'[c].at \in {"boot", "abandon", "close"}
    BY <2>1 DEF GoneSteps
  <2>2. CASE proc'[c].at = "unwind" /\ SpawnAbandon(c) /\ folder[proc[c].run].pane # None
    BY <2>0, <2>2, AbandonLoses DEF GoneSteps
  <2>3. CASE proc'[c].at = "release" /\ StopClose(c) /\ OwnPane(proc[c].run)
    BY <2>0, <2>3, CloseLoses DEF GoneSteps
  <2>4. CASE proc'[c].at = "end" /\ proc[c].at \in {"release", "unplace"}
    BY <2>0, <2>4, <1>b DEF GoneSteps
  <2>5. CASE proc'[c].at = "finish" /\ EndRow(c) /\ Open(proc[c].run)
    <3>1. proc[c].at = "end" /\ row' = RowsClosed({r}, proc[c].saw) /\ Open(r)
      BY <2>0, <2>5 DEF EndRow
    <3>2. proc[c].saw \in Ended
      BY <1>0, <3>1 DEF HasRun, StopSteps
    <3>3. row'[r].st = proc[c].saw
      BY <1>0, <3>1, <3>2, ClosedAt
    <3> QED BY <1>b, <2>0, <2>5, <3>1, <3>3 DEF GoneSteps
  <2>6. CASE proc'[c].at = "expire" /\ FinishFolder(c) /\ proc[c].saw = "gone"
    <3>1. proc[c].at = "finish"
      BY <2>6 DEF FinishFolder
    <3> QED BY <1>b, <2>0, <2>6, <3>1 DEF GoneSteps
  <2> QED BY <1>9, <2>1, <2>2, <2>3, <2>4, <2>5, <2>6 DEF Continued
<1> QED BY <1>4, <1>5, <1>6, <1>7, <1>8, <1>9 DEF Moves

LEMMA EndsKept == ASSUME RowsInv, RowsNext PROVE Ends'
<1>0. Fit /\ HasRun /\ SpawnersFit /\ Pinned /\ Unborn /\ Ends /\ EndersFit /\ Fit' /\ None \notin Runs
  BY FitKept, RowConstants DEF RowsInv
<1>1. ASSUME NEW r \in Runs, row'[r].st # "none" PROVE row'[r].key \in Keys
  <2>1. CASE row'[r] = row[r]
    BY <1>0, <1>1, <2>1 DEF Ends
  <2>2. CASE Closes(r)
    BY <1>0, <2>2 DEF Closes, Open, Ends
  <2>3. ASSUME NEW c \in Clients, Opens(c, r) PROVE row'[r].key \in Keys
    <3>1. proc[c].at = "claim" /\ row'[r].key = proc[c].key
      BY <2>3 DEF Opens, SpawnClaim
    <3> QED BY <1>0, <3>1 DEF HasRun
  <2> QED BY <1>0, <2>1, <2>2, <2>3, RowMoves
<1>2. ASSUME NEW r \in Runs, row'[r].st \in Ended PROVE IsLost(r)' \/ folder'[r].pane = None
  <2>1. CASE row'[r] = row[r]
    <3>1. IsLost(r) \/ folder[r].pane = None
      BY <1>0, <1>2, <2>1 DEF Ends
    <3>2. ASSUME folder[r].pane = None PROVE folder'[r].pane = None
      <4>1. ASSUME NEW c \in Clients, SpawnPlace(c), proc[c].run = r PROVE FALSE
        <5>1. Open(r)
          BY <1>0, <4>1 DEF SpawnersFit, SpawnPlace
        <5> QED BY <1>2, <2>1, <5>1 DEF Open, Ended
      <4> QED BY <1>0, <3>2, <4>1, FolderMoves
    <3> QED BY <1>0, <3>1, <3>2, LossStays
  <2>2. CASE Closes(r)
    <3>1. CASE IsLost(r) \/ Stale(r)
      <4>1. Stale(r) => folder'[r].pane = None
        BY <2>2 DEF Closes, Stale
      <4> QED BY <1>0, <3>1, <4>1, LossStays
    <3>2. ASSUME NEW c \in Clients, SpawnAbandon(c), proc[c].run = r
          PROVE  IsLost(r)' \/ folder'[r].pane = None
      BY <2>2, <3>2, AbandonLoses DEF Closes
    <3>3. ASSUME NEW c \in Clients, EndRow(c), proc[c].run = r PROVE IsLost(r)'
      <4>1. IsLost(r)
        BY <1>0, <3>3 DEF EndRow, EndersFit, GoneSteps
      <4> QED BY <1>0, <4>1, LossStays
    <3> QED BY <2>2, <3>1, <3>2, <3>3 DEF Closes
  <2>3. \A c \in Clients : ~Opens(c, r)
    BY <1>2 DEF Opens, Ended
  <2> QED BY <1>0, <2>1, <2>2, <2>3, RowMoves
<1>3. ASSUME NEW r \in Runs, claim'[r] = "expired" PROVE IsLost(r)'
  <2>1. CASE claim[r] = "expired"
    BY <1>0, <2>1, LossStays DEF Ends
  <2>2. CASE claim[r] = "held"
    <3>1. ~Stale(r)
      BY <1>0, <2>2 DEF Stale, Pinned
    <3>2. ASSUME NEW c \in Clients, ExpireClaims(c), proc[c].run = r PROVE IsLost(r)
      BY <1>0, <3>2 DEF ExpireClaims, EndersFit, GoneSteps
    <3> QED BY <1>0, <1>3, <2>2, <3>1, <3>2, ClaimMoves, LossStays
  <2> QED BY <1>0, <1>3, <2>1, <2>2, ClaimMoves
<1>4. ASSUME NEW r \in Runs, NEW s \in Runs, Open(r)', Open(s)', row'[r].key = row'[s].key PROVE r = s
  <2>1. ASSUME NEW x \in Runs, Open(x)' PROVE row'[x] = row[x] \/ \E c \in Clients : Opens(c, x)
    <3>1. ASSUME NEW c \in Clients, EndRow(c) PROVE proc[c].saw \in Ended
      BY <1>0, <3>1 DEF EndRow, HasRun, StopSteps
    <3>2. ~Closes(x)
      BY <2>1, <3>1 DEF Closes, Open, Ended
    <3> QED BY <1>0, <3>2, RowMoves
  <2>2. ASSUME NEW c \in Clients, NEW x \in Runs, NEW y \in Runs, Opens(c, x), Open(x)', Open(y)',
               row'[x].key = row'[y].key
        PROVE  x = y
    <3> SUFFICES ASSUME x # y PROVE FALSE
      OBVIOUS
    <3>1. row'[y] = row[y] /\ row'[x].key = proc[c].key
      BY <2>2 DEF Opens, Open
    <3>2. Open(y) /\ row[y].key = proc[c].key
      BY <2>2, <3>1 DEF Open
    <3>3. row'[y].st = "gone"
      BY <2>2, <3>2 DEF Opens
    <3> QED BY <2>2, <3>3 DEF Open
  <2>3. CASE row'[r] = row[r] /\ row'[s] = row[s]
    BY <1>0, <1>4, <2>3 DEF Ends, Open
  <2> QED BY <1>4, <2>1, <2>2, <2>3
<1> QED BY <1>1, <1>2, <1>3, <1>4 DEF Ends

LEMMA SpawnersKept == ASSUME RowsInv, RowsNext PROVE SpawnersFit'
<1>0. Fit /\ HasRun /\ SpawnersFit /\ Pinned /\ Unborn /\ EndersFit /\ None \notin Runs
  BY RowConstants DEF RowsInv
\* What a client that goes on, or stays, has of its run.
<1>a. ASSUME NEW c \in Clients, proc'[c].at \in Spawning
      PROVE  /\ proc'[c].run \in Runs
             /\ \/ /\ proc'[c].run = proc[c].run /\ proc[c].at \in Spawning
                   /\ proc'[c].at = "place" => proc'[c] = proc[c]
                \/ Opens(c, proc'[c].run)
  <2>1. proc'[c] = proc[c] \/ Moves(c)
    BY <1>0, ProcMoves
  <2>2. CASE Begun(c)
    BY <1>a, <2>2 DEF Begun, Spawning
  <2>3. CASE Continued(c)
    <3>1. proc'[c].at \in {"boot", "abandon"} /\ proc[c].at \in Spawning /\ proc'[c].run = proc[c].run
      BY <1>a, <2>3 DEF Continued, Spawning, SpawnPlace
    <3>2. proc[c].run \in Runs
      BY <1>0, <3>1 DEF HasRun, Spawning, Fit, LockFits, ProcType
    <3> QED BY <3>1, <3>2
  <2>4. CASE proc'[c] = proc[c]
    <3>1. proc[c].run \in Runs
      BY <1>0, <1>a, <2>4 DEF HasRun, Spawning, Fit, LockFits, ProcType
    <3> QED BY <1>a, <2>4, <3>1
  <2> QED BY <1>a, <2>1, <2>2, <2>3, <2>4 DEF Moves, Spawning
<1>b. ASSUME NEW c \in Clients, NEW d \in Clients, NEW r \in Runs, proc[c].at \in Spawning,
             proc[d].at \in Spawning, proc[c].run = r, proc[d].run = r
      PROVE  c = d
  BY <1>0, <1>b DEF SpawnersFit
<1>1. ASSUME NEW c \in Clients, NEW r \in Runs, proc'[c].at \in Spawning, proc'[c].run = r
      PROVE  worker'[r] = "none" /\ claim'[r] = "none"
  <2>1. worker[r] = "none" /\ claim[r] = "none"
    <3>1. CASE proc[c].run = r /\ proc[c].at \in Spawning
      BY <1>0, <3>1 DEF SpawnersFit
    <3>2. CASE Opens(c, r)
      BY <1>0, <3>2 DEF Opens, Unborn, Pinned
    <3> QED BY <1>a, <1>1, <3>1, <3>2
  <2>2. ASSUME NEW d \in Clients, SpawnBoot(d), proc[d].run = r, OwnPane(r), proc'[d].at = "idle"
        PROVE FALSE
    <3>1. CASE proc[c].run = r /\ proc[c].at \in Spawning
      <4>1. c = d
        BY <1>b, <2>2, <3>1 DEF SpawnBoot, Spawning
      <4> QED BY <1>1, <2>2, <4>1 DEF Spawning
    <3>2. CASE Opens(c, r)
      BY <1>0, <2>2, <3>2 DEF Opens, Unborn
    <3> QED BY <1>a, <1>1, <3>1, <3>2
  <2> QED BY <1>0, <2>1, <2>2, WorkerMoves, ClaimMoves
<1>2. ASSUME NEW c \in Clients, NEW r \in Runs, proc'[c].at = "place", proc'[c].run = r
      PROVE  folder'[r].pane = None /\ Open(r)'
  <2>1. CASE Opens(c, r)
    BY <1>0, <2>1 DEF Opens, Unborn, Open
  <2>2. CASE proc'[c] = proc[c]
    <3>1. proc[c].at = "place" /\ proc[c].run = r /\ folder[r].pane = None /\ Open(r)
      BY <1>0, <1>2, <2>2 DEF SpawnersFit
    <3>2. ASSUME NEW d \in Clients, SpawnPlace(d), proc[d].run = r PROVE FALSE
      <4>1. c = d
        BY <1>b, <3>1, <3>2 DEF SpawnPlace, Spawning
      <4>2. proc'[c].at = "boot"
        BY <1>0, <3>2, <4>1 DEF SpawnPlace, Fit, LockFits
      <4> QED BY <1>2, <4>2
    <3>3. folder'[r].pane = None
      BY <1>0, <3>1, <3>2, FolderMoves
    <3>4. ~IsLost(r) /\ ~Stale(r)
      BY <3>1 DEF IsLost, PaneGone, Exited, OwnPane, Holds, Stale, SpawnerLives, SpawnSteps
    <3>5. ASSUME NEW d \in Clients, SpawnAbandon(d), proc[d].run = r PROVE FALSE
      BY <1>b, <3>1, <3>5 DEF SpawnAbandon, Spawning
    <3>6. ASSUME NEW d \in Clients, EndRow(d), proc[d].run = r PROVE FALSE
      BY <1>0, <3>4, <3>6 DEF EndRow, EndersFit, GoneSteps
    <3>7. ~Closes(r)
      BY <3>4, <3>5, <3>6 DEF Closes
    <3>8. \A d \in Clients : ~Opens(d, r)
      BY <3>1 DEF Opens, Open
    <3> QED BY <1>0, <3>1, <3>3, <3>7, <3>8, RowMoves DEF Open
  <2> QED BY <1>2, <1>a, <2>1, <2>2 DEF Spawning
<1>3. ASSUME NEW c \in Clients, NEW d \in Clients, proc'[c].at \in Spawning, proc'[d].at \in Spawning,
             proc'[c].run = proc'[d].run
      PROVE  c = d
  <2> DEFINE r == proc'[c].run
  <2>0. r \in Runs
    BY <1>3, <1>a
  <2>1. ASSUME NEW x \in Clients, NEW y \in Clients, Opens(x, r), proc'[y].run = r PROVE x = y
    <3>1. proc[y].run # r /\ proc[x].run # r
      BY <1>0, <2>0, <2>1 DEF Opens, Unborn
    <3>2. proc'[x] # proc[x] /\ proc'[y] # proc[y]
      BY <2>1, <3>1 DEF Opens
    <3> QED BY <1>0, <3>2, ProcMoves
  <2> HIDE DEF r
  <2>2. proc'[c].run = r /\ proc'[d].run = r
    BY <1>3 DEF r
  <2>3. CASE Opens(c, r) \/ Opens(d, r)
    BY <2>1, <2>2, <2>3
  <2>4. CASE ~Opens(c, r) /\ ~Opens(d, r)
    BY <1>3, <1>a, <1>b, <2>0, <2>2, <2>4
  <2> QED BY <2>3, <2>4
<1>4. \A c \in Clients : proc'[c].at \in Spawning => proc'[c].run \in Runs
  BY <1>a
<1>5. "place" \in Spawning
  BY DEF Spawning
<1> QED BY <1>1, <1>2, <1>3, <1>4, <1>5 DEF SpawnersFit

LEMMA OneEndKept == ASSUME RowsInv, RowsNext PROVE OneEnd'
<1>0. Fit /\ HasRun /\ Unborn /\ EndersFit /\ OneEnd
  BY DEF RowsInv
<1> SUFFICES ASSUME NEW r \in Runs, folder'[r].exit # "none" PROVE folder'[r].exit = row'[r].st
  BY DEF OneEnd
<1>1. CASE folder'[r].exit = folder[r].exit
  <2>1. folder[r].exit = row[r].st /\ folder[r].exit \in Ended
    BY <1>0, <1>1 DEF OneEnd, Fit, Tables
  <2>2. ~Closes(r) /\ \A c \in Clients : ~Opens(c, r)
    BY <2>1 DEF Closes, Opens, Open, Ended
  <2> QED BY <1>0, <1>1, <2>1, <2>2, RowMoves
<1>2. ASSUME NEW c \in Clients, FinishFolder(c), proc[c].run = r, folder'[r].exit = proc[c].saw
      PROVE  folder'[r].exit = row'[r].st
  BY <1>0, <1>2 DEF FinishFolder, EndersFit
<1> QED BY <1>0, <1>1, <1>2, ExitMoves

LEMMA RowsInvInit == RowsInit => RowsInv
<1> SUFFICES ASSUME RowsInit PROVE RowsInv
  OBVIOUS
<1>0. /\ \A c \in Clients : proc[c].at = "idle" /\ proc[c].run = None
      /\ \A r \in Runs : /\ row[r].st = "none" /\ folder[r].pane = None /\ folder[r].exit = "none"
                         /\ claim[r] = "none" /\ worker[r] = "none"
      /\ \A p \in Panes : pane[p].holds = None
      /\ None \notin Runs
  BY RowConstants DEF RowsInit, Idle
<1>1. HasRun
  BY <1>0 DEF HasRun, StopSteps
<1>2. SpawnersFit
  BY <1>0 DEF SpawnersFit, Spawning
<1>3. Pinned
  BY <1>0 DEF Pinned
<1>4. Unborn
  BY <1>0 DEF Unborn
<1>5. Ends
  BY <1>0 DEF Ends, Ended, Open
<1>6. EndersFit
  BY <1>0 DEF EndersFit
<1>7. OneEnd
  BY <1>0 DEF OneEnd
<1> QED BY <1>1, <1>2, <1>3, <1>4, <1>5, <1>6, <1>7, RowsInitFit DEF RowsInv

LEMMA RowsInvKept == ASSUME RowsInv, RowsNext PROVE RowsInv'
<1>1. Fit' /\ HasRun'
  BY FitKept, HasRunKept DEF RowsInv
<1>2. SpawnersFit' /\ Pinned' /\ Unborn'
  BY SpawnersKept, PinnedKept, UnbornKept
<1>3. Ends' /\ EndersFit' /\ OneEnd'
  BY EndsKept, EndersKept, OneEndKept
<1> QED BY <1>1, <1>2, <1>3 DEF RowsInv

LEMMA RowsInvStutters == ASSUME RowsInv, UNCHANGED rows PROVE RowsInv'
<1>1. UNCHANGED <<row, folder, claim, worker, pane, used, record, lock, proc, faults>>
  BY DEF rows, disk, herdr
<1>2. Fit' /\ HasRun' /\ SpawnersFit'
  BY <1>1 DEF RowsInv, Fit, Tables, LockFits, HasRun, SpawnersFit, Open
<1>3. Pinned' /\ Unborn'
  BY <1>1 DEF RowsInv, Pinned, Unborn
<1>4. \A r \in Runs : IsLost(r)' <=> IsLost(r)
  BY <1>1 DEF IsLost, PaneGone, Exited, OwnPane, Holds
<1>5. Ends' /\ EndersFit' /\ OneEnd'
  BY <1>1, <1>4 DEF RowsInv, Ends, EndersFit, OneEnd, Open
<1> QED BY <1>2, <1>3, <1>5 DEF RowsInv

LEMMA RowsInvHolds == RowsSpec => []RowsInv
<1>1. RowsInv /\ [RowsNext]_rows => RowsInv'
  BY RowsInvKept, RowsInvStutters
<1> QED BY <1>1, RowsInvInit, PTL DEF RowsSpec

LEMMA WorkersAreOne == ASSUME RowsInv PROVE OneWorker /\ ExpiredOnlyLost
<1>1. ASSUME NEW r \in Working PROVE ~IsLost(r) /\ folder[r].pane # None /\ r \in Runs
  BY <1>1 DEF Working, IsLost, PaneGone, Exited, OwnPane, Holds
<1>2. ASSUME NEW r \in Working PROVE Open(r)
  BY <1>1 DEF RowsInv, Ends, Unborn, Fit, Tables, Open
<1>3. ASSUME NEW r \in Working, NEW s \in Working, row[r].key = row[s].key PROVE r = s
  BY <1>1, <1>2, <1>3 DEF RowsInv, Ends
<1>4. ASSUME NEW r \in Runs, claim[r] = "expired" PROVE r \notin Working
  BY <1>1, <1>4 DEF RowsInv, Ends
<1> QED BY <1>2, <1>3, <1>4 DEF OneWorker, ExpiredOnlyLost

-----------------------------------------------------------------------------
\* No fault is forgotten, and a client that is to finish goes on or dies.
LEMMA FaultMoves ==
  ASSUME Fit, RowsNext
  PROVE  /\ faults' = faults \/ \E kind : Fault(kind)
         /\ \A k \in AllFaults : faults'[k] = 0 => faults[k] = 0
<1>1. faults' = faults \/ \E kind : Fault(kind)
  <2>1. ASSUME NEW c \in Clients, SpawnStep(c) PROVE faults' = faults \/ \E kind : Fault(kind)
    BY <2>1 DEF SpawnStep, SpawnBegin, SpawnClaim, SpawnPlace, GivesOut, SpawnRefused, SpawnBoot,
       SpawnAbandon, ReleasePane
  <2>2. ASSUME NEW c \in Clients, StopStep(c) PROVE faults' = faults \/ \E kind : Fault(kind)
    BY <2>2 DEF StopStep, StopBegin, LookLoses, StopExit, StopClose, LoseUnplace, EndRow, FinishFolder,
       ExpireClaims, Die
  <2>3. CASE OtherStep
    BY <2>3 DEF OtherStep, HarnessExits, PersonTakesPane
  <2> QED BY <2>1, <2>2, <2>3, Steps
<1> QED BY <1>1, FaultFits

LEMMA FinishGoes ==
  ASSUME Fit, RowsNext, NEW c \in Clients, proc[c].at \in {"finish", "expire"}, proc'[c] # proc[c]
  PROVE  \/ proc[c].at = "finish" /\ FinishFolder(c)
         \/ proc[c].at = "expire" /\ ExpireClaims(c)
         \/ Fault("die")
<1>1. SpawnStep(c) \/ StopStep(c)
  BY Steps, OthersKeep, NoneMoves
<1>2. ~SpawnStep(c)
  BY DEF SpawnStep, SpawnBegin, SpawnClaim, SpawnPlace, SpawnRefused, SpawnBoot, SpawnAbandon, ReleasePane
<1> QED BY <1>1, <1>2 DEF StopStep, StopBegin, LookLoses, StopExit, StopClose, LoseUnplace, EndRow,
     FinishFolder, ExpireClaims, Die

LEMMA FinishedKept == ASSUME RowsInv, EndsFinished, RowsNext PROVE EndsFinished'
<1>0. Fit /\ HasRun /\ SpawnersFit /\ Ends /\ EndersFit
  BY DEF RowsInv
<1> SUFFICES ASSUME faults'["die"] = 0, NEW r \in Runs
             PROVE  /\ row'[r].st \in Ended =>
                         \/ folder'[r].exit # "none"
                         \/ \E c \in Clients : proc'[c].run = r /\ proc'[c].at = "finish"
                    /\ row'[r].st = "gone" =>
                         \/ claim'[r] # "held"
                         \/ \E c \in Clients : proc'[c].run = r /\ proc'[c].at \in {"finish", "expire"}
  BY DEF EndsFinished
<1>1. ~Fault("die") /\ faults["die"] = 0
  BY <1>0, FaultMoves, FaultFits DEF AllFaults
<1>2. /\ row[r].st \in Ended =>
           \/ folder[r].exit # "none"
           \/ \E c \in Clients : proc[c].run = r /\ proc[c].at = "finish"
      /\ row[r].st = "gone" =>
           \/ claim[r] # "held"
           \/ \E c \in Clients : proc[c].run = r /\ proc[c].at \in {"finish", "expire"}
  BY <1>1 DEF EndsFinished
<1>3. folder[r].exit # "none" => folder'[r].exit # "none"
  <2>1. ASSUME NEW c \in Clients, FinishFolder(c) PROVE proc[c].saw \in Ended
    BY <1>0, <2>1 DEF FinishFolder, HasRun, StopSteps
  <2>2. "none" \notin Ended
    BY DEF Ended
  <2> QED BY <1>0, <2>1, <2>2, ExitMoves
<1>4. ASSUME row'[r] = row[r], row[r].st \in Ended
      PROVE  folder'[r].exit # "none" \/ \E c \in Clients : proc'[c].run = r /\ proc'[c].at = "finish"
  <2>1. ASSUME NEW c \in Clients, proc[c].run = r, proc[c].at = "finish", proc'[c] # proc[c]
        PROVE  folder'[r].exit # "none"
    <3>1. FinishFolder(c)
      BY <1>0, <1>1, <2>1, FinishGoes
    <3>2. folder' = FoldersFinished({r}, proc[c].saw) /\ proc[c].saw \in Ended
      BY <1>0, <2>1, <3>1 DEF FinishFolder, HasRun, StopSteps
    <3>3. folder'[r].exit = proc[c].saw
      BY <1>0, <3>2, ClosedAt
    <3> QED BY <3>2, <3>3 DEF Ended
  <2> QED BY <1>2, <1>3, <1>4, <2>1
<1>5. ASSUME row'[r] = row[r], row[r].st = "gone"
      PROVE  \/ claim'[r] # "held"
             \/ \E c \in Clients : proc'[c].run = r /\ proc'[c].at \in {"finish", "expire"}
  <2>1. ASSUME claim[r] # "held" PROVE claim'[r] # "held"
    <3>1. ASSUME NEW c \in Clients, SpawnBoot(c), proc[c].run = r, OwnPane(r) PROVE FALSE
      <4>1. worker[r] = "none"
        BY <1>0, <3>1 DEF SpawnBoot, SpawnersFit, Spawning
      <4>2. ~IsLost(r) /\ folder[r].pane # None
        BY <3>1, <4>1 DEF IsLost, PaneGone, Exited, OwnPane, Holds
      <4> QED BY <1>0, <1>5, <4>2 DEF Ends, Ended
    <3> QED BY <1>0, <2>1, <3>1, ClaimMoves
  <2>2. ASSUME NEW c \in Clients, proc[c].run = r, proc[c].at \in {"finish", "expire"}, proc'[c] # proc[c]
        PROVE  \/ claim'[r] # "held"
               \/ proc'[c].run = r /\ proc'[c].at = "expire"
    <3>1. CASE FinishFolder(c) /\ proc[c].at = "finish"
      <4>1. proc[c].saw = "gone"
        BY <1>0, <1>5, <2>2 DEF EndersFit
      <4>2. proc' = [proc EXCEPT ![c] = [@ EXCEPT !.at = "expire"]]
        BY <3>1, <4>1 DEF FinishFolder
      <4> QED BY <1>0, <2>2, <4>2 DEF Fit, LockFits, ProcType
    <3>2. CASE ExpireClaims(c)
      <4>1. claim' = ClaimsExpired({r})
        BY <2>2, <3>2 DEF ExpireClaims
      <4> QED BY <1>0, <4>1, ExpiredAt
    <3> QED BY <1>0, <1>1, <2>2, <3>1, <3>2, FinishGoes
  <2> QED BY <1>2, <1>5, <2>1, <2>2
<1>6. CASE row'[r] = row[r]
  BY <1>4, <1>5, <1>6
<1>7. CASE Closes(r)
  <2>1. ASSUME NEW c \in Clients, SpawnAbandon(c), proc[c].run = r, claim' = claim PROVE claim'[r] # "held"
    BY <1>0, <2>1 DEF SpawnAbandon, SpawnersFit, Spawning
  <2>2. ASSUME NEW c \in Clients, EndRow(c), proc[c].run = r, proc'[c] = [proc[c] EXCEPT !.at = "finish"]
        PROVE  proc'[c].run = r /\ proc'[c].at = "finish"
    BY <1>0, <2>2 DEF Fit, LockFits, ProcType
  <2> QED BY <1>7, <2>1, <2>2 DEF Closes
<1>8. ASSUME NEW c \in Clients, Opens(c, r) PROVE row'[r].st \notin Ended /\ row'[r].st # "gone"
  BY <1>8 DEF Opens, Ended
<1> QED BY <1>0, <1>6, <1>7, <1>8, RowMoves

LEMMA FinishedInit == RowsInit => EndsFinished
<1> SUFFICES ASSUME RowsInit PROVE EndsFinished
  OBVIOUS
<1>1. \A r \in Runs : row[r].st = "none"
  BY DEF RowsInit
<1> QED BY <1>1 DEF EndsFinished, Ended

\* A closed row has its exit file, and a gone one no held episode, or the call that
\* closed it still sees to that.
THEOREM EndsStayFinished == RowsSpec => []EndsFinished
<1>1. RowsInv /\ EndsFinished /\ [RowsNext]_rows => EndsFinished'
  <2>1. ASSUME EndsFinished, UNCHANGED rows PROVE EndsFinished'
    BY <2>1 DEF EndsFinished, rows, disk, herdr
  <2> QED BY <2>1, FinishedKept
<1> QED BY <1>1, FinishedInit, RowsInvHolds, PTL DEF RowsSpec

-----------------------------------------------------------------------------
\* While no pane id is given out twice, the record lists every worker that lives,
\* and no one closes the pane of one but its own run's end.
Live(r) == Open(r) /\ OwnPane(r) /\ worker[r] # "exited"
ListsLive(w) == \A r \in Runs : Live(r) => <<folder[r].pane, r>> \in w.panes
Spares(ps) == \A r \in Runs : Live(r) => \A p \in ps : ~Holds(p, r)

LEMMA ReleaseSpares ==
  ASSUME Fit, NEW w \in Records, NEW out, NEW shut, ListsLive(w), Spares(shut),
         \A r \in Runs : Live(r) => <<folder[r].pane, r>> \notin out
  PROVE  ListsLive(Released(w, out, shut).w) /\ Spares(Released(w, out, shut).shut)
<1> DEFINE left == {e \in Alive(w) \ out : e[1] \notin shut}
           u == Released(w, out, shut)
<1>1. ASSUME NEW r \in Runs, Live(r) PROVE <<folder[r].pane, r>> \in left
  <2>1. <<folder[r].pane, r>> \in w.panes /\ <<folder[r].pane, r>> \notin out
    BY <1>1 DEF ListsLive
  <2>2. Holds(folder[r].pane, r)
    BY <1>1 DEF Live, OwnPane
  <2>3. folder[r].pane \notin shut
    BY <1>1, <2>2 DEF Spares
  <2>4. pane[folder[r].pane].holds # None
    BY <2>2, RowConstants DEF Holds
  <2> QED BY <2>1, <2>3, <2>4 DEF Alive
<1>2. CASE left = {}
  <2>1. \A r \in Runs : ~Live(r)
    BY <1>1, <1>2
  <2> QED BY <2>1 DEF ListsLive, Spares
<1>3. CASE left # {}
  <2>1. u.w = [w EXCEPT !.panes = left] /\ u.shut = shut \cup {}
    BY <1>3 DEF Released
  <2> HIDE DEF left, u
  <2>2. u.w.panes = left /\ u.shut = shut
    BY <2>1 DEF Records
  <2> QED BY <1>1, <2>2 DEF ListsLive, u
<1> QED BY <1>2, <1>3

LEMMA UnplaceSpares ==
  ASSUME Fit, NEW w \in Records, NEW rs, ListsLive(w), \A r \in Runs : r \in rs => ~Live(r)
  PROVE  ListsLive(Unplaced(w, rs).w) /\ Spares(Unplaced(w, rs).shut)
<1> DEFINE out == {e \in w.panes : e[2] \in rs}
           own == {folder[r].pane : r \in {x \in rs : Exited(x)}}
           u == Unplaced(w, rs)
<1>1. \A r \in Runs : Live(r) => <<folder[r].pane, r>> \notin out
  OBVIOUS
<1>2. CASE own = {}
  <2>1. u.w = [w EXCEPT !.panes = @ \ out] /\ u.shut = {}
    BY <1>2 DEF Unplaced
  <2> HIDE DEF out, own, u
  <2>2. u.w.panes = w.panes \ out /\ u.shut = {}
    BY <2>1 DEF Records
  <2> QED BY <1>1, <2>2 DEF ListsLive, Spares, u
<1>3. CASE own # {}
  <2>1. u = Released(w, out, own)
    BY <1>3 DEF Unplaced
  <2>2. Spares(own)
    <3> SUFFICES ASSUME NEW r \in Runs, Live(r), NEW x \in rs, Exited(x), Holds(folder[x].pane, r) PROVE FALSE
      BY DEF Spares
    <3>1. r = x
      BY DEF Exited, OwnPane, Holds
    <3> QED BY <3>1 DEF Exited, Live
  <2> HIDE DEF out, own, u
  <2>3. ListsLive(u.w) /\ Spares(u.shut)
    BY <1>1, <2>1, <2>2, ReleaseSpares
  <2> QED BY <2>3 DEF u
<1> QED BY <1>2, <1>3

\* What spawns do to the panes and to the record they hold.
LEMMA BeginShuts ==
  ASSUME Fit, NEW c \in Clients, NEW k \in Keys, SpawnBegin(c, k)
  PROVE  \E w \in Records : \E ps :
           /\ worker' = Killed(ps)
           /\ proc' = proc \/ (proc'[c].w = w /\ ~(Cardinality(w.panes) >= MaxWorkers))
           /\ w.panes \subseteq record.panes
           /\ w.tab = record.tab \/ (w.tab = None /\ w.panes = {})
           /\ ListsLive(record) => ListsLive(w) /\ Spares(ps)
<1> DEFINE lost == {r \in Runs : Open(r) /\ IsLost(r) /\ \E p \in Panes : <<p, r>> \in Alive(record)}
           v == [record EXCEPT !.panes = Alive(record)]
           u == Unplaced(v, lost)
           w == [u.w EXCEPT !.panes = {e \in @ : Open(e[2])}]
<1>0. record \in Records /\ proc \in [Clients -> ProcType]
  BY DEF Fit, LockFits
<1>1. v \in Records /\ v.tab = record.tab /\ v.panes = Alive(record) /\ v.panes \subseteq record.panes
  BY <1>0 DEF Records, Alive
<1>2. ASSUME ListsLive(record) PROVE ListsLive(v)
  <2> SUFFICES ASSUME NEW r \in Runs, Live(r) PROVE <<folder[r].pane, r>> \in Alive(record)
    BY <1>1 DEF ListsLive
  <2>1. <<folder[r].pane, r>> \in record.panes
    BY <1>2 DEF ListsLive
  <2>2. pane[folder[r].pane].holds # None
    BY RowConstants DEF Live, OwnPane, Holds
  <2> QED BY <2>1, <2>2 DEF Alive
<1>3. \A r \in Runs : r \in lost => ~Live(r)
  BY DEF Live, IsLost, PaneGone, Exited
<1>4. /\ worker' = Killed(u.shut)
      /\ \/ proc' = proc
         \/ /\ ~(Cardinality(w.panes) >= MaxWorkers)
            /\ proc' = [proc EXCEPT ![c] = [Idle EXCEPT !.at = "claim", !.key = k, !.w = w]]
  BY DEF SpawnBegin
<1> HIDE DEF v, lost
<1>5. /\ u.w \in Records /\ u.w.panes \subseteq v.panes
      /\ u.w.tab = v.tab \/ (u.w.tab = None /\ u.w.panes = {})
  BY <1>1, UnplacedFits
<1>6. ListsLive(record) => ListsLive(u.w) /\ Spares(u.shut)
  BY <1>1, <1>2, <1>3, UnplaceSpares
<1> HIDE DEF u
<1>7. w \in Records /\ w.tab = u.w.tab /\ w.panes = {e \in u.w.panes : Open(e[2])}
  BY <1>5 DEF Records
<1>8. ListsLive(u.w) => ListsLive(w)
  BY <1>7 DEF ListsLive, Live
<1>9. proc' = proc \/ (proc'[c].w = w /\ ~(Cardinality(w.panes) >= MaxWorkers))
  <2> HIDE DEF w
  <2> QED BY <1>0, <1>4 DEF Idle
<1> HIDE DEF w
<1>10. w.panes \subseteq record.panes /\ (w.tab = record.tab \/ (w.tab = None /\ w.panes = {}))
  BY <1>1, <1>5, <1>7
<1> QED BY <1>4, <1>6, <1>7, <1>8, <1>9, <1>10

LEMMA ClaimShuts ==
  ASSUME Fit, NEW c \in Clients, SpawnClaim(c)
  PROVE  \E w \in Records : \E ps :
           /\ worker' = Killed(ps)
           /\ proc'[c].at = "idle" \/ proc'[c].w = w
           /\ w.panes \subseteq proc[c].w.panes
           /\ w.tab = proc[c].w.tab \/ (w.tab = None /\ w.panes = {})
           /\ ListsLive(proc[c].w) => ListsLive(w) /\ Spares(ps)
<1> DEFINE rivals == Rivals(proc[c].key)
           lost == {x \in rivals : IsLost(x) \/ Stale(x)}
           u == Unplaced(proc[c].w, lost)
           v == u.w
<1>0. proc[c].w \in Records /\ proc \in [Clients -> ProcType]
  BY DEF Fit, LockFits, ProcType
<1>1. \A r \in Runs : r \in lost => ~Live(r)
  BY DEF Live, IsLost, PaneGone, Exited, Stale, OwnPane, Holds
<1>2. PICK n \in Runs :
        /\ worker' = Killed(u.shut)
        /\ \/ proc' = [proc EXCEPT ![c].at = "place", ![c].run = n, ![c].w = v]
           \/ proc' = [proc EXCEPT ![c] = Idle]
  BY DEF SpawnClaim
<1> HIDE DEF lost, rivals
<1>3. /\ u.w \in Records /\ u.w.panes \subseteq proc[c].w.panes
      /\ u.w.tab = proc[c].w.tab \/ (u.w.tab = None /\ u.w.panes = {})
  BY <1>0, UnplacedFits
<1>4. ListsLive(proc[c].w) => ListsLive(u.w) /\ Spares(u.shut)
  BY <1>0, <1>1, UnplaceSpares
<1>5. proc'[c].at = "idle" \/ proc'[c].w = v
  <2> HIDE DEF v, u
  <2>1. CASE proc' = [proc EXCEPT ![c].at = "place", ![c].run = n, ![c].w = v]
    BY <1>0, <2>1 DEF ProcType
  <2>2. CASE proc' = [proc EXCEPT ![c] = Idle]
    BY <1>0, <2>2 DEF Idle
  <2> QED BY <1>2, <2>1, <2>2
<1> QED BY <1>2, <1>3, <1>4, <1>5

\* A step that places a worker is the only one, and finds its run without a pane.
LEMMA OnePlace ==
  ASSUME Fit, NEW c \in Clients, SpawnPlace(c), NEW d \in Clients, SpawnStep(d) \/ StopStep(d)
  PROVE  c = d
<1>1. proc'[c].at = "boot" /\ proc[c].at = "place"
  BY DEF SpawnPlace, Fit, LockFits
<1> QED BY <1>1, OthersKeep

LEMMA PlaceFits ==
  ASSUME RowsInv, NEW c \in Clients, SpawnPlace(c)
  PROVE  /\ proc[c].run \in Runs /\ folder[proc[c].run].pane = None /\ proc[c].at = "place" /\ lock = c
         /\ proc'[c].at = "boot" /\ proc[c].w \in Records
         /\ \E p \in FreePanes :
              /\ GivesOut(p) /\ used' = used \cup {p}
              /\ folder'[proc[c].run].pane = p
              /\ \A s \in Runs : s # proc[c].run => folder'[s] = folder[s]
              /\ LET r == proc[c].run  w == proc[c].w
                     tab == IF w.tab = None \/ Alive(w) = {} THEN r ELSE w.tab
                 IN record' = [tab |-> tab, panes |-> (IF tab = r THEN {} ELSE w.panes) \cup {<<p, r>>}]
<1> DEFINE r == proc[c].run
<1>1. proc[c].at = "place"
  BY DEF SpawnPlace
<1>2. r \in Runs /\ folder[r].pane = None /\ lock = c /\ proc[c].w \in Records
  BY <1>1 DEF RowsInv, HasRun, SpawnersFit, Spawning, Fit, LockFits, ProcType, Locked
<1>3. proc'[c].at = "boot"
  BY DEF SpawnPlace, RowsInv, Fit, LockFits
<1>4. PICK p \in FreePanes :
        /\ GivesOut(p) /\ used' = used \cup {p} /\ folder' = [folder EXCEPT ![r].pane = p]
        /\ LET w == proc[c].w  tab == IF w.tab = None \/ Alive(w) = {} THEN r ELSE w.tab
           IN record' = [tab |-> tab, panes |-> (IF tab = r THEN {} ELSE w.panes) \cup {<<p, r>>}]
  BY DEF SpawnPlace
<1>5. folder'[r].pane = p /\ \A s \in Runs : s # r => folder'[s] = folder[s]
  BY <1>2, <1>4 DEF RowsInv, Fit, Tables
<1> QED BY <1>1, <1>2, <1>3, <1>4, <1>5

\* Who changes the record, and what a client that holds its lock has of it.
LEMMA RecordMoves ==
  ASSUME Fit, RowsNext
  PROVE  record' = record \/ \E c \in Clients : SpawnPlace(c) \/ ReleasePane(c) \/ LoseUnplace(c)
<1>1. ASSUME NEW c \in Clients, SpawnStep(c), ~SpawnPlace(c), ~ReleasePane(c) PROVE record' = record
  BY <1>1 DEF SpawnStep, SpawnBegin, SpawnClaim, SpawnRefused, SpawnBoot, SpawnAbandon
<1>2. ASSUME NEW c \in Clients, StopStep(c), ~LoseUnplace(c) PROVE record' = record
  BY <1>2 DEF StopStep, StopBegin, LookLoses, StopExit, StopClose, EndRow, FinishFolder, ExpireClaims, Die
<1>3. CASE OtherStep
  BY <1>3 DEF OtherStep, HarnessExits, PersonTakesPane
<1> QED BY <1>1, <1>2, <1>3, Steps

LEMMA HolderMoves ==
  ASSUME Fit, HasRun, RowsNext, NEW c \in Clients, proc'[c].at \in Locked
  PROVE  proc'[c] = proc[c] \/ (\E k \in Keys : SpawnBegin(c, k)) \/ SpawnClaim(c)
<1>1. proc'[c] = proc[c] \/ Moves(c)
  BY ProcMoves
<1>2. ~Begun(c) /\ ~Continued(c) /\ proc'[c].at # "idle"
  BY DEF Begun, Continued, Locked
<1> QED BY <1>1, <1>2 DEF Moves, Opens

\* What is left of a record for the run whose end releases its pane.
LEMMA ReleaseKeeps ==
  ASSUME RowsInv, NEW c \in Clients, ReleasePane(c)
  PROVE  \E out, ps :
           /\ record' = Released(record, out, {}).w /\ worker' = Killed(ps)
           /\ ps = Released(record, out, {}).shut
           /\ \A e \in out : e[1] = folder[proc[c].run].pane
           /\ proc[c].run \in Runs /\ IsLost(proc[c].run)
<1>1. proc[c].at \in {"unwind", "release"}
  BY DEF ReleasePane
<1>2. proc[c].run \in Runs
  BY <1>1 DEF RowsInv, HasRun, Fit, LockFits, ProcType
<1>3. IsLost(proc[c].run)
  BY <1>1, <1>2 DEF RowsInv, EndersFit, GoneSteps
<1> DEFINE mine == {e \in record.panes : e[1] = folder[proc[c].run].pane}
           ps == Released(record, mine, {}).shut
<1>4. record' = Released(record, mine, {}).w /\ worker' = Killed(ps)
  BY DEF ReleasePane
<1>5. \A e \in mine : e[1] = folder[proc[c].run].pane
  OBVIOUS
<1> HIDE DEF mine
<1> QED BY <1>2, <1>3, <1>4, <1>5

LEMMA UnplaceKeeps ==
  ASSUME RowsInv, NEW c \in Clients, LoseUnplace(c)
  PROVE  \E rs :
           /\ record' = Unplaced(record, rs).w /\ worker' = Killed(Unplaced(record, rs).shut)
           /\ \A r \in Runs : r \in rs => ~Live(r)
<1>1. proc[c].at = "unplace" /\ record' = Unplaced(record, {proc[c].run}).w
      /\ worker' = Killed(Unplaced(record, {proc[c].run}).shut)
  BY DEF LoseUnplace
<1>2. ASSUME NEW r \in Runs, r \in {proc[c].run} PROVE ~Live(r)
  BY <1>1, <1>2 DEF RowsInv, EndersFit, GoneSteps, Live, IsLost, PaneGone, Exited
<1> QED BY <1>1, <1>2

\* A worker that lives has lived before, or is being placed.
LEMMA LiveMoves ==
  ASSUME RowsInv, RowsNext, NEW r \in Runs, Live(r)'
  PROVE  \/ Live(r) /\ folder'[r].pane = folder[r].pane
         \/ \E c \in Clients : SpawnPlace(c) /\ proc[c].run = r
<1> SUFFICES ASSUME ~\E c \in Clients : SpawnPlace(c) /\ proc[c].run = r
             PROVE  Live(r) /\ folder'[r].pane = folder[r].pane
  OBVIOUS
<1>0. Fit /\ HasRun /\ SpawnersFit /\ Unborn /\ Fit' /\ None \notin Runs
  BY FitKept, RowConstants DEF RowsInv
<1>1. folder'[r].pane = folder[r].pane
  BY <1>0, FolderMoves
<1>2. OwnPane(r)' /\ Open(r)' /\ worker'[r] # "exited"
  BY DEF Live
<1>3. OwnPane(r)
  <2>1. folder[r].pane # None /\ folder[r].pane \in Panes /\ pane'[folder[r].pane].holds = r
    BY <1>0, <1>1, <1>2 DEF OwnPane, Holds, Fit, Tables
  <2>2. pane[folder[r].pane].holds = r
    BY <1>0, <2>1, PaneMoves
  <2> QED BY <2>1, <2>2 DEF OwnPane, Holds
<1>4. Open(r)
  <2>1. ~Closes(r)
    <3>1. ASSUME NEW c \in Clients, EndRow(c) PROVE proc[c].saw \in Ended
      BY <1>0, <3>1 DEF EndRow, HasRun, StopSteps
    <3> QED BY <1>2, <3>1 DEF Closes, Open, Ended
  <2>2. \A c \in Clients : ~Opens(c, r)
    BY <1>0, <1>3 DEF Opens, Unborn, OwnPane, Holds
  <2> QED BY <1>0, <1>2, <2>1, <2>2, RowMoves DEF Open
<1>5. worker[r] # "exited"
  BY <1>0, <1>2, WorkerMoves DEF SpawnersFit, SpawnBoot, Spawning
<1> QED BY <1>1, <1>3, <1>4, <1>5 DEF Live

\* The record and the copies of it that clients hold.
ListsInv ==
  faults["reuse"] = 0 =>
    /\ ListsLive(record)
    /\ \A c \in Clients : proc[c].at \in Locked => ListsLive(proc[c].w)
    /\ \A r \in Runs : folder[r].pane \in used \cup {None}
    /\ \A r, s \in Runs : folder[r].pane = folder[s].pane /\ folder[r].pane # None => r = s
Listed(w) ==
  /\ w.tab = None => w.panes = {}
  /\ w.tab # None => folder[w.tab].pane # None
  /\ \A e \in w.panes : folder[e[2]].pane = e[1]
  /\ IsFiniteSet(w.panes)
ListedInv ==
  /\ Listed(record) /\ Cardinality(record.panes) <= MaxWorkers
  /\ \A c \in Clients : proc[c].at \in Locked =>
       Listed(proc[c].w) /\ Cardinality(proc[c].w.panes) < MaxWorkers

\* What a smaller record keeps.
LEMMA SmallerFits ==
  ASSUME Fit, HasRun, SpawnersFit, RowsNext, NEW w \in Records, NEW v \in Records, Listed(w),
         v.panes \subseteq w.panes, v.tab = w.tab \/ (v.tab = None /\ v.panes = {})
  PROVE  /\ v.tab = None => v.panes = {}
         /\ v.tab # None => folder'[v.tab].pane # None
         /\ \A e \in v.panes : folder'[e[2]].pane = e[1]
         /\ IsFiniteSet(v.panes) /\ Cardinality(v.panes) \in Nat
         /\ Cardinality(w.panes) \in Nat /\ Cardinality(v.panes) <= Cardinality(w.panes)
<1>1. v.tab = None => v.panes = {}
  BY DEF Listed
<1>2. ASSUME v.tab # None PROVE folder'[v.tab].pane # None
  <2>1. folder[v.tab].pane # None /\ v.tab \in Runs
    BY <1>2 DEF Listed, Records
  <2> QED BY <2>1, PinStays
<1>3. ASSUME NEW e \in v.panes PROVE folder'[e[2]].pane = e[1]
  <2>1. folder[e[2]].pane = e[1] /\ e[2] \in Runs /\ e[1] # None
    BY <1>3, RowConstants DEF Listed, Records
  <2> QED BY <2>1, PinStays
<1>4. IsFiniteSet(v.panes) /\ Cardinality(v.panes) <= Cardinality(w.panes)
  BY FS_Subset DEF Listed
<1>5. Cardinality(v.panes) \in Nat /\ Cardinality(w.panes) \in Nat
  BY <1>4, FS_CardinalityType DEF Listed
<1> QED BY <1>1, <1>2, <1>3, <1>4, <1>5

LEMMA ListedKept == ASSUME RowsInv, ListedInv, RowsNext PROVE ListedInv'
<1>0. Fit /\ HasRun /\ SpawnersFit /\ Fit' /\ MaxWorkers \in Nat /\ record \in Records /\ record' \in Records
  BY FitKept, RowConstants DEF RowsInv, Fit
<1>a. ASSUME NEW w \in Records, NEW v \in Records, Listed(w), v.panes \subseteq w.panes,
             v.tab = w.tab \/ (v.tab = None /\ v.panes = {})
      PROVE  /\ v.tab = None => v.panes = {}
             /\ v.tab # None => folder'[v.tab].pane # None
             /\ \A e \in v.panes : folder'[e[2]].pane = e[1]
             /\ IsFiniteSet(v.panes) /\ Cardinality(v.panes) \in Nat
             /\ Cardinality(w.panes) \in Nat /\ Cardinality(v.panes) <= Cardinality(w.panes)
  BY <1>0, <1>a, SmallerFits
<1>1. Listed(record)' /\ Cardinality(record'.panes) <= MaxWorkers
  <2>1. ASSUME record'.panes \subseteq record.panes,
               record'.tab = record.tab \/ (record'.tab = None /\ record'.panes = {})
        PROVE  Listed(record)' /\ Cardinality(record'.panes) <= MaxWorkers
    <3>1. Listed(record) /\ Cardinality(record.panes) <= MaxWorkers
      BY DEF ListedInv
    <3>2. /\ record'.tab = None => record'.panes = {}
          /\ record'.tab # None => folder'[record'.tab].pane # None
          /\ \A e \in record'.panes : folder'[e[2]].pane = e[1]
          /\ IsFiniteSet(record'.panes) /\ Cardinality(record'.panes) \in Nat
          /\ Cardinality(record.panes) \in Nat /\ Cardinality(record'.panes) <= Cardinality(record.panes)
      BY <1>0, <1>a, <2>1, <3>1
    <3> QED BY <1>0, <3>1, <3>2 DEF Listed
  <2>2. CASE record' = record
    BY <2>1, <2>2
  <2>3. ASSUME NEW c \in Clients, ReleasePane(c)
        PROVE  Listed(record)' /\ Cardinality(record'.panes) <= MaxWorkers
    <3>1. PICK out : record' = Released(record, out, {}).w
      BY <2>3, ReleaseKeeps
    <3> QED BY <1>0, <2>1, <3>1, ReleasedFits
  <2>4. ASSUME NEW c \in Clients, LoseUnplace(c)
        PROVE  Listed(record)' /\ Cardinality(record'.panes) <= MaxWorkers
    <3>1. PICK rs : record' = Unplaced(record, rs).w
      BY <2>4, UnplaceKeeps
    <3> QED BY <1>0, <2>1, <3>1, UnplacedFits
  <2>5. ASSUME NEW c \in Clients, SpawnPlace(c)
        PROVE  Listed(record)' /\ Cardinality(record'.panes) <= MaxWorkers
    <3> DEFINE r == proc[c].run  w == proc[c].w
               tab == IF w.tab = None \/ Alive(w) = {} THEN r ELSE w.tab
               old == IF tab = r THEN {} ELSE w.panes
    <3>1. PICK p \in FreePanes :
            /\ folder'[r].pane = p /\ \A s \in Runs : s # r => folder'[s] = folder[s]
            /\ record' = [tab |-> tab, panes |-> old \cup {<<p, r>>}]
      BY <2>5, PlaceFits
    <3>2. /\ r \in Runs /\ folder[r].pane = None /\ w \in Records /\ proc[c].at \in Locked
          /\ p # None /\ r # None
      BY <2>5, PlaceFits, RowConstants DEF Locked, FreePanes
    <3>3. Listed(w) /\ Cardinality(w.panes) < MaxWorkers /\ IsFiniteSet(w.panes)
      BY <3>2 DEF ListedInv, Listed
    <3>4. old \subseteq w.panes /\ tab # None /\ (tab # r => tab = w.tab /\ tab \in Runs)
      BY <3>2 DEF Records
    <3>5. folder'[tab].pane # None
      BY <3>1, <3>2, <3>3, <3>4 DEF Listed
    <3> HIDE DEF tab, old, w
    <3>6. ASSUME NEW e \in old PROVE folder'[e[2]].pane = e[1]
      <4>1. folder[e[2]].pane = e[1] /\ e[2] \in Runs /\ e[1] # None
        BY <3>2, <3>3, <3>4, RowConstants DEF Listed, Records
      <4> QED BY <3>1, <3>2, <4>1
    <3>7. IsFiniteSet(old) /\ Cardinality(old) <= Cardinality(w.panes)
      BY <3>3, <3>4, FS_Subset
    <3>8. Cardinality(old) \in Nat /\ Cardinality(w.panes) \in Nat
      BY <3>3, <3>7, FS_CardinalityType
    <3>9. IsFiniteSet(old \cup {<<p, r>>}) /\ Cardinality(old \cup {<<p, r>>}) <= Cardinality(old) + 1
      <4> DEFINE x == <<p, r>>
      <4> HIDE DEF x
      <4>1. /\ IsFiniteSet(old \cup {x})
            /\ Cardinality(old \cup {x}) = IF x \in old THEN Cardinality(old) ELSE Cardinality(old) + 1
        BY <3>7, FS_AddElement
      <4> QED BY <3>8, <4>1 DEF x
    <3>10. record'.tab = tab /\ record'.panes = old \cup {<<p, r>>}
      BY <3>1
    <3>11. \A e \in record'.panes : folder'[e[2]].pane = e[1]
      BY <3>1, <3>6, <3>10
    <3>12. Listed(record)'
      BY <3>4, <3>5, <3>9, <3>10, <3>11 DEF Listed
    <3>13. Cardinality(old \cup {<<p, r>>}) \in Nat
      BY <3>9, FS_CardinalityType
    <3>14. Cardinality(record'.panes) <= MaxWorkers
      <4> DEFINE n == Cardinality(old \cup {<<p, r>>})  k == Cardinality(old)  m == Cardinality(w.panes)
      <4>1. n <= k + 1 /\ k <= m /\ m < MaxWorkers /\ n \in Nat /\ k \in Nat /\ m \in Nat
        BY <3>3, <3>7, <3>8, <3>9, <3>13
      <4>2. Cardinality(record'.panes) = n
        BY <3>10
      <4> HIDE DEF n, k, m
      <4> QED BY <1>0, <4>1, <4>2
    <3> QED BY <3>12, <3>14
  <2> QED BY <1>0, <2>2, <2>3, <2>4, <2>5, RecordMoves
<1>2. ASSUME NEW c \in Clients, proc'[c].at \in Locked
      PROVE  Listed(proc[c].w)' /\ Cardinality(proc'[c].w.panes) < MaxWorkers
  <2>0. proc'[c].w \in Records /\ proc[c].w \in Records
    BY <1>0 DEF Fit, LockFits, ProcType
  <2> DEFINE v == proc'[c].w
  <2>a. ASSUME NEW w \in Records, Listed(w), v.panes \subseteq w.panes,
               v.tab = w.tab \/ (v.tab = None /\ v.panes = {})
        PROVE  /\ Listed(proc[c].w)' /\ Cardinality(v.panes) \in Nat /\ Cardinality(w.panes) \in Nat
               /\ Cardinality(v.panes) <= Cardinality(w.panes)
    <3>1. /\ v.tab = None => v.panes = {}
          /\ v.tab # None => folder'[v.tab].pane # None
          /\ \A e \in v.panes : folder'[e[2]].pane = e[1]
          /\ IsFiniteSet(v.panes) /\ Cardinality(v.panes) \in Nat
          /\ Cardinality(w.panes) \in Nat /\ Cardinality(v.panes) <= Cardinality(w.panes)
      BY <1>a, <2>0, <2>a
    <3> QED BY <3>1 DEF Listed
  <2>1. CASE proc'[c] = proc[c]
    <3>1. Listed(proc[c].w) /\ Cardinality(proc[c].w.panes) < MaxWorkers /\ v = proc[c].w
      BY <1>2, <2>1 DEF ListedInv
    <3> QED BY <2>0, <2>a, <3>1
  <2>2. ASSUME NEW k \in Keys, SpawnBegin(c, k), proc'[c] # proc[c]
        PROVE  Listed(proc[c].w)' /\ Cardinality(v.panes) < MaxWorkers
    <3>1. /\ ~(Cardinality(v.panes) >= MaxWorkers) /\ v.panes \subseteq record.panes
          /\ v.tab = record.tab \/ (v.tab = None /\ v.panes = {})
      BY <1>0, <2>2, BeginShuts
    <3>2. Listed(record)
      BY DEF ListedInv
    <3>3. Listed(proc[c].w)' /\ Cardinality(v.panes) \in Nat
      BY <1>0, <2>a, <3>1, <3>2
    <3> QED BY <1>0, <3>1, <3>3
  <2>3. ASSUME SpawnClaim(c)
        PROVE  Listed(proc[c].w)' /\ Cardinality(v.panes) < MaxWorkers
    <3>1. /\ v.panes \subseteq proc[c].w.panes
          /\ v.tab = proc[c].w.tab \/ (v.tab = None /\ v.panes = {})
      BY <1>0, <1>2, <2>3, ClaimShuts DEF Locked
    <3>2. Listed(proc[c].w) /\ Cardinality(proc[c].w.panes) < MaxWorkers
      BY <2>3 DEF ListedInv, SpawnClaim, Locked
    <3>3. /\ Listed(proc[c].w)' /\ Cardinality(v.panes) \in Nat /\ Cardinality(proc[c].w.panes) \in Nat
          /\ Cardinality(v.panes) <= Cardinality(proc[c].w.panes)
      BY <2>0, <2>a, <3>1, <3>2
    <3> QED BY <1>0, <3>2, <3>3
  <2> QED BY <1>0, <1>2, <2>1, <2>2, <2>3, HolderMoves
<1> QED BY <1>1, <1>2 DEF ListedInv

LEMMA ListsKept ==
  ASSUME RowsInv, ListsInv, ListedInv, RowsNext PROVE ListsInv'
<1> SUFFICES ASSUME faults'["reuse"] = 0
             PROVE  /\ ListsLive(record)'
                    /\ \A c \in Clients : proc'[c].at \in Locked => ListsLive(proc[c].w)'
                    /\ \A r \in Runs : folder'[r].pane \in used' \cup {None}
                    /\ \A r, s \in Runs : folder'[r].pane = folder'[s].pane /\ folder'[r].pane # None => r = s
  BY DEF ListsInv
<1>0. Fit /\ HasRun /\ SpawnersFit /\ Fit' /\ record \in Records /\ ~Fault("reuse")
  BY FitKept, FaultFits DEF RowsInv, Fit
<1>a. /\ ListsLive(record)
      /\ \A c \in Clients : proc[c].at \in Locked => ListsLive(proc[c].w)
      /\ \A r \in Runs : folder[r].pane \in used \cup {None}
      /\ \A r, s \in Runs : folder[r].pane = folder[s].pane /\ folder[r].pane # None => r = s
  <2>1. faults["reuse"] = 0
    BY <1>0, FaultMoves DEF AllFaults
  <2> QED BY <2>1 DEF ListsInv
\* A step of a client that places nothing, and the placing of a worker.
<1>b. ASSUME NEW c \in Clients, SpawnStep(c) \/ StopStep(c), ~SpawnPlace(c), NEW r \in Runs, Live(r)'
      PROVE  Live(r) /\ folder'[r].pane = folder[r].pane
  BY <1>0, <1>b, LiveMoves, OnePlace
<1>c. ASSUME NEW c \in Clients, SpawnPlace(c), NEW r \in Runs, Live(r)', r # proc[c].run
      PROVE  Live(r) /\ folder'[r].pane = folder[r].pane
  <2>1. ASSUME NEW d \in Clients, SpawnPlace(d) PROVE c = d
    BY <1>0, <1>c, <2>1, OnePlace DEF SpawnStep
  <2> QED BY <1>c, <2>1, LiveMoves
<1>1. ListsLive(record)'
  <2> SUFFICES ASSUME NEW r \in Runs, Live(r)' PROVE <<folder'[r].pane, r>> \in record'.panes
    BY DEF ListsLive
  <2>1. ASSUME NEW c \in Clients, SpawnPlace(c) PROVE <<folder'[r].pane, r>> \in record'.panes
    <3> DEFINE x == proc[c].run  w == proc[c].w
               tab == IF w.tab = None \/ Alive(w) = {} THEN x ELSE w.tab
               old == IF tab = x THEN {} ELSE w.panes
    <3>1. PICK p \in FreePanes : folder'[x].pane = p /\ record' = [tab |-> tab, panes |-> old \cup {<<p, x>>}]
      BY <2>1, PlaceFits
    <3>2. proc[c].at \in Locked /\ folder[x].pane = None /\ x \in Runs
      BY <2>1, PlaceFits DEF Locked
    <3>3. CASE r = x
      BY <3>1, <3>3
    <3>4. CASE r # x
      <4>1. Live(r) /\ folder'[r].pane = folder[r].pane
        BY <1>c, <2>1, <3>4
      <4>2. <<folder[r].pane, r>> \in w.panes
        BY <1>a, <3>2, <4>1 DEF ListsLive
      <4>3. <<folder[r].pane, r>> \in Alive(w)
        BY <4>1, <4>2, RowConstants DEF Alive, Live, OwnPane, Holds
      <4>4. Listed(w)
        BY <3>2 DEF ListedInv
      <4>5. w.tab # None
        BY <4>2, <4>4 DEF Listed
      <4>6. tab = w.tab
        BY <4>3, <4>5
      <4>7. tab # x
        BY <3>2, <4>4, <4>5, <4>6 DEF Listed
      <4>8. old = w.panes
        BY <4>7
      <4> HIDE DEF old, tab
      <4> QED BY <3>1, <4>1, <4>2, <4>8
    <3> QED BY <3>3, <3>4
  <2>2. ASSUME NEW c \in Clients, ReleasePane(c) PROVE <<folder'[r].pane, r>> \in record'.panes
    <3>1. ~SpawnPlace(c) /\ SpawnStep(c)
      BY <2>2 DEF SpawnPlace, ReleasePane, SpawnStep
    <3>2. Live(r) /\ folder'[r].pane = folder[r].pane
      BY <1>b, <3>1
    <3>3. PICK out : /\ record' = Released(record, out, {}).w
                     /\ \A e \in out : e[1] = folder[proc[c].run].pane
                     /\ proc[c].run \in Runs /\ IsLost(proc[c].run)
      BY <2>2, ReleaseKeeps
    <3>4. ASSUME NEW s \in Runs, Live(s) PROVE <<folder[s].pane, s>> \notin out
      <4> SUFFICES ASSUME <<folder[s].pane, s>> \in out PROVE FALSE
        OBVIOUS
      <4>1. folder[s].pane = folder[proc[c].run].pane
        BY <3>3
      <4>2. folder[s].pane # None
        BY <3>4 DEF Live, OwnPane, Holds
      <4>3. s = proc[c].run
        BY <1>a, <3>3, <4>1, <4>2
      <4> QED BY <3>3, <3>4, <4>3 DEF Live, IsLost, PaneGone, Exited
    <3>5. Spares({})
      BY DEF Spares
    <3>6. ListsLive(Released(record, out, {}).w)
      BY <1>0, <1>a, <3>4, <3>5, ReleaseSpares
    <3> QED BY <3>2, <3>3, <3>6 DEF ListsLive
  <2>3. ASSUME NEW c \in Clients, LoseUnplace(c) PROVE <<folder'[r].pane, r>> \in record'.panes
    <3>1. ~SpawnPlace(c) /\ StopStep(c)
      BY <2>3 DEF SpawnPlace, LoseUnplace, StopStep
    <3>2. Live(r) /\ folder'[r].pane = folder[r].pane
      BY <1>b, <3>1
    <3>3. PICK rs : record' = Unplaced(record, rs).w /\ \A s \in Runs : s \in rs => ~Live(s)
      BY <2>3, UnplaceKeeps
    <3>4. ListsLive(Unplaced(record, rs).w)
      BY <1>0, <1>a, <3>3, UnplaceSpares
    <3> QED BY <3>2, <3>3, <3>4 DEF ListsLive
  <2>4. CASE record' = record
    <3>1. CASE \E c \in Clients : SpawnPlace(c)
      BY <2>1, <3>1
    <3>2. CASE ~\E c \in Clients : SpawnPlace(c)
      <4>1. Live(r) /\ folder'[r].pane = folder[r].pane
        BY <3>2, LiveMoves
      <4> QED BY <1>a, <2>4, <4>1 DEF ListsLive
    <3> QED BY <3>1, <3>2
  <2> QED BY <1>0, <2>1, <2>2, <2>3, <2>4, RecordMoves
<1>2. ASSUME NEW c \in Clients, proc'[c].at \in Locked PROVE ListsLive(proc[c].w)'
  <2> SUFFICES ASSUME NEW r \in Runs, Live(r)' PROVE <<folder'[r].pane, r>> \in proc'[c].w.panes
    BY DEF ListsLive
  <2>1. CASE proc'[c] = proc[c]
    <3>1. proc[c].at \in Locked /\ lock = c
      BY <1>0, <1>2, <2>1 DEF Fit, LockFits
    <3>2. ASSUME NEW d \in Clients, SpawnPlace(d) PROVE FALSE
      <4>1. d = c /\ proc'[d].at = "boot"
        BY <3>1, <3>2, PlaceFits
      <4> QED BY <1>2, <4>1 DEF Locked
    <3>3. Live(r) /\ folder'[r].pane = folder[r].pane
      BY <3>2, LiveMoves
    <3> QED BY <1>a, <2>1, <3>1, <3>3 DEF ListsLive
  <2>2. ASSUME NEW k \in Keys, SpawnBegin(c, k), proc'[c] # proc[c]
        PROVE  <<folder'[r].pane, r>> \in proc'[c].w.panes
    <3>1. ~SpawnPlace(c) /\ SpawnStep(c)
      BY <2>2 DEF SpawnPlace, SpawnBegin, SpawnStep
    <3>2. Live(r) /\ folder'[r].pane = folder[r].pane
      BY <1>b, <3>1
    <3>3. ListsLive(proc'[c].w)
      BY <1>0, <1>a, <2>2, BeginShuts
    <3> QED BY <3>2, <3>3 DEF ListsLive
  <2>3. ASSUME SpawnClaim(c) PROVE <<folder'[r].pane, r>> \in proc'[c].w.panes
    <3>1. ~SpawnPlace(c) /\ SpawnStep(c) /\ proc[c].at \in Locked
      BY <2>3 DEF SpawnPlace, SpawnClaim, SpawnStep, Locked
    <3>2. Live(r) /\ folder'[r].pane = folder[r].pane
      BY <1>b, <3>1
    <3>3. ListsLive(proc'[c].w)
      BY <1>0, <1>2, <1>a, <2>3, <3>1, ClaimShuts DEF Locked
    <3> QED BY <3>2, <3>3 DEF ListsLive
  <2> QED BY <1>0, <1>2, <2>1, <2>2, <2>3, HolderMoves
<1>3. used \subseteq used'
  <2>1. ASSUME NEW c \in Clients, SpawnStep(c), ~SpawnPlace(c) PROVE used' = used
    BY <2>1 DEF SpawnStep, SpawnBegin, SpawnClaim, SpawnRefused, SpawnBoot, SpawnAbandon, ReleasePane, herdr
  <2>2. ASSUME NEW c \in Clients, StopStep(c) PROVE used' = used
    BY <2>2 DEF StopStep, StopBegin, LookLoses, StopExit, StopClose, LoseUnplace, EndRow, FinishFolder,
       ExpireClaims, Die, herdr
  <2>3. CASE OtherStep
    BY <2>3 DEF OtherStep, HarnessExits, PersonTakesPane
  <2>4. ASSUME NEW c \in Clients, SpawnPlace(c) PROVE used \subseteq used'
    BY <2>4 DEF SpawnPlace
  <2> QED BY <2>1, <2>2, <2>3, <2>4, Steps
\* A pane that is given out was not given out before.
<1>4. ASSUME NEW r \in Runs, folder'[r].pane # folder[r].pane
      PROVE  /\ folder'[r].pane \in used' /\ folder'[r].pane \notin used /\ folder'[r].pane # None
             /\ \A s \in Runs : s # r => folder'[s] = folder[s]
  <2>1. PICK c \in Clients : SpawnPlace(c) /\ proc[c].run = r
    BY <1>0, <1>4, FolderMoves
  <2>2. PICK p \in FreePanes : /\ GivesOut(p) /\ used' = used \cup {p} /\ folder'[r].pane = p
                               /\ \A s \in Runs : s # r => folder'[s] = folder[s]
    BY <2>1, PlaceFits
  <2>3. p # None /\ p \notin used
    BY <1>0, <2>2, RowConstants DEF FreePanes, GivesOut
  <2> QED BY <2>2, <2>3
<1>5. \A r \in Runs : folder'[r].pane \in used' \cup {None}
  BY <1>a, <1>3, <1>4
<1>6. ASSUME NEW r \in Runs, NEW s \in Runs, folder'[r].pane = folder'[s].pane, folder'[r].pane # None
      PROVE  r = s
  <2>1. CASE folder'[r].pane = folder[r].pane /\ folder'[s].pane = folder[s].pane
    BY <1>a, <1>6, <2>1
  <2>2. CASE folder'[r].pane # folder[r].pane
    BY <1>4, <1>6, <1>a, <2>2
  <2>3. CASE folder'[s].pane # folder[s].pane
    BY <1>4, <1>6, <1>a, <2>3
  <2> QED BY <2>1, <2>2, <2>3
<1> QED BY <1>1, <1>2, <1>5, <1>6

LEMMA ListsInit == RowsInit => ListsInv /\ ListedInv
<1> SUFFICES ASSUME RowsInit PROVE ListsInv /\ ListedInv
  OBVIOUS
<1>1. /\ record.tab = None /\ record.panes = {}
      /\ \A c \in Clients : proc[c].at \notin Locked
      /\ \A r \in Runs : folder[r].pane = None
  BY DEF RowsInit, NoTab, Idle, Locked
<1>2. \A r \in Runs : ~Live(r)
  BY <1>1 DEF Live, OwnPane, Holds
<1>3. ListsInv
  BY <1>1, <1>2 DEF ListsInv, ListsLive
<1>4. IsFiniteSet(record.panes) /\ Cardinality(record.panes) <= MaxWorkers
  BY <1>1, FS_EmptySet, RowConstants
<1>5. ListedInv
  BY <1>1, <1>4 DEF ListedInv, Listed
<1> QED BY <1>3, <1>5

LEMMA ListsStutter == ASSUME ListsInv, ListedInv, UNCHANGED rows PROVE ListsInv' /\ ListedInv'
<1>1. UNCHANGED <<row, folder, claim, worker, pane, used, record, lock, proc, faults>>
  BY DEF rows, disk, herdr
<1>2. \A r \in Runs : Live(r)' <=> Live(r)
  BY <1>1 DEF Live, Open, OwnPane, Holds
<1>3. ListsInv'
  BY <1>1, <1>2 DEF ListsInv, ListsLive
<1>4. ListedInv'
  BY <1>1 DEF ListedInv, Listed
<1> QED BY <1>3, <1>4

LEMMA ListsHold == RowsSpec => [](RowsInv /\ ListsInv /\ ListedInv)
<1>1. RowsInv /\ ListsInv /\ ListedInv /\ [RowsNext]_rows => RowsInv' /\ ListsInv' /\ ListedInv'
  BY RowsInvKept, ListsKept, ListedKept, RowsInvStutters, ListsStutter
<1> QED BY <1>1, RowsInvInit, ListsInit, PTL DEF RowsSpec

\* Every working run has an entry of its own in the record.
LEMMA CapIsHeld == ASSUME RowsInv, ListsInv, ListedInv PROVE CapHeld
<1> SUFFICES ASSUME faults["reuse"] = 0 PROVE Cardinality(Working) <= MaxWorkers
  BY DEF CapHeld
<1>1. ASSUME NEW r \in Working PROVE Live(r) /\ r \in Runs
  BY <1>1, WorkersAreOne DEF OneWorker, Working, Live
<1>2. \A r \in Working : <<folder[r].pane, r>> \in record.panes
  BY <1>1 DEF ListsInv, ListsLive
<1> DEFINE f == [r \in Working |-> <<folder[r].pane, r>>]
<1>3. f \in Injection(Working, record.panes)
  <2>1. f \in [Working -> record.panes]
    BY <1>2
  <2>2. ASSUME NEW r \in Working, NEW s \in Working, f[r] = f[s] PROVE r = s
    BY <2>2
  <2> QED BY <2>1, <2>2 DEF Injection, IsInjective
<1>4. IsFiniteSet(record.panes) /\ Cardinality(record.panes) <= MaxWorkers
  BY DEF ListedInv, Listed
<1> HIDE DEF f
<1>5. IsFiniteSet(Working) /\ Cardinality(Working) <= Cardinality(record.panes)
  BY <1>3, <1>4, FS_Injection
<1>6. Cardinality(Working) \in Nat /\ Cardinality(record.panes) \in Nat /\ MaxWorkers \in Nat
  BY <1>4, <1>5, FS_CardinalityType, RowConstants
<1> QED BY <1>4, <1>5, <1>6

\* The rows, folders, claims and panes of workers stay sound, whatever clients die,
\* harnesses exit and persons close.
THEOREM RowsStaySound == RowsSpec => []RowsSound
<1>1. RowsInv /\ ListsInv /\ ListedInv => RowsSound
  <2> SUFFICES ASSUME RowsInv, ListsInv, ListedInv PROVE RowsSound
    OBVIOUS
  <2>1. RowsTyped /\ OneEnd
    BY FitTyped DEF RowsInv
  <2> QED BY <2>1, WorkersAreOne, CapIsHeld DEF RowsSound
<1> QED BY <1>1, ListsHold, PTL

\* A release spares every worker but its own run's, as long as herdr gives no pane
\* id out twice.
THEOREM ReleasesSpare == RowsSpec => NoneKilled
<1>1. ASSUME RowsInv, ListsInv, RowsNext, NEW r \in Working, worker'[r] # "up",
             faults["reuse"] = 0, faults' = faults
      PROVE  \E c \in Clients : proc[c].run = r /\ proc[c].at \in {"exit", "close"}
  <2>0. /\ Fit /\ HasRun /\ SpawnersFit /\ r \in Runs /\ worker[r] = "up" /\ OwnPane(r) /\ Live(r)
        /\ ListsLive(record) /\ \A c \in Clients : proc[c].at \in Locked => ListsLive(proc[c].w)
        /\ record \in Records /\ worker \in [Runs -> {"none", "up", "exited"}]
    BY <1>1, WorkersAreOne DEF RowsInv, ListsInv, Working, Live, OneWorker, Fit, Tables
  <2>a. ASSUME NEW ps, worker' = Killed(ps), Spares(ps) PROVE FALSE
    BY <1>1, <2>0, <2>a DEF Killed, Spares
  <2>1. ASSUME NEW c \in Clients, NEW k \in Keys, SpawnBegin(c, k) PROVE FALSE
    BY <2>0, <2>a, <2>1, BeginShuts
  <2>2. ASSUME NEW c \in Clients, SpawnClaim(c) PROVE FALSE
    BY <2>0, <2>a, <2>2, ClaimShuts DEF SpawnClaim, Locked
  <2>3. ASSUME NEW c \in Clients, SpawnAbandon(c) PROVE FALSE
    <3> DEFINE x == proc[c].run  own == IF OwnPane(x) THEN {folder[x].pane} ELSE {}
    <3>1. worker' = Killed(own) /\ worker[x] = "none"
      BY <2>0, <2>3 DEF SpawnAbandon, SpawnersFit, Spawning
    <3>2. \A p \in own : ~Holds(p, r)
      BY <2>0, <3>1 DEF OwnPane, Holds
    <3> HIDE DEF own
    <3> QED BY <1>1, <2>0, <3>1, <3>2 DEF Killed
  <2>4. ASSUME NEW c \in Clients, ReleasePane(c) PROVE FALSE
    <3>1. PICK out, ps : /\ worker' = Killed(ps) /\ ps = Released(record, out, {}).shut
                         /\ \A e \in out : e[1] = folder[proc[c].run].pane
                         /\ proc[c].run \in Runs /\ IsLost(proc[c].run)
      BY <1>1, <2>4, ReleaseKeeps
    <3>2. ASSUME NEW s \in Runs, Live(s) PROVE <<folder[s].pane, s>> \notin out
      <4> SUFFICES ASSUME <<folder[s].pane, s>> \in out PROVE FALSE
        OBVIOUS
      <4>1. folder[s].pane = folder[proc[c].run].pane
        BY <3>1
      <4>2. folder[s].pane # None
        BY <3>2 DEF Live, OwnPane, Holds
      <4>3. s = proc[c].run
        BY <1>1, <3>1, <4>1, <4>2 DEF ListsInv
      <4> QED BY <3>1, <3>2, <4>3 DEF Live, IsLost, PaneGone, Exited
    <3>3. Spares({})
      BY DEF Spares
    <3>4. Spares(ps)
      BY <2>0, <3>1, <3>2, <3>3, ReleaseSpares
    <3> QED BY <2>a, <3>1, <3>4
  <2>5. ASSUME NEW c \in Clients, LoseUnplace(c) PROVE FALSE
    BY <1>1, <2>0, <2>a, <2>5, UnplaceKeeps, UnplaceSpares
  <2>6. ASSUME NEW c \in Clients, StopExit(c) PROVE proc[c].run = r /\ proc[c].at = "exit"
    BY <1>1, <2>0, <2>6 DEF StopExit
  <2>7. ASSUME NEW c \in Clients, StopClose(c) PROVE proc[c].run = r /\ proc[c].at = "close"
    <3> DEFINE p == folder[proc[c].run].pane
    <3>1. proc[c].at = "close" /\ (worker' = worker \/ (worker' = Killed({p}) /\ Holds(p, proc[c].run)))
      BY <2>7 DEF StopClose, OwnPane
    <3> HIDE DEF p
    <3> QED BY <1>1, <2>0, <3>1 DEF Killed, Holds
  <2>8. ASSUME NEW c \in Clients, SpawnBoot(c) PROVE FALSE
    BY <1>1, <2>0, <2>8 DEF SpawnBoot
  <2>9. ASSUME NEW c \in Clients, SpawnPlace(c) \/ SpawnRefused(c) PROVE FALSE
    BY <1>1, <2>0, <2>9 DEF SpawnPlace, SpawnRefused, herdr
  <2>10. ASSUME NEW c \in Clients, (\E s \in Runs : StopBegin(c, s) \/ LookLoses(c, s))
                                   \/ EndRow(c) \/ FinishFolder(c) \/ ExpireClaims(c) \/ Die(c)
         PROVE  FALSE
    BY <1>1, <2>0, <2>10 DEF StopBegin, LookLoses, EndRow, FinishFolder, ExpireClaims, Die, herdr
  <2>11. ~OtherStep
    <3>1. ASSUME NEW kind PROVE ~Fault(kind)
      BY <1>1, <2>0, FaultFits
    <3> QED BY <3>1 DEF OtherStep, HarnessExits, PersonTakesPane
  <2> QED BY <1>1, <2>1, <2>2, <2>3, <2>4, <2>5, <2>6, <2>7, <2>8, <2>9, <2>10, <2>11, Steps
       DEF SpawnStep, StopStep
<1>2. faults["reuse"] = 0 \/ faults["reuse"] > 0 \/ ~Fit
  BY DEF Fit, Tables, AllFaults
<1>3. RowsInv /\ ListsInv /\ [RowsNext]_rows =>
        [\A r \in Working : worker'[r] # "up" =>
           \/ faults' # faults \/ faults["reuse"] > 0
           \/ \E c \in Clients : proc[c].run = r /\ proc[c].at \in {"exit", "close"}]_rows
  BY <1>1, <1>2 DEF RowsInv
<1> QED BY <1>3, ListsHold, PTL DEF RowsSpec, NoneKilled

=============================================================================

---------------------------- MODULE ArtifactDebt ----------------------------
(***************************************************************************)
(* What the deferred-commit outbox promises, without files, queues or      *)
(* locks: every transition of an artifact opens a debt to git, a commit    *)
(* publishes the content that is on disk, and a debt is written off only   *)
(* when the artifact is clean or when somebody has been told.              *)
(***************************************************************************)
EXTENDS Naturals

CONSTANT Paths

VARIABLES
  artifact,  \* the transition whose content is on disk
  head,      \* the transition whose content git HEAD holds
  owed,      \* paths whose commit somebody still has on a list
  excused    \* paths dropped from every list by a reported failure, a crash or
             \* the operator

vars == <<artifact, head, owed, excused>>

Dirty(q) == artifact[q] # head[q]

Init ==
  /\ artifact = [q \in Paths |-> 0] /\ head = [q \in Paths |-> 0]
  /\ owed = {} /\ excused = {}

Transition(q) ==
  /\ artifact' = [artifact EXCEPT ![q] = @ + 1]
  /\ owed' = owed \cup {q}
  /\ UNCHANGED <<head, excused>>

Publish(q) ==
  /\ head' = [head EXCEPT ![q] = artifact[q]]
  /\ excused' = excused \ {q}
  /\ UNCHANGED <<artifact, owed>>

\* A path that is owed again needs no excuse.
Reassume(q) ==
  /\ q \in owed
  /\ excused' = excused \ {q}
  /\ UNCHANGED <<artifact, head, owed>>

\* Any number of debts end at once, each of them paid or excused.
Discharge(S) ==
  /\ S \subseteq owed
  /\ \A q \in S : Dirty(q) => q \in excused
  /\ owed' = owed \ S
  /\ UNCHANGED <<artifact, head, excused>>

\* Debts may be dropped while unpaid only by excusing them.
Excuse(S, T) ==
  /\ T \subseteq S
  /\ excused' = excused \cup S
  /\ owed' = owed \ T
  /\ UNCHANGED <<artifact, head>>

\* A completion that could not be recorded re-opens the item on disk.
Reopen(q, T) ==
  /\ T \subseteq {q}
  /\ artifact' = [artifact EXCEPT ![q] = @ + 1]
  /\ excused' = excused \cup {q}
  /\ owed' = owed \ T
  /\ UNCHANGED head

Next ==
  \/ \E q \in Paths : Transition(q) \/ Publish(q) \/ Reassume(q)
  \/ \E S \in SUBSET Paths : Discharge(S) \/ \E T \in SUBSET S : Excuse(S, T)
  \/ \E q \in Paths : \E T \in SUBSET {q} : Reopen(q, T)

Spec == Init /\ [][Next]_vars

\* No debt is forgotten.
DebtKnown == \A q \in Paths : Dirty(q) => q \in owed \cup excused

=============================================================================

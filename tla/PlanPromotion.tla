--------------------------- MODULE PlanPromotion ---------------------------
(***************************************************************************)
(* A plan, its slices and the features they become (cmd/wipnote/plan_*.go, *)
(* plan/planyaml/io.go): the verdicts on a slice, promote-slice,           *)
(* finalize-yaml, finalize, reopen, rewrite-yaml, set-status and           *)
(* elicit-decisions.                                                       *)
(*                                                                         *)
(* The YAML file is the plan.  Every command loads it as a whole, changes  *)
(* its copy and saves that.  Most hold the file's lock from the load on;   *)
(* elicit-decisions holds a mutex of its own process, finalize nothing.    *)
(* A feature is a file of its own, made before the save that names it.     *)
(* The plan's page is drawn anew after a save; the edge to the track is    *)
(* kept nowhere else, so that a drawing reads it first and puts it back    *)
(* last, with no lock on the page.                                         *)
(*                                                                         *)
(* A slice's verdict is its `approve' entry, and its own approval status   *)
(* where it has none; promote-slice takes either for an approval.  A       *)
(* feature is made with its edges to plan and track in one step.           *)
(* Dependencies are waived where a command would wait for them to be done. *)
(***************************************************************************)
EXTENDS Naturals, Sequences, FiniteSetsExt

CONSTANTS
  Callers,      \* processes
  Slices,       \* the slices' numbers
  Deps,         \* per slice: the slices it depends on
  Orders,       \* per process: the commands it may be given
  Drafts,       \* the entries that a file rewritten by its author may bring along
  MaxFeatures,  \* bound: features made
  MaxCalls,     \* bound: commands given
  MaxFailures,  \* bound: deaths and failed creations
  None

Finalizers == {"finalize", "finalize-yaml", "regenerate"}
PlanCommands == Finalizers \cup {"approve", "reject", "promote", "reopen", "rewrite",
                             "set-status", "elicit"}
Lockless == {"finalize", "elicit"}

ASSUME PlanConstants ==
  /\ Slices \subseteq Nat \ {0} /\ Deps \in [Slices -> SUBSET Slices]
  /\ Orders \in [Callers -> SUBSET PlanCommands]
  /\ Drafts \subseteq [Slices -> {"pending", "approved", "rejected"}]
  /\ {MaxFeatures, MaxCalls, MaxFailures} \subseteq Nat /\ None \notin Callers

VARIABLES
  plan,     \* the YAML: its status, its track, per slice its feature, entry and
            \* whether its own status says approved
  page,     \* whether the HTML page carries the edge to the track
  feature,  \* features in the order they were made: their slice, what they wait for
  lock,     \* the process that holds the YAML's file lock, or None
  proc,     \* per process: its command and step, what it loaded and what is left
  refused,  \* history: slices whose last entry saved was a rejection
  lost,     \* history: features that no save will name any more
  sealed,   \* history: the plan is final, and a finalizer made it so
  upset,    \* history: a lockless command saved over another, or another over it
  torn,     \* history: a drawing without the lock met another, or one died
  calls,    \* history: commands given
  failures    \* history: deaths and failed creations

files == <<plan, page, feature>>
history == <<refused, lost, sealed, upset, torn>>
counts == <<calls, failures>>
planVars == <<files, lock, proc, history, counts>>

Verdicts == {"pending", "approved", "rejected"}
Plans == [final : BOOLEAN, track : BOOLEAN,
          feat : [Slices -> Nat],
          verdict : [Slices -> Verdicts], says : SUBSET Slices]
NewPlan == [final |-> FALSE, track |-> FALSE, feat |-> [s \in Slices |-> 0],
            verdict |-> [s \in Slices |-> "pending"], says |-> {}]
Idle == [cmd |-> "none", at |-> "idle", copy |-> NewPlan, todo |-> {}, batch |-> {},
         made |-> {}, seen |-> FALSE, stale |-> FALSE]
Loaded == {p \in Callers : proc[p].at \in {"make", "link", "save"}}

Jobs == [cmd : PlanCommands \cup {"none"},
         at : {"idle", "make", "link", "save", "read", "write", "patch"},
         copy : Plans, todo : SUBSET Slices, batch : SUBSET Slices, made : SUBSET Nat,
         seen : BOOLEAN, stale : BOOLEAN]

PlanTyped ==
  /\ plan \in Plans /\ page \in BOOLEAN /\ proc \in [Callers -> Jobs]
  /\ feature \in Seq([slice : Slices, waits : SUBSET Nat])
  /\ \A f \in DOMAIN feature : feature[f].waits \subseteq DOMAIN feature
  /\ lock \in Callers \cup {None}
  /\ \A p \in Callers :
       /\ proc[p].made \subseteq DOMAIN feature
       /\ lock = p => proc[p].at # "idle" /\ proc[p].cmd \notin Lockless
  /\ refused \subseteq Slices /\ lost \subseteq DOMAIN feature
  /\ {sealed, upset, torn} \subseteq BOOLEAN
  /\ calls \in 0 .. MaxCalls /\ failures \in 0 .. MaxFailures

PlanInit ==
  /\ \E track \in BOOLEAN, verdict \in [Slices -> {"pending", "approved"}] :
       plan = [NewPlan EXCEPT !.track = track, !.verdict = verdict,
                              !.says = {s \in Slices : verdict[s] = "approved"}]
  /\ refused = {}
  /\ page = FALSE /\ feature = <<>> /\ lock = None /\ proc = [p \in Callers |-> Idle]
  /\ lost = {} /\ sealed = FALSE /\ upset = FALSE /\ torn = FALSE
  /\ calls = 0 /\ failures = 0

Failure == failures < MaxFailures /\ failures' = failures + 1 /\ UNCHANGED calls
Unlock(p) == lock' = IF lock = p THEN None ELSE lock
Takes(p) == lock = None /\ lock' = p

(***************************************************************************)
(* The commands: what they load, check and intend.                         *)
(***************************************************************************)
Approved(c) ==
  {s \in Slices : c.verdict[s] = "approved" \/ (c.verdict[s] = "pending" /\ s \in c.says)}
Unmade(c) == {s \in Slices : c.feat[s] = 0}
NextStep(cmd, todo) ==
  IF todo # {} THEN "make" ELSE IF cmd \in Finalizers THEN "link" ELSE "save"
Room(todo) ==
  Len(feature) + Cardinality(todo)
    + MapThenSumSet(LAMBDA p : Cardinality(proc[p].todo), Callers) <= MaxFeatures

Loads(p, cmd, copy, todo, batch) ==
  /\ proc[p].at = "idle" /\ cmd \in Orders[p] /\ Room(todo)
  /\ calls < MaxCalls /\ calls' = calls + 1
  /\ proc' = [proc EXCEPT ![p] =
       [Idle EXCEPT !.cmd = cmd, !.at = NextStep(cmd, todo), !.copy = copy,
                    !.todo = todo, !.batch = batch]]
  /\ UNCHANGED <<files, history, failures>>

\* Mutant: the entry is stored without the lock.
JudgeUnlocked(p, s) ==
  /\ UNCHANGED lock
  /\ \/ Loads(p, "approve",
              [plan EXCEPT !.verdict[s] = "approved", !.says = @ \cup {s}], {}, {s})
     \/ Loads(p, "reject",
              [plan EXCEPT !.verdict[s] = "rejected", !.says = @ \ {s}], {}, {s})

(* approve-slice and reject-slice; a rejection's first entry is a record   *)
(* that no command reads.                                                  *)
Judge(p, s) ==
  /\ Takes(p)
  /\ \/ Loads(p, "approve",
              [plan EXCEPT !.verdict[s] = "approved", !.says = @ \cup {s}], {}, {s})
     \/ Loads(p, "reject",
              [plan EXCEPT !.verdict[s] = "rejected", !.says = @ \ {s}], {}, {s})

\* Mutant: the plan is loaded before the lock is taken for the save.
PromoteUnlocked(p, s) ==
  /\ UNCHANGED lock /\ s \in Approved(plan) \cup plan.says
  /\ plan.track \/ plan.feat[s] # 0
  /\ Loads(p, "promote", plan, {s} \cap Unmade(plan), {})

(* An approved slice, whose feature is kept when it has one.               *)
Promote(p, s) ==
  /\ Takes(p) /\ s \in Approved(plan) \cup plan.says /\ (plan.track \/ plan.feat[s] # 0)
  /\ Loads(p, "promote", plan, {s} \cap Unmade(plan), {})

\* Mutant: every approved slice gets a new feature.
FinalizeYAMLAnew(p) ==
  LET copy == [plan EXCEPT !.final = FALSE, !.track = TRUE]  yes == Approved(plan) IN
  /\ Takes(p) /\ ~(plan.final /\ feature # <<>>)
  /\ \E cmd \in {"finalize-yaml", "regenerate"} : Loads(p, cmd, copy, yes, yes)

(* A final plan is left alone once it has features, named or found by      *)
(* their edge to it.                                                       *)
FinalizeYAML(p) ==
  LET copy == [plan EXCEPT !.final = FALSE, !.track = TRUE]  yes == Approved(plan) IN
  /\ Takes(p) /\ ~(plan.final /\ feature # <<>>)
  /\ \/ Loads(p, "finalize-yaml", copy, yes \cap Unmade(plan), yes)
     \/ Loads(p, "regenerate", copy, yes, yes)

(* Every slice, whatever its verdict.                                      *)
Finalize(p) ==
  /\ ~plan.final /\ plan.track
  /\ Loads(p, "finalize", plan, Unmade(plan), Slices) /\ UNCHANGED lock

ReopenPlan(p) ==
  Takes(p) /\ plan.final /\ Loads(p, "reopen", [plan EXCEPT !.final = FALSE], {}, {})

\* Mutant: the entries are not carried over.
RewriteDropsEntries(p) ==
  /\ Takes(p)
  /\ \E final \in BOOLEAN, feat \in {plan.feat, NewPlan.feat}, says \in {plan.says, Slices} :
       Loads(p, "rewrite", [NewPlan EXCEPT !.final = final, !.track = plan.track,
                                           !.feat = feat, !.says = says], {}, {})

(* The author may have kept the slices' feature ids or not, and may write  *)
(* them approved; the track is carried over, the status is the author's.   *)
(* The entries are carried over when the new file has none; otherwise its  *)
(* own, which may be those of an older copy, are a verdict on every slice. *)
Rewrite(p) ==
  /\ Takes(p)
  /\ \E final \in BOOLEAN, feat \in {plan.feat, NewPlan.feat}, says \in {plan.says, Slices} :
       LET copy == [plan EXCEPT !.final = final, !.feat = feat, !.says = says] IN
       \/ Loads(p, "rewrite", copy, {}, {})
       \/ \E verdict \in Drafts :
            Loads(p, "rewrite", [copy EXCEPT !.verdict = verdict], {}, Slices)

SetStatus(p) ==
  /\ Takes(p)
  /\ \E final \in BOOLEAN : Loads(p, "set-status", [plan EXCEPT !.final = final], {}, {})

Elicit(p) == Loads(p, "elicit", plan, {}, {}) /\ UNCHANGED lock

(***************************************************************************)
(* Features and edges.                                                     *)
(***************************************************************************)
Named(copy, ss) == {copy.feat[d] : d \in ss} \ {0}

(* The next slice gets a feature.  promote-slice has it wait for those of  *)
(* the slices it depends on; the finalizers do that at their end.          *)
Make(p) ==
  LET q == proc[p]  s == Min(q.todo)  f == Len(feature) + 1  todo == q.todo \ {s} IN
  /\ q.at = "make"
  /\ feature' = Append(feature, [slice |-> s,
       waits |-> IF q.cmd = "promote" THEN Named(q.copy, Deps[s]) ELSE {}])
  /\ proc' = [proc EXCEPT ![p].copy.feat[s] = f, ![p].made = @ \cup {f},
                          ![p].todo = todo, ![p].at = NextStep(q.cmd, todo)]
  /\ UNCHANGED <<plan, page, lock, history, counts>>

(* A creation that fails ends promote-slice and finalize; finalize-yaml    *)
(* leaves the slice out.                                                   *)
MakeFails(p) ==
  LET q == proc[p]  s == Min(q.todo)  todo == q.todo \ {s} IN
  /\ q.at = "make" /\ Failure
  /\ IF q.cmd \in {"promote", "finalize"}
     THEN proc' = [proc EXCEPT ![p] = Idle] /\ Unlock(p) /\ lost' = lost \cup q.made
     ELSE /\ proc' = [proc EXCEPT ![p].todo = todo, ![p].batch = @ \ {s},
                                  ![p].at = NextStep(q.cmd, todo)]
          /\ UNCHANGED <<lock, lost>>
  /\ UNCHANGED <<files, refused, sealed, upset, torn>>

(* Marks what others hold as overtaken, where one of the two takes no lock.*)
Crossed(p, others, bare) ==
  [r \in Callers |-> [proc[r] EXCEPT !.stale =
     @ \/ (r \in others \ {p} /\ {proc[p].cmd, proc[r].cmd} \cap bare # {})]]
\* The commands that draw without the lock.
Bare == Lockless \cup {"set-status"}
Drawing == {p \in Callers : proc[p].at = "write"}

\* Mutant: only what this call made is linked.
LinkMade(p) ==
  LET q == proc[p] IN
  /\ q.at = "link"
  /\ feature' = [f \in DOMAIN feature |->
       IF f \in q.made
       THEN [feature[f] EXCEPT
              !.waits = @ \cup Named(q.copy, Deps[feature[f].slice] \cap q.batch)]
       ELSE feature[f]]
  /\ page' = TRUE
  /\ proc' = [Crossed(p, Drawing, Bare) EXCEPT ![p].at = "save"]
  /\ UNCHANGED <<plan, lock, history, counts>>

(* Features of the batch wait for each other, the page gets its edge.      *)
LinkFeatures(p) ==
  LET q == proc[p] IN
  /\ q.at = "link"
  /\ feature' = [f \in DOMAIN feature |->
       LET s == feature[f].slice IN
       IF s \in q.batch /\ q.copy.feat[s] = f
       THEN [feature[f] EXCEPT !.waits = @ \cup Named(q.copy, Deps[s] \cap q.batch)]
       ELSE feature[f]]
  /\ page' = TRUE
  /\ proc' = [Crossed(p, Drawing, Bare) EXCEPT ![p].at = "save"]
  /\ UNCHANGED <<plan, lock, history, counts>>

(***************************************************************************)
(* The save and the drawing of the page.                                   *)
(***************************************************************************)
\* The slices whose entries the command brings.
Judged(q) == IF q.cmd \in {"approve", "reject", "rewrite"} THEN q.batch ELSE {}
\* A promotion that only refreshed its slice draws nothing.
Draws(q) == ~(q.cmd = "promote" /\ q.made = {})

SavePlan(p) ==
  LET q == proc[p]
      copy == [q.copy EXCEPT !.final = @ \/ q.cmd \in Finalizers]
      next == IF Draws(q) THEN [Idle EXCEPT !.cmd = q.cmd, !.at = "read"] ELSE Idle
  IN
  /\ q.at = "save"
  /\ plan' = copy
  /\ proc' = [Crossed(p, Loaded, Lockless) EXCEPT ![p] = next]
  /\ IF Draws(q) /\ q.cmd # "set-status" THEN UNCHANGED lock ELSE Unlock(p)
  /\ refused' = (refused \ Judged(q)) \cup {s \in Judged(q) : copy.verdict[s] = "rejected"}
  /\ lost' = IF q.cmd \in {"rewrite", "regenerate"}
             THEN lost \cup (Named(plan, Slices) \ Named(copy, Slices)) ELSE lost
  /\ sealed' = (copy.final /\ (sealed \/ q.cmd \in Finalizers))
  /\ upset' = (upset \/ q.stale)
  /\ UNCHANGED <<page, feature, torn, counts>>

Patching(p) == proc[p].at = "patch" /\ proc[p].seen

DrawReads(p) ==
  /\ proc[p].at = "read"
  /\ proc' = [proc EXCEPT ![p].at = "write", ![p].seen = page]
  /\ UNCHANGED <<files, lock, history, counts>>

(* The file is truncated and drawn from the YAML, which knows no edges.    *)
DrawWrites(p) ==
  /\ proc[p].at = "write"
  /\ page' = FALSE
  /\ proc' = [Crossed(p, IF page THEN Drawing ELSE {}, Bare) EXCEPT ![p].at = "patch"]
  /\ torn' = (torn \/ proc[p].stale)
  /\ UNCHANGED <<plan, feature, lock, refused, lost, sealed, upset, counts>>

\* Mutant: the drawing puts no edges back.
DrawPatchesNothing(p) ==
  /\ proc[p].at = "patch"
  /\ proc' = [proc EXCEPT ![p] = Idle]
  /\ Unlock(p)
  /\ UNCHANGED <<files, history, counts>>

DrawPatches(p) ==
  /\ proc[p].at = "patch"
  /\ page' = (page \/ proc[p].seen)
  /\ proc' = [Crossed(p, IF proc[p].seen THEN Drawing ELSE {}, Bare) EXCEPT ![p] = Idle]
  /\ Unlock(p)
  /\ UNCHANGED <<plan, feature, history, counts>>

Die(p) ==
  /\ proc[p].at # "idle" /\ Failure
  /\ lost' = IF p \in Loaded THEN lost \cup proc[p].made ELSE lost
  /\ torn' = (torn \/ Patching(p))
  /\ proc' = [proc EXCEPT ![p] = Idle] /\ Unlock(p)
  /\ UNCHANGED <<files, refused, sealed, upset>>

PlanNext ==
  \E p \in Callers :
    \/ \E s \in Slices : Judge(p, s) \/ Promote(p, s)
    \/ FinalizeYAML(p) \/ Finalize(p) \/ ReopenPlan(p) \/ Rewrite(p) \/ SetStatus(p) \/ Elicit(p)
    \/ Make(p) \/ MakeFails(p) \/ LinkFeatures(p) \/ SavePlan(p)
    \/ DrawReads(p) \/ DrawWrites(p) \/ DrawPatches(p) \/ Die(p)

PlanSpec == PlanInit /\ [][PlanNext]_planVars

(***************************************************************************)
(* Properties                                                              *)
(***************************************************************************)

(* A feature made for a plan is the one its slice names, once its maker    *)
(* has saved (plan_finalize.go: "Write feature_id back to YAML slice       *)
(* immediately"): otherwise the next finalizer makes a second one.  Left   *)
(* out: those of a maker that failed, those a rewrite or a regeneration    *)
(* drops, and plans on which a lockless command and another overlapped.    *)
FeaturesNamed ==
  \A f \in DOMAIN feature :
    \/ plan.feat[feature[f].slice] = f \/ f \in lost \/ upset
    \/ \E p \in Loaded : f \in proc[p].made

(* The page of a plan that was finalized has its edge to the track, or     *)
(* someone is about to put it back (plan_create.go: without the snapshot   *)
(* "they are silently dropped"), unless drawings overlapped or one died.   *)
PageKept == sealed => page \/ torn \/ \E p \in Callers : Patching(p)

(* What holds in every state of the plan, its features and its page.       *)
PlanSound == PlanTyped /\ FeaturesNamed /\ PageKept

(* promote-slice and finalize-yaml make no feature for a slice whose last  *)
(* verdict was a rejection: not even when it came while they waited for    *)
(* the lock, or before a rewrite by a file without entries.  Entries that  *)
(* the author's file brings along count as the last verdicts, an old       *)
(* approval against a later rejection included.  Left out: promote-slice   *)
(* of a slice that a rewrite says is approved, against its entry.          *)
VerdictStands ==
  [][\A p \in Callers :
       proc'[p].made \ proc[p].made # {} /\ proc[p].cmd # "finalize" =>
         LET s == feature'[Len(feature')].slice  copy == proc[p].copy IN
         \/ s \notin refused \/ upset
         \/ proc[p].cmd = "promote" /\ copy.verdict[s] = "rejected" /\ s \in copy.says]_planVars

(* A plan is made final with its features waiting for each other as its    *)
(* slices do, those promoted one by one before included; a regeneration    *)
(* that could not make one of them is left out.                            *)
DependenciesWired ==
  [][\A p \in Callers :
       LET q == proc[p] IN
       /\ q.at = "save" /\ proc'[p].at = "read" /\ q.cmd \in Finalizers
       /\ q.cmd = "regenerate" => q.batch = Approved(q.copy)
       => LET among == IF q.cmd = "finalize" THEN Slices ELSE Approved(plan')
              has == {s \in among : plan'.feat[s] # 0}
          IN \A s \in has : \A d \in Deps[s] \cap has :
               plan'.feat[d] \in feature'[plan'.feat[s]].waits]_planVars
=============================================================================

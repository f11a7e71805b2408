------------------------------ MODULE Provider ------------------------------
(* The provider runtime of cbp/provider_runtime.py with the plan algebra of     *)
(* contracts/provider.py: one reconcile at a time observes the infrastructure,  *)
(* plans against a desired state, applies the plan step by step, checks health, *)
(* rolls back to a healthy state it remembers, or escalates.  Every call's      *)
(* evidence is appended to a deduplicated ledger AFTER the call returned.       *)
(* Between any two steps the process may crash and the world may drift.         *)
EXTENDS Naturals, FiniteSets, Sequences, SequencesExt

CONSTANTS Names,         \* resource names, a range of naturals: plan steps are sorted by name
          Digests,       \* content digests of resources
          Cloud,         \* BOOLEAN: the provider's target is the cloud
          BoundEvents,   \* the events its notification binding carries
          Desireds,      \* the desired states reconcile is called with
          MaxAttempts, MaxReconciles, MaxDrift, MaxCrash   \* bounds

Absent == "absent"
Resources == [Names -> Digests \cup {Absent}]
Call == [name: Names, change: {"create", "update", "delete"}, digest: Digests]

VARIABLES
  infra,     \* what exists out there: the adapter's resources
  taskFile,  \* the on-disk task script: "pinned" (matches its manifest digest) or "changed"
  healthy,   \* ledger: the "healthy" entries in file order
  history,   \* ledger: whether it holds any entry
  pc,        \* where reconcile stands
  job,       \* locals of reconcile: desired, approved, had_history, attempts, plan, target, rolling
  todo,      \* locals of apply: the steps of the target still to send
  inflight,  \* the call whose evidence is not recorded yet, if any
  result,    \* how the last reconcile ended
  told,      \* the event this reconcile last emitted to the notification sink
  \* observation variables
  gap,       \* changes made to the infrastructure whose evidence is not in the ledger
  forced,    \* the states towards which a change that needs approval was made without it
  drifted,   \* the world changed since the target plan observed it
  recent,    \* the desired state last found healthy, if any
  reconciles, drifts, crashes
vars == <<infra, taskFile, healthy, history, pc, job, todo, inflight,
          result, told, gap, forced, drifted, recent, reconciles, drifts, crashes>>
ledger == <<healthy, history>>
world == <<infra, taskFile>>
effects == <<gap, forced>>
obs == <<drifted, reconciles, drifts, crashes>>

-----------------------------------------------------------------------------
(* contracts/provider.py: plans *)

\* PlanStep: every mutating step is pinned to a digest, deletes require approval,
\* and everything in the cloud does.
PlanStep(action, digest) ==
  [action |-> action, digest |-> digest,
   approval |-> action = "delete" \/ (Cloud /\ action # "noop")]
Mutating(step) == step.action # "noop"

\* plan_provider: one step per desired or observed resource.  The plan's hash covers
\* the desired state and the steps, so equal plans are equal records.
PlanProvider(desired, observed) ==
  LET step(n) ==
        IF desired[n] = Absent THEN PlanStep("delete", observed[n])
        ELSE IF observed[n] = Absent THEN PlanStep("create", desired[n])
        ELSE IF observed[n] # desired[n] THEN PlanStep("update", desired[n])
        ELSE PlanStep("noop", Absent)
  IN [desired |-> desired,
      steps |-> [n \in {m \in Names : desired[m] # Absent \/ observed[m] # Absent} |-> step(n)]]

MutatingSteps(plan) == {n \in DOMAIN plan.steps : Mutating(plan.steps[n])}
IsConverged(plan) == MutatingSteps(plan) = {}

\* assert_plan_appliable: raises unless every step that requires approval has it.
PlanAppliable(plan, approved) ==
  \A n \in DOMAIN plan.steps : plan.steps[n].approval => approved

\* reconcile_action, as reconcile calls it (converged and health_ok both false).
ReconcileAction(available, attempts) ==
  IF available /\ attempts < MaxAttempts THEN "rollback" ELSE "escalate"

-----------------------------------------------------------------------------
(* The ledger *)

\* append: an entry whose fingerprint is already there is not written again.
AppendHealthy(log, plan) == IF plan \in Range(log) THEN log ELSE Append(log, plan)

\* last_healthy_desired: the desired state of the last healthy entry in file order.
LastHealthyDesired == Last(healthy).desired

-----------------------------------------------------------------------------
Nothing == [n \in Names |-> Absent]
NoPlan == [desired |-> Nothing, steps |-> <<>>]
Idle == [desired |-> Nothing, approved |-> FALSE, had_history |-> FALSE, attempts |-> 0,
         plan |-> NoPlan, target |-> NoPlan, rolling |-> FALSE]

Init ==
  /\ infra = Nothing /\ taskFile = "pinned"
  /\ healthy = <<>> /\ history = FALSE
  /\ pc = "idle" /\ job = Idle /\ todo = {} /\ inflight = {}
  /\ result = "none" /\ told = "none" /\ gap = {} /\ forced = {} /\ drifted = FALSE /\ recent = {}
  /\ reconciles = 0 /\ drifts = 0 /\ crashes = 0

\* reconcile returns or raises: its locals are gone.
Return(r) == pc' = "idle" /\ job' = Idle /\ todo' = {} /\ result' = r

\* _notify: an event the binding does not carry raises out of reconcile, after the
\* evidence was recorded; otherwise reconcile goes on to `r`.
Notify(event, r) ==
  IF event \in BoundEvents THEN told' = event /\ Return(r)
  ELSE UNCHANGED told /\ Return("raised")

\* reconcile is called: the ledger is read for a history before anything is recorded.
Reconcile(desired, approved) ==
  /\ pc = "idle" /\ reconciles < MaxReconciles
  /\ reconciles' = reconciles + 1
  /\ job' = [Idle EXCEPT !.desired = desired, !.approved = approved, !.had_history = history]
  /\ pc' = "plan" /\ result' = "none" /\ told' = "none"
  /\ UNCHANGED <<world, ledger, todo, inflight, effects, drifted, recent, drifts, crashes>>

\* observe fails: evidence of it is recorded and ProviderRuntimeError leaves reconcile.
ObserveFails ==
  /\ pc \in {"plan", "rollback"}
  /\ history' = TRUE /\ Return("raised")
  /\ UNCHANGED <<world, healthy, inflight, told, effects, recent, obs>>

\* observe and plan_provider; apply then checks the plan before it sends anything.  A
\* converged plan goes straight to the health check, one that lacks its approval raises.
StartPlan(desired, approved, rolling) ==
  LET plan == PlanProvider(desired, infra)
  IN /\ history' = TRUE /\ drifted' = FALSE
     /\ IF PlanAppliable(plan, approved)
        THEN /\ pc' = IF IsConverged(plan) THEN "health" ELSE "step"
             /\ todo' = MutatingSteps(plan)
             /\ job' = [job EXCEPT !.target = plan, !.rolling = rolling,
                                   !.plan = IF rolling THEN @ ELSE plan]
             /\ UNCHANGED result
        ELSE Return("raised")
     /\ UNCHANGED <<world, healthy, inflight, told, effects, recent, reconciles, drifts, crashes>>

\* _plan(desired), then the head of the loop.
Plan == pc = "plan" /\ StartPlan(job.desired, job.approved, FALSE)

\* The adapter: a task whose file no longer matches its digest is refused unrun
\* (LocalTaskProviderAdapter._verify_binding); otherwise the task takes effect, or fails
\* with or without having had its effect.
AdapterApply(call, ok) ==
  \/ taskFile = "pinned" /\ infra' = [infra EXCEPT ![call.name] =
                                       IF call.change = "delete" THEN Absent ELSE call.digest]
  \/ ~ok /\ UNCHANGED infra

\* apply, one step: adapter.call has returned, its evidence is not recorded yet.
ApplyStep(ok) ==
  /\ pc = "step"
  /\ \E n \in todo :
       LET s == job.target.steps[n]
           call == [name |-> n, change |-> s.action, digest |-> s.digest]
           evid == [call |-> call, plan |-> job.target]
       IN /\ \A k \in todo : n <= k
          /\ AdapterApply(call, ok)
          /\ inflight' = {[evidence |-> evid, ok |-> ok]}
          /\ gap' = IF infra' = infra THEN gap ELSE gap \cup {evid}
          /\ forced' = IF infra' # infra /\ s.approval /\ ~job.approved
                       THEN forced \cup {job.target.desired} ELSE forced
  /\ pc' = "record"
  /\ UNCHANGED <<taskFile, ledger, job, todo, result, told, recent, obs>>

Succeeded == \A e \in inflight : e.ok

\* _record after the call: a failed step ends apply with FALSE, the last good one with TRUE.
RecordLoose ==
  /\ pc = "record"
  /\ gap' = gap \ {e.evidence : e \in inflight} /\ history' = TRUE /\ inflight' = {}
  /\ todo' = todo \ {e.evidence.call.name : e \in inflight}
  /\ pc' = IF todo' = {} THEN "health" ELSE "step"
  /\ UNCHANGED <<world, healthy, job, result, told, forced, recent, obs>>
RecordGood ==
  /\ pc = "record"
  /\ gap' = IF Succeeded THEN gap \ {e.evidence : e \in inflight} ELSE gap
  /\ history' = TRUE /\ inflight' = {}
  /\ todo' = IF Succeeded THEN todo \ {e.evidence.call.name : e \in inflight} ELSE {}
  /\ pc' = IF ~Succeeded THEN "failed" ELSE IF todo' = {} THEN "health" ELSE "step"
  /\ UNCHANGED <<world, healthy, job, result, told, forced, recent, obs>>
Record ==
  /\ pc = "record"
  /\ gap' = gap \ {e.evidence : e \in inflight} /\ history' = TRUE /\ inflight' = {}
  /\ todo' = IF Succeeded THEN todo \ {e.evidence.call.name : e \in inflight} ELSE {}
  /\ pc' = IF ~Succeeded THEN "failed" ELSE IF todo' = {} THEN "health" ELSE "step"
  /\ UNCHANGED <<world, healthy, job, result, told, forced, recent, obs>>

\* health() after an apply that went through (or a plan with nothing to do).
HealthFails ==
  /\ pc = "health" /\ pc' = "failed" /\ history' = TRUE
  /\ UNCHANGED <<world, healthy, job, todo, inflight, result, told, effects, recent, obs>>

\* _finish_converged: remember the plan as healthy, record convergence, notify.
FinishConverged ==
  /\ pc = "health" /\ ~job.rolling
  /\ healthy' = AppendHealthy(healthy, job.plan) /\ history' = TRUE
  /\ recent' = {job.desired}
  /\ Notify(IF job.had_history THEN "healed" ELSE "provisioned", "converged")
  /\ UNCHANGED <<world, inflight, effects, obs>>

\* The rollback is healthy: its evidence is recorded, the event sent, the desired state
\* planned again.
FinishRollback ==
  /\ pc = "health" /\ job.rolling /\ history' = TRUE
  /\ IF "rolled-back" \in BoundEvents
     THEN /\ told' = "rolled-back" /\ pc' = "plan"
          /\ job' = [job EXCEPT !.rolling = FALSE] /\ UNCHANGED <<todo, result>>
     ELSE UNCHANGED told /\ Return("raised")
  /\ UNCHANGED <<world, healthy, inflight, effects, recent, obs>>

\* The plan failed: count the attempt and let reconcile_action choose.  A failed rollback
\* is not counted, it escalates.
Rollback ==
  /\ pc = "failed" /\ ~job.rolling
  /\ ReconcileAction(healthy # <<>>, job.attempts + 1) = "rollback"
  /\ job' = [job EXCEPT !.attempts = @ + 1] /\ pc' = "rollback"
  /\ UNCHANGED <<world, ledger, todo, inflight, result, told, effects, recent, obs>>

\* A rollback is planned from a fresh observation and applied with approved=True.
PlanRollback == pc = "rollback" /\ StartPlan(LastHealthyDesired, TRUE, TRUE)

Escalate ==
  /\ pc = "failed"
  /\ job.rolling \/ ReconcileAction(healthy # <<>>, job.attempts + 1) = "escalate"
  /\ history' = TRUE /\ Notify("escalated", "escalated")
  /\ UNCHANGED <<world, healthy, inflight, effects, recent, obs>>

\* teardown: everything the adapter holds is removed, or the call fails.
Teardown ==
  /\ pc = "idle" /\ taskFile = "pinned" /\ infra # Nothing
  /\ infra' = Nothing /\ history' = TRUE /\ result' = "none"
  /\ UNCHANGED <<taskFile, healthy, pc, job, todo, inflight, told, effects, recent, obs>>

-----------------------------------------------------------------------------
(* Faults *)

\* Somebody else changes a resource.
Drift ==
  /\ drifts < MaxDrift /\ drifts' = drifts + 1 /\ drifted' = TRUE
  /\ \E n \in Names, d \in Digests \cup {Absent} : infra' = [infra EXCEPT ![n] = d]
  /\ UNCHANGED <<taskFile, ledger, pc, job, todo, inflight, result, told, effects, recent, reconciles, crashes>>

\* A task script is edited on disk, or restored.
TaskFileChanges ==
  /\ drifts < MaxDrift /\ drifts' = drifts + 1
  /\ taskFile' = IF taskFile = "pinned" THEN "changed" ELSE "pinned"
  /\ UNCHANGED <<infra, ledger, pc, job, todo, inflight, result, told, gap, forced, drifted, recent, reconciles, crashes>>

\* The process dies: the ledger and the infrastructure stay, an unrecorded call is forgotten.
Crash ==
  /\ pc # "idle" /\ crashes < MaxCrash /\ crashes' = crashes + 1
  /\ Return("crashed") /\ inflight' = {}
  /\ UNCHANGED <<world, ledger, told, effects, drifted, recent, reconciles, drifts>>

Progress ==
  \/ Plan \/ ObserveFails \/ \E ok \in BOOLEAN : ApplyStep(ok)
  \/ Record \/ HealthFails \/ FinishConverged \/ FinishRollback
  \/ Rollback \/ PlanRollback \/ Escalate
Next ==
  \/ \E d \in Desireds, a \in BOOLEAN : Reconcile(d, a)
  \/ Progress \/ Teardown \/ Drift \/ TaskFileChanges \/ Crash
Spec == Init /\ [][Next]_vars /\ WF_vars(Progress)

-----------------------------------------------------------------------------
\* A digest is 64 hex digits (ObservedResource), so none of them is the mark of an absent resource;
\* a module that instantiates this one for its runs assumes this of its constants.
ConstantsOK ==
  Absent \notin Digests /\ Desireds \subseteq Resources /\ MaxAttempts \in Nat

PlanType ==
  [desired : Resources,
   steps : UNION {[S -> [action : {"create", "update", "delete", "noop"},
                         digest : Digests \cup {Absent}, approval : BOOLEAN]] : S \in SUBSET Names}]

\* The shape of the ledger's healthy entries, of reconcile's locals and of its outcomes.
TypeOK ==
  /\ infra \in Resources /\ taskFile \in {"pinned", "changed"}
  /\ healthy \in Seq(PlanType) /\ IsInjective(healthy) /\ history \in BOOLEAN
  /\ pc \in {"idle", "plan", "step", "record", "health", "failed", "rollback"}
  /\ job \in [desired : Resources, approved : BOOLEAN, had_history : BOOLEAN, attempts : 0..MaxAttempts,
              plan : PlanType \cup {NoPlan}, target : PlanType \cup {NoPlan}, rolling : BOOLEAN]
  /\ todo \subseteq Names /\ (pc = "record") = (inflight # {})
  /\ result \in {"none", "raised", "converged", "escalated", "crashed"}
  /\ told \in {"none", "provisioned", "healed", "rolled-back", "escalated"}
  /\ drifted \in BOOLEAN /\ crashes \in Nat

\* A reconcile that reports "converged" left the infrastructure in the desired state, whatever
\* failed, crashed or was rolled back before, unless somebody else changed it after the plan
\* observed it (reconcile, _finish_converged).
ConvergedIsDesired ==
  \* recent is the desired state of the last reconcile that converged
  result = "converged" /\ ~drifted => recent = {infra}

\* Evidence lags the infrastructure by the call in flight only: every change this runtime made
\* under a plan is in the ledger, failed calls that had their effect included, except one per
\* crash (_call records after adapter.call returns).
EvidenceLagsByOne == Cardinality(gap) <= crashes + IF pc = "record" THEN 1 ELSE 0

\* No resource is deleted, and nothing in the cloud is touched, without the caller's approval,
\* except on the way back to a state that was healthy (assert_plan_appliable; rollbacks apply
\* with approved=True).
UnapprovedOnlyRollsBack == \A d \in forced : \E k \in DOMAIN healthy : healthy[k].desired = d
=============================================================================

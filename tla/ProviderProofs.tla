--------------------------- MODULE ProviderProofs ---------------------------
(* Theorems about Provider, for any resources, digests and desired states and   *)
(* any number of reconciles, failing calls, drifts and crashes: what "converged"*)
(* means, what the evidence may miss, and what was done without approval.       *)
EXTENDS Provider, FiniteSetTheorems, TLAPS

-----------------------------------------------------------------------------
(* The inductive invariant *)

Applying == pc \in {"step", "record"}
Planned == pc \in {"step", "record", "health"}

\* The outcome is open while a reconcile runs, and only a plan under way has steps left.
Flow ==
  /\ pc # "idle" => result = "none"
  /\ pc \notin {"idle", "plan"} => job.plan \in PlanType
  /\ Planned => job.target \in PlanType
  /\ Planned /\ ~job.rolling => job.target.desired = job.desired /\ job.plan = job.target
  /\ pc = "health" => todo = {}
  /\ Applying => todo # {} /\ todo \subseteq DOMAIN job.target.steps
  /\ pc = "rollback" => healthy # <<>>
  /\ pc = "plan" => ~job.rolling

\* A step that is still to be sent makes its resource what the target desires.
StepsMake ==
  Applying => \A n \in todo :
    IF job.target.steps[n].action = "delete" THEN job.target.desired[n] = Absent
    ELSE job.target.steps[n].digest = job.target.desired[n]

\* The call whose evidence is not recorded yet, and what it is for.
InFlight(e) == inflight = {e} /\ e.ok \in BOOLEAN /\ e.evidence.call.name \in todo
CallOut == inflight # {} => \E e \in inflight : InFlight(e)

\* Unless the world drifted, it is as desired except where a step is still to be sent, or was sent
\* and is not known to have succeeded.
Pending == IF pc = "record" /\ Succeeded THEN todo \ {e.evidence.call.name : e \in inflight} ELSE todo
Reached == Planned /\ ~drifted => \A n \in Names \ Pending : infra[n] = job.target.desired[n]

\* Every change made under a plan is in the ledger, or its call is in flight, or a crash forgot it.
Evidence == IsFiniteSet(gap) /\ Cardinality(gap \ {e.evidence : e \in inflight}) <= crashes

\* A plan that is applied without the caller's approval needs none or leads back.
Backed ==
  Applying => \/ job.approved
              \/ PlanAppliable(job.target, FALSE)
              \/ \E k \in DOMAIN healthy : healthy[k].desired = job.target.desired

IInv == /\ TypeOK /\ Flow /\ StepsMake /\ CallOut /\ Reached /\ ConvergedIsDesired
        /\ Evidence /\ Backed /\ UnapprovedOnlyRollsBack

-----------------------------------------------------------------------------
(* Plans *)

JobType ==
  [desired : Resources, approved : BOOLEAN, had_history : BOOLEAN, attempts : 0..MaxAttempts,
   plan : PlanType \cup {NoPlan}, target : PlanType \cup {NoPlan}, rolling : BOOLEAN]

LEMMA PlanIs ==
  ASSUME NEW d \in Resources, NEW o \in Resources
  PROVE  LET plan == PlanProvider(d, o) IN
         /\ plan \in PlanType /\ plan.desired = d
         /\ MutatingSteps(plan) \subseteq DOMAIN plan.steps /\ DOMAIN plan.steps \subseteq Names
         /\ \A n \in MutatingSteps(plan) :
              IF plan.steps[n].action = "delete" THEN d[n] = Absent ELSE plan.steps[n].digest = d[n]
         /\ \A n \in Names \ MutatingSteps(plan) : o[n] = d[n]
<1> DEFINE plan == PlanProvider(d, o)
           touched == {m \in Names : d[m] # Absent \/ o[m] # Absent}
           Step == [action : {"create", "update", "delete", "noop"},
                    digest : Digests \cup {Absent}, approval : BOOLEAN]
           step(n) == IF d[n] = Absent THEN PlanStep("delete", o[n])
                      ELSE IF o[n] = Absent THEN PlanStep("create", d[n])
                      ELSE IF o[n] # d[n] THEN PlanStep("update", d[n])
                      ELSE PlanStep("noop", Absent)
<1>1. plan = [desired |-> d, steps |-> [n \in touched |-> step(n)]]
  BY DEF PlanProvider
<1>2. ASSUME NEW n \in Names PROVE step(n) \in Step
  <2>1. d[n] \in Digests \cup {Absent} /\ o[n] \in Digests \cup {Absent}
    BY DEF Resources
  <2>2. ASSUME NEW a \in {"create", "update", "delete", "noop"}, NEW g \in Digests \cup {Absent}
        PROVE  PlanStep(a, g) \in Step
    <3>1. (a = "delete" \/ (Cloud /\ a # "noop")) \in BOOLEAN
      OBVIOUS
    <3> QED BY <3>1 DEF PlanStep
  <2> HIDE DEF Step
  <2> QED BY <2>1, <2>2
<1>3. [n \in touched |-> step(n)] \in [touched -> Step]
  BY <1>2
<1>4. plan \in PlanType
  <2>1. touched \in SUBSET Names
    OBVIOUS
  <2> HIDE DEF touched, step, plan, Step
  <2>2. [n \in touched |-> step(n)] \in UNION {[S -> Step] : S \in SUBSET Names}
    BY <1>3, <2>1
  <2> QED BY <1>1, <2>2 DEF PlanType, Step
<1>5. plan.desired = d /\ DOMAIN plan.steps = touched /\ \A n \in touched : plan.steps[n] = step(n)
  BY <1>1
<1>6. ASSUME NEW n \in touched
      PROVE  /\ step(n).action # "noop" =>
                  IF step(n).action = "delete" THEN d[n] = Absent ELSE step(n).digest = d[n]
             /\ step(n).action = "noop" => o[n] = d[n]
  BY DEF PlanStep
<1>7. MutatingSteps(plan) = {n \in touched : step(n).action # "noop"}
  <2> HIDE DEF touched, step, plan
  <2> QED BY <1>5 DEF MutatingSteps, Mutating
<1>8. \A n \in MutatingSteps(plan) :
        IF plan.steps[n].action = "delete" THEN d[n] = Absent ELSE plan.steps[n].digest = d[n]
  <2> HIDE DEF touched, step, plan
  <2> QED BY <1>5, <1>6, <1>7
<1>9. \A n \in Names \ MutatingSteps(plan) : o[n] = d[n]
  <2>1. \A n \in Names \ touched : o[n] = d[n]
    OBVIOUS
  <2> HIDE DEF touched, step, plan
  <2> QED BY <1>6, <1>7, <2>1
<1>10. MutatingSteps(plan) \subseteq DOMAIN plan.steps /\ DOMAIN plan.steps \subseteq Names
  <2>1. touched \subseteq Names
    OBVIOUS
  <2> HIDE DEF touched, step, plan
  <2> QED BY <1>5, <1>7, <2>1
<1> HIDE DEF plan
<1> QED BY <1>4, <1>5, <1>8, <1>9, <1>10 DEF plan

LEMMA IdleIs == ConstantsOK => Idle \in JobType
<1> SUFFICES ASSUME ConstantsOK PROVE Idle \in JobType
  OBVIOUS
<1>1. Nothing \in Resources /\ 0 \in 0..MaxAttempts
  BY DEF ConstantsOK, Nothing, Resources
<1>2. NoPlan \in PlanType \cup {NoPlan}
  OBVIOUS
<1> HIDE DEF NoPlan, Nothing
<1> QED BY <1>1, <1>2 DEF Idle, JobType

\* What planning leaves behind: a return, or a plan that may be applied.
LEMMA Plans ==
  ASSUME TypeOK, NEW d \in Resources, NEW approved \in BOOLEAN, NEW rolling \in BOOLEAN,
         rolling => job.plan \in PlanType, StartPlan(d, approved, rolling)
  PROVE  /\ UNCHANGED <<infra, taskFile, healthy, inflight, told, gap, forced, recent, crashes>>
         /\ history' = TRUE /\ drifted' = FALSE
         /\ \/ pc' = "idle" /\ job' = Idle /\ todo' = {} /\ result' = "raised"
            \/ /\ pc' = (IF todo' = {} THEN "health" ELSE "step") /\ result' = result
               /\ job' \in JobType /\ job'.desired = job.desired /\ job'.approved = job.approved
               /\ job'.rolling = rolling /\ job'.plan \in PlanType
               /\ (~rolling => job'.plan = job'.target)
               /\ job'.target = PlanProvider(d, infra) /\ PlanAppliable(job'.target, approved)
               /\ todo' = MutatingSteps(job'.target)
<1> DEFINE plan == PlanProvider(d, infra)
<1>1. plan \in PlanType
  BY PlanIs DEF TypeOK
<1>2. UNCHANGED <<infra, taskFile, healthy, inflight, told, gap, forced, recent, crashes>>
      /\ history' = TRUE /\ drifted' = FALSE
  BY DEF StartPlan, world, effects
<1>3. CASE ~PlanAppliable(plan, approved)
  BY <1>2, <1>3 DEF StartPlan, Return
<1>4. CASE PlanAppliable(plan, approved)
  <2>1. /\ pc' = IF IsConverged(plan) THEN "health" ELSE "step"
        /\ todo' = MutatingSteps(plan) /\ result' = result
        /\ job' = [job EXCEPT !.target = plan, !.rolling = rolling,
                              !.plan = IF rolling THEN @ ELSE plan]
    BY <1>4 DEF StartPlan
  <2> HIDE DEF plan
  <2>2. job \in JobType
    BY DEF TypeOK, JobType
  <2>3. job' \in JobType /\ job'.desired = job.desired /\ job'.approved = job.approved
        /\ job'.rolling = rolling /\ job'.target = plan
        /\ job'.plan = IF rolling THEN job.plan ELSE plan
    BY <1>1, <2>1, <2>2 DEF JobType
  <2>4. pc' = IF todo' = {} THEN "health" ELSE "step"
    BY <2>1 DEF IsConverged
  <2> QED BY <1>1, <1>2, <1>4, <2>1, <2>3, <2>4 DEF plan
<1> QED BY <1>3, <1>4

\* What sending a step leaves behind: with a success the resource is as the target desires.
LEMMA Sends ==
  ASSUME StepsMake, NEW ok \in BOOLEAN, ApplyStep(ok)
  PROVE  /\ UNCHANGED <<taskFile, healthy, history, job, todo, result, told, recent, drifted, crashes>>
         /\ pc = "step" /\ pc' = "record"
         /\ \E n, e :
              /\ n \in todo /\ inflight' = {e} /\ e.ok = ok /\ e.evidence.call.name = n
              /\ \/ infra' = [infra EXCEPT ![n] = job.target.desired[n]]
                 \/ ~ok /\ infra' = infra
              /\ gap' \subseteq gap \cup {e.evidence}
              /\ \/ forced' = forced
                 \/ /\ job.target.steps[n].approval /\ ~job.approved
                    /\ forced' = forced \cup {job.target.desired}
<1>1. UNCHANGED <<taskFile, healthy, history, job, todo, result, told, recent, drifted, crashes>>
      /\ pc = "step" /\ pc' = "record"
  BY DEF ApplyStep, ledger, obs
<1> DEFINE s(n) == job.target.steps[n]
           call(n) == [name |-> n, change |-> s(n).action, digest |-> s(n).digest]
           evid(n) == [call |-> call(n), plan |-> job.target]
<1>2. PICK n \in todo :
        /\ AdapterApply(call(n), ok)
        /\ inflight' = {[evidence |-> evid(n), ok |-> ok]}
        /\ gap' = IF infra' = infra THEN gap ELSE gap \cup {evid(n)}
        /\ forced' = IF infra' # infra /\ s(n).approval /\ ~job.approved
                     THEN forced \cup {job.target.desired} ELSE forced
  BY DEF ApplyStep
<1>3. IF s(n).action = "delete" THEN job.target.desired[n] = Absent
      ELSE s(n).digest = job.target.desired[n]
  BY <1>1 DEF StepsMake, Applying
<1>4. \/ infra' = [infra EXCEPT ![n] = job.target.desired[n]]
      \/ ~ok /\ infra' = infra
  BY <1>2, <1>3 DEF AdapterApply
<1> DEFINE e == [evidence |-> evid(n), ok |-> ok]
<1>5. inflight' = {e} /\ e.ok = ok /\ e.evidence.call.name = n /\ e.evidence = evid(n)
  BY <1>2
<1>6. gap' \subseteq gap \cup {e.evidence}
  BY <1>2, <1>5
<1>7. \/ forced' = forced
      \/ /\ job.target.steps[n].approval /\ ~job.approved
         /\ forced' = forced \cup {job.target.desired}
  BY <1>2
<1> HIDE DEF e
<1> QED BY <1>1, <1>4, <1>5, <1>6, <1>7

\* The evidence of the one call in flight.
LEMMA OneCall ==
  ASSUME TypeOK, CallOut, pc = "record"
  PROVE  \E e \in inflight : /\ inflight = {e} /\ e.ok \in BOOLEAN /\ e.evidence.call.name \in todo
                             /\ {x.evidence : x \in inflight} = {e.evidence}
                             /\ {x.evidence.call.name : x \in inflight} = {e.evidence.call.name}
                             /\ Succeeded = e.ok
<1>1. PICK e \in inflight : InFlight(e)
  BY DEF TypeOK, CallOut
<1>2. inflight = {e} /\ e.ok \in BOOLEAN /\ e.evidence.call.name \in todo
  BY <1>1 DEF InFlight
<1>3. Succeeded = e.ok
  BY <1>2 DEF Succeeded
<1> QED BY <1>2, <1>3

\* A reconcile that ends, as one of the actions that return does.
Ends(r) == pc' = "idle" /\ job' = Idle /\ todo' = {} /\ result' = r

-----------------------------------------------------------------------------
(* Types *)

LEMMA AppendIs ==
  ASSUME NEW log \in Seq(PlanType), NEW plan \in PlanType, IsInjective(log)
  PROVE  LET new == AppendHealthy(log, plan) IN
         /\ new \in Seq(PlanType) /\ IsInjective(new) /\ new # <<>>
         /\ \A k \in DOMAIN log : k \in DOMAIN new /\ new[k] = log[k]
<1>1. CASE plan \in Range(log)
  BY <1>1 DEF AppendHealthy, Range
<1>2. CASE plan \notin Range(log)
  <2>1. AppendHealthy(log, plan) = Append(log, plan)
    BY <1>2 DEF AppendHealthy
  <2>2. \A k \in DOMAIN log : log[k] # plan
    BY <1>2 DEF Range
  <2> QED BY <2>1, <2>2 DEF IsInjective
<1> QED BY <1>1, <1>2

LEMMA LastIs ==
  ASSUME TypeOK, healthy # <<>>
  PROVE  /\ LastHealthyDesired \in Resources
         /\ \E k \in DOMAIN healthy : healthy[k].desired = LastHealthyDesired
<1>1. Len(healthy) \in DOMAIN healthy /\ healthy[Len(healthy)] \in PlanType
  BY DEF TypeOK
<1>2. LastHealthyDesired = healthy[Len(healthy)].desired
  BY DEF LastHealthyDesired, Last
<1> QED BY <1>1, <1>2 DEF PlanType

\* The two ways to plan.
LEMMA PlanSteps ==
  ASSUME TypeOK, Flow, Plan \/ PlanRollback
  PROVE  \E d \in Resources, approved \in BOOLEAN, rolling \in BOOLEAN :
           /\ StartPlan(d, approved, rolling)
           /\ pc \in {"plan", "rollback"} /\ (rolling => job.plan \in PlanType)
           /\ \/ ~rolling /\ d = job.desired /\ approved = job.approved
              \/ rolling /\ \E k \in DOMAIN healthy : healthy[k].desired = d
<1>1. CASE Plan
  <2>1. job.desired \in Resources /\ job.approved \in BOOLEAN
    BY DEF TypeOK
  <2> QED BY <1>1, <2>1 DEF Plan
<1>2. CASE PlanRollback
  <2>1. pc = "rollback" /\ healthy # <<>> /\ job.plan \in PlanType
    BY <1>2 DEF PlanRollback, Flow
  <2> QED BY <1>2, <2>1, LastIs DEF PlanRollback
<1> QED BY <1>1, <1>2

LEMMA TypeKept ==
  ASSUME ConstantsOK, TypeOK, Flow, StepsMake, CallOut, [Next]_vars
  PROVE  TypeOK'
<1>0. /\ infra \in Resources /\ healthy \in Seq(PlanType) /\ IsInjective(healthy) /\ history \in BOOLEAN
      /\ job \in JobType /\ todo \subseteq Names /\ (pc = "record") = (inflight # {})
      /\ drifted \in BOOLEAN /\ crashes \in Nat /\ Idle \in JobType
      /\ taskFile \in {"pinned", "changed"}
  BY IdleIs DEF TypeOK, JobType
<1>1. ASSUME NEW d \in Desireds, NEW a \in BOOLEAN, Reconcile(d, a) PROVE TypeOK'
  <2>1. d \in Resources
    BY DEF ConstantsOK
  <2>2. [Idle EXCEPT !.desired = d, !.approved = a, !.had_history = history] \in JobType
    BY <1>0, <2>1 DEF JobType
  <2>3. job' \in JobType
    BY <1>1, <2>2 DEF Reconcile
  <2> QED BY <1>0, <1>1, <2>3 DEF Reconcile, TypeOK, JobType, world, ledger
<1>2. CASE Plan \/ PlanRollback
  <2>1. PICK d \in Resources, approved \in BOOLEAN, rolling \in BOOLEAN :
          StartPlan(d, approved, rolling) /\ pc \in {"plan", "rollback"} /\ (rolling => job.plan \in PlanType)
    BY <1>2, PlanSteps
  <2>2. job'.target = PlanProvider(d, infra) => MutatingSteps(job'.target) \subseteq Names
    BY <1>0, PlanIs
  <2>3. job' \in JobType /\ todo' \subseteq Names /\ pc' \in {"idle", "health", "step"}
        /\ result' \in {result, "raised"}
    BY <1>0, <2>1, <2>2, Plans
  <2>4. UNCHANGED <<infra, taskFile, healthy, inflight, told, crashes>>
        /\ history' = TRUE /\ drifted' = FALSE
    BY <2>1, Plans
  <2>5. inflight' = {}
    BY <1>0, <2>1, <2>4
  <2> QED BY <2>3, <2>4, <2>5 DEF TypeOK, JobType
<1>3. CASE ObserveFails
  BY <1>0, <1>3 DEF ObserveFails, Return, TypeOK, JobType, world, effects, obs
<1>4. ASSUME NEW ok \in BOOLEAN, ApplyStep(ok) PROVE TypeOK'
  <2>1. PICK n, e : /\ n \in todo /\ inflight' = {e}
                    /\ \/ infra' = [infra EXCEPT ![n] = job.target.desired[n]]
                       \/ infra' = infra
    BY <1>4, Sends
  <2>2. UNCHANGED <<taskFile, healthy, history, job, todo, result, told, drifted, crashes>>
        /\ pc = "step" /\ pc' = "record"
    BY <1>4, Sends
  <2>3. job.target.desired \in Resources
    BY <2>2 DEF Flow, Planned, PlanType
  <2>4. infra' \in Resources
    BY <1>0, <2>1, <2>3 DEF Resources
  <2>5. inflight' # {}
    BY <2>1
  <2> QED BY <2>2, <2>4, <2>5 DEF TypeOK
<1>5. CASE Record
  <2>1. /\ UNCHANGED <<infra, taskFile, healthy, job, result, told, drifted, crashes>>
        /\ inflight' = {} /\ history' = TRUE /\ pc' \in {"failed", "health", "step"}
        /\ todo' \subseteq todo
    BY <1>5 DEF Record, world, obs
  <2> QED BY <2>1 DEF TypeOK
<1>6. CASE HealthFails
  BY <1>0, <1>6 DEF HealthFails, TypeOK, world, effects, obs
<1>7. CASE FinishConverged
  <2>1. job.plan \in PlanType
    BY <1>7 DEF FinishConverged, Flow
  <2>2. healthy' \in Seq(PlanType) /\ IsInjective(healthy')
    BY <1>0, <1>7, <2>1, AppendIs DEF FinishConverged
  <2>3. pc = "health" /\ inflight' = inflight /\ pc' = "idle" /\ job' = Idle /\ todo' = {}
        /\ result' \in {"converged", "raised"} /\ told' \in {told, "healed", "provisioned"}
        /\ UNCHANGED <<infra, taskFile, drifted, crashes>> /\ history' = TRUE
    BY <1>7 DEF FinishConverged, Notify, Return, world, obs
  <2> QED BY <1>0, <2>2, <2>3 DEF TypeOK, JobType
<1>8. CASE FinishRollback
  <2>1. job' \in JobType
    BY <1>0, <1>8 DEF FinishRollback, Return, JobType
  <2>2. pc = "health" /\ inflight' = inflight /\ pc' \in {"idle", "plan"} /\ todo' \in {todo, {}}
        /\ result' \in {result, "raised"} /\ told' \in {told, "rolled-back"}
        /\ UNCHANGED <<infra, taskFile, healthy, drifted, crashes>> /\ history' = TRUE
    BY <1>8 DEF FinishRollback, Return, world, obs
  <2> QED BY <1>0, <2>1, <2>2 DEF TypeOK, JobType
<1>9. CASE Rollback
  <2>1. job.attempts + 1 < MaxAttempts /\ job.attempts \in Nat /\ MaxAttempts \in Nat
    BY <1>0, <1>9 DEF Rollback, ReconcileAction, JobType, ConstantsOK
  <2>2. job.attempts + 1 \in 0..MaxAttempts
    BY <2>1
  <2>3. job' = [job EXCEPT !.attempts = @ + 1]
    BY <1>9 DEF Rollback
  <2>4. job' \in JobType
    BY <1>0, <2>2, <2>3 DEF JobType
  <2>5. pc = "failed" /\ pc' = "rollback" /\ UNCHANGED <<infra, taskFile, healthy, history, todo, inflight,
                                                         result, told, drifted, crashes>>
    BY <1>9 DEF Rollback, world, ledger, obs
  <2> QED BY <1>0, <2>4, <2>5 DEF TypeOK, JobType
<1>10. CASE Escalate
  <2>1. pc = "failed" /\ inflight' = inflight /\ pc' = "idle" /\ job' = Idle /\ todo' = {}
        /\ result' \in {"escalated", "raised"} /\ told' \in {told, "escalated"}
        /\ UNCHANGED <<infra, taskFile, healthy, drifted, crashes>> /\ history' = TRUE
    BY <1>10 DEF Escalate, Notify, Return, world, obs
  <2> QED BY <1>0, <2>1 DEF TypeOK, JobType
<1>11. CASE Teardown
  <2>1. Nothing \in Resources
    BY DEF Nothing, Resources
  <2> QED BY <1>0, <1>11, <2>1 DEF Teardown, TypeOK, effects, obs
<1>12. CASE Drift
  <2>1. infra' \in Resources
    BY <1>0, <1>12 DEF Drift, Resources
  <2> QED BY <1>12, <2>1 DEF Drift, TypeOK, ledger, effects
<1>13. CASE TaskFileChanges
  BY <1>13 DEF TaskFileChanges, TypeOK, ledger
<1>14. CASE Crash
  <2>1. pc' = "idle" /\ job' = Idle /\ todo' = {} /\ result' = "crashed" /\ inflight' = {}
        /\ crashes' = crashes + 1 /\ UNCHANGED <<infra, taskFile, healthy, history, told, drifted>>
    BY <1>14 DEF Crash, Return, world, ledger, effects
  <2> QED BY <1>0, <2>1 DEF TypeOK, JobType
<1>15. CASE UNCHANGED vars
  BY <1>15 DEF vars, TypeOK
<1> QED
  BY <1>1, <1>2, <1>3, <1>4, <1>5, <1>6, <1>7, <1>8, <1>9, <1>10, <1>11, <1>12, <1>13, <1>14, <1>15
  DEF Next, Progress

-----------------------------------------------------------------------------
(* Plans under way *)


LEMMA FlowKept ==
  ASSUME ConstantsOK, TypeOK, Flow, StepsMake, CallOut, [Next]_vars
  PROVE  Flow'
<1>1. ASSUME NEW d \in Desireds, NEW a \in BOOLEAN, Reconcile(d, a) PROVE Flow'
  BY <1>1 DEF Reconcile, Flow, Planned, Applying, Idle
<1>2. CASE Plan \/ PlanRollback
  <2>1. PICK d \in Resources, approved \in BOOLEAN, rolling \in BOOLEAN :
          /\ StartPlan(d, approved, rolling)
          /\ pc \in {"plan", "rollback"} /\ (rolling => job.plan \in PlanType)
          /\ (~rolling => d = job.desired)
    BY <1>2, PlanSteps
  <2>2. infra \in Resources
    BY DEF TypeOK
  <2>3. CASE pc' = "idle"
    BY <2>3 DEF Flow, Planned, Applying
  <2>4. CASE pc' # "idle"
    <3>1. /\ pc' = (IF todo' = {} THEN "health" ELSE "step") /\ result' = result
          /\ job'.desired = job.desired /\ job'.rolling = rolling /\ job'.plan \in PlanType
          /\ (~rolling => job'.plan = job'.target)
          /\ job'.target = PlanProvider(d, infra) /\ todo' = MutatingSteps(job'.target)
      BY <2>1, <2>4, Plans
    <3>2. job'.target \in PlanType /\ job'.target.desired = d /\ todo' \subseteq DOMAIN job'.target.steps
      BY <2>2, <3>1, PlanIs
    <3>3. result' = "none"
      BY <2>1, <3>1 DEF Flow
    <3> QED BY <2>1, <3>1, <3>2, <3>3 DEF Flow, Planned, Applying
  <2> QED BY <2>3, <2>4
<1>3. CASE ObserveFails \/ FinishConverged \/ Escalate \/ Crash
  <2>1. pc' = "idle"
    BY <1>3 DEF ObserveFails, FinishConverged, Escalate, Crash, Notify, Return
  <2> QED BY <2>1 DEF Flow, Planned, Applying
<1>4. ASSUME NEW ok \in BOOLEAN, ApplyStep(ok) PROVE Flow'
  <2>1. UNCHANGED <<healthy, job, todo, result>> /\ pc = "step" /\ pc' = "record"
    BY <1>4, Sends
  <2> QED BY <2>1 DEF Flow, Planned, Applying
<1>5. CASE Record
  <2>1. /\ UNCHANGED <<healthy, job, result>> /\ pc = "record" /\ todo' \subseteq todo
        /\ \/ pc' = "failed"
           \/ pc' = "health" /\ todo' = {}
           \/ pc' = "step" /\ todo' # {}
    BY <1>5 DEF Record
  <2> QED BY <2>1 DEF Flow, Planned, Applying
<1>6. CASE HealthFails
  BY <1>6 DEF HealthFails, Flow, Planned, Applying
<1>7. CASE FinishRollback
  <2>1. CASE pc' = "idle"
    BY <2>1 DEF Flow, Planned, Applying
  <2>2. CASE pc' # "idle"
    <3>1. pc = "health" /\ pc' = "plan" /\ job' = [job EXCEPT !.rolling = FALSE] /\ result' = result
      BY <1>7, <2>2 DEF FinishRollback, Return
    <3>2. job'.rolling = FALSE
      BY <3>1 DEF TypeOK
    <3> QED BY <3>1, <3>2 DEF Flow, Planned, Applying
  <2> QED BY <2>1, <2>2
<1>8. CASE Rollback
  <2>1. pc = "failed" /\ pc' = "rollback" /\ UNCHANGED <<healthy, result>> /\ healthy # <<>>
        /\ job'.plan = job.plan
    BY <1>8 DEF Rollback, ReconcileAction, ledger, TypeOK
  <2> QED BY <2>1 DEF Flow, Planned, Applying
<1>9. CASE Teardown
  BY <1>9 DEF Teardown, Flow, Planned, Applying
<1>10. CASE Drift \/ TaskFileChanges \/ UNCHANGED vars
  <2>1. UNCHANGED <<pc, job, todo, result, healthy>>
    BY <1>10 DEF Drift, TaskFileChanges, vars, ledger
  <2> QED BY <2>1 DEF Flow, Planned, Applying
<1> QED
  BY <1>1, <1>2, <1>3, <1>4, <1>5, <1>6, <1>7, <1>8, <1>9, <1>10 DEF Next, Progress

\* A step that neither plans, sends nor records leaves a plan under way as it is, or leaves it.
LEMMA Elsewhere ==
  ASSUME [Next]_vars
  PROVE  \/ Plan \/ PlanRollback \/ Record
         \/ \E ok \in BOOLEAN : ApplyStep(ok)
         \/ ~Planned' /\ pc' # "record" /\ UNCHANGED forced /\ gap' = gap
            /\ ((inflight' = inflight /\ crashes' = crashes) \/ Crash)
         \/ UNCHANGED <<pc, job, todo, inflight, gap, forced, crashes, healthy>>
            /\ ((infra' = infra /\ drifted' = drifted) \/ drifted' = TRUE \/ Teardown)
<1>1. ASSUME NEW d \in Desireds, NEW a \in BOOLEAN, Reconcile(d, a)
      PROVE  ~Planned' /\ pc' # "record" /\ UNCHANGED <<forced, gap, inflight, crashes>>
  BY <1>1 DEF Reconcile, Planned, effects
<1>2. CASE ObserveFails
  BY <1>2 DEF ObserveFails, Return, Planned, effects, obs
<1>3. CASE HealthFails
  BY <1>3 DEF HealthFails, Planned, effects, obs
<1>4. CASE FinishConverged
  BY <1>4 DEF FinishConverged, Notify, Return, Planned, effects, obs
<1>5. CASE FinishRollback
  BY <1>5 DEF FinishRollback, Return, Planned, effects, obs
<1>6. CASE Rollback
  BY <1>6 DEF Rollback, Planned, effects, obs
<1>7. CASE Escalate
  BY <1>7 DEF Escalate, Notify, Return, Planned, effects, obs
<1>8. CASE Crash
  BY <1>8 DEF Crash, Return, Planned, effects
<1>9. CASE Teardown
  BY <1>9 DEF Teardown, effects, obs
<1>10. CASE Drift
  BY <1>10 DEF Drift, effects, ledger
<1>11. CASE TaskFileChanges
  BY <1>11 DEF TaskFileChanges, ledger
<1>12. CASE UNCHANGED vars
  BY <1>12 DEF vars
<1> QED
  BY <1>1, <1>2, <1>3, <1>4, <1>5, <1>6, <1>7, <1>8, <1>9, <1>10, <1>11, <1>12 DEF Next, Progress

LEMMA StepsMakeKept ==
  ASSUME TypeOK, Flow, StepsMake, [Next]_vars
  PROVE  StepsMake'
<1>1. CASE Plan \/ PlanRollback
  <2>1. PICK d \in Resources, approved \in BOOLEAN, rolling \in BOOLEAN :
          StartPlan(d, approved, rolling) /\ (rolling => job.plan \in PlanType)
    BY <1>1, PlanSteps
  <2>2. infra \in Resources
    BY DEF TypeOK
  <2>3. CASE pc' = "idle"
    BY <2>3 DEF StepsMake, Applying
  <2>4. CASE pc' # "idle"
    <3>1. job'.target = PlanProvider(d, infra) /\ todo' = MutatingSteps(job'.target)
      BY <2>1, <2>4, Plans
    <3>2. job'.target.desired = d /\ \A n \in todo' :
            IF job'.target.steps[n].action = "delete" THEN d[n] = Absent
            ELSE job'.target.steps[n].digest = d[n]
      BY <2>2, <3>1, PlanIs
    <3> QED BY <3>2 DEF StepsMake
  <2> QED BY <2>3, <2>4
<1>2. ASSUME NEW ok \in BOOLEAN, ApplyStep(ok) PROVE StepsMake'
  <2>1. UNCHANGED <<job, todo>> /\ pc = "step"
    BY <1>2, Sends
  <2> QED BY <2>1 DEF StepsMake, Applying
<1>3. CASE Record
  <2>1. UNCHANGED job /\ pc = "record" /\ todo' \subseteq todo
    BY <1>3 DEF Record
  <2> QED BY <2>1 DEF StepsMake, Applying
<1>4. CASE ~Planned'
  BY <1>4 DEF StepsMake, Applying, Planned
<1>5. CASE UNCHANGED <<pc, job, todo>>
  BY <1>5 DEF StepsMake, Applying
<1> QED BY <1>1, <1>2, <1>3, <1>4, <1>5, Elsewhere

LEMMA CallOutKept ==
  ASSUME TypeOK, Flow, StepsMake, CallOut, [Next]_vars, TypeOK'
  PROVE  CallOut'
<1>1. CASE Plan \/ PlanRollback
  <2>1. PICK d \in Resources, approved \in BOOLEAN, rolling \in BOOLEAN :
          /\ StartPlan(d, approved, rolling) /\ pc \in {"plan", "rollback"}
          /\ (rolling => job.plan \in PlanType)
    BY <1>1, PlanSteps
  <2>2. inflight' = {}
    <3>1. inflight' = inflight
      BY <2>1, Plans
    <3>2. inflight = {}
      BY <2>1 DEF TypeOK
    <3> QED BY <3>1, <3>2
  <2> QED BY <2>2 DEF CallOut
<1>2. ASSUME NEW ok \in BOOLEAN, ApplyStep(ok) PROVE CallOut'
  <2>1. UNCHANGED todo
    BY <1>2, Sends
  <2>2. PICK n, e : n \in todo /\ inflight' = {e} /\ e.ok = ok /\ e.evidence.call.name = n
    BY <1>2, Sends
  <2> QED BY <2>1, <2>2 DEF CallOut, InFlight
<1>3. CASE Record
  BY <1>3 DEF Record, CallOut
<1>4. CASE pc' # "record"
  <2>1. inflight' = {}
    BY <1>4 DEF TypeOK
  <2> QED BY <2>1 DEF CallOut
<1>5. CASE UNCHANGED <<todo, inflight>>
  BY <1>5 DEF CallOut, InFlight
<1> QED BY <1>1, <1>2, <1>3, <1>4, <1>5, Elsewhere

-----------------------------------------------------------------------------
(* What converged means *)

LEMMA ReachedKept ==
  ASSUME TypeOK, Flow, StepsMake, CallOut, Reached, [Next]_vars
  PROVE  Reached'
<1>1. CASE Plan \/ PlanRollback
  <2>1. PICK d \in Resources, approved \in BOOLEAN, rolling \in BOOLEAN :
          StartPlan(d, approved, rolling) /\ (rolling => job.plan \in PlanType)
    BY <1>1, PlanSteps
  <2>2. infra \in Resources
    BY DEF TypeOK
  <2>3. CASE pc' = "idle"
    BY <2>3 DEF Reached, Planned
  <2>4. CASE pc' # "idle"
    <3>1. /\ job'.target = PlanProvider(d, infra) /\ todo' = MutatingSteps(job'.target)
          /\ pc' = (IF todo' = {} THEN "health" ELSE "step")
      BY <2>1, <2>4, Plans
    <3>2. infra' = infra
      BY <2>1, Plans
    <3>3. job'.target.desired = d /\ \A n \in Names \ todo' : infra[n] = d[n]
      BY <2>2, <3>1, PlanIs
    <3>4. pc' # "record"
      BY <3>1
    <3> QED BY <3>2, <3>3, <3>4 DEF Reached, Pending
  <2> QED BY <2>3, <2>4
<1>2. ASSUME NEW ok \in BOOLEAN, ApplyStep(ok) PROVE Reached'
  <2>1. UNCHANGED <<job, todo, drifted>> /\ pc = "step" /\ pc' = "record"
    BY <1>2, Sends
  <2>2. PICK n, e : /\ n \in todo /\ inflight' = {e} /\ e.ok = ok /\ e.evidence.call.name = n
                    /\ \/ infra' = [infra EXCEPT ![n] = job.target.desired[n]]
                       \/ ~ok /\ infra' = infra
    BY <1>2, Sends
  <2>3. Pending' = IF ok THEN todo \ {n} ELSE todo
    <3>1. Succeeded' = ok
      BY <2>2 DEF Succeeded
    <3>2. {x.evidence.call.name : x \in inflight'} = {n}
      BY <2>2
    <3> QED BY <2>1, <3>1, <3>2 DEF Pending
  <2>4. ASSUME ~drifted, NEW m \in Names \ Pending' PROVE infra'[m] = job.target.desired[m]
    <3>1. \A k \in Names \ todo : infra[k] = job.target.desired[k]
      BY <2>1, <2>4 DEF Reached, Planned, Pending
    <3>2. DOMAIN infra = Names
      BY DEF TypeOK, Resources
    <3> QED BY <2>2, <2>3, <2>4, <3>1, <3>2
  <2> QED BY <2>1, <2>4 DEF Reached
<1>3. CASE Record
  <2>1. UNCHANGED <<infra, job, drifted>> /\ pc = "record" /\ pc' # "record"
    BY <1>3 DEF Record, world, obs
  <2>2. CASE Succeeded
    <3>1. todo' = Pending /\ Pending' = todo'
      BY <1>3, <2>1, <2>2 DEF Record, Pending
    <3>2. ~drifted => \A m \in Names \ Pending : infra[m] = job.target.desired[m]
      BY <2>1 DEF Reached, Planned
    <3> QED BY <2>1, <3>1, <3>2 DEF Reached
  <2>3. CASE ~Succeeded
    <3>1. pc' = "failed"
      BY <1>3, <2>3 DEF Record
    <3> QED BY <3>1 DEF Reached, Planned
  <2> QED BY <2>2, <2>3
<1>4. CASE ~Planned' \/ drifted' = TRUE
  BY <1>4 DEF Reached
<1>5. CASE UNCHANGED <<pc, job, todo, inflight, infra, drifted>>
  BY <1>5 DEF Reached, Planned, Pending, Succeeded
<1>6. CASE Teardown
  BY <1>6 DEF Teardown, Reached, Planned
<1> QED BY <1>1, <1>2, <1>3, <1>4, <1>5, <1>6, Elsewhere

LEMMA ConvergedKept ==
  ASSUME TypeOK, Flow, StepsMake, Reached, ConvergedIsDesired, [Next]_vars
  PROVE  ConvergedIsDesired'
<1>1. CASE FinishConverged
  <2>1. pc = "health" /\ ~job.rolling /\ recent' = {job.desired} /\ infra' = infra /\ drifted' = drifted
    BY <1>1 DEF FinishConverged, world, obs
  <2>2. ASSUME ~drifted PROVE infra = job.desired
    <3>1. todo = {} /\ job.target.desired = job.desired
      BY <2>1 DEF Flow, Planned
    <3>2. \A n \in Names : infra[n] = job.desired[n]
      BY <2>1, <2>2, <3>1 DEF Reached, Planned, Pending
    <3>3. infra \in Resources /\ job.desired \in Resources
      BY DEF TypeOK
    <3> QED BY <3>2, <3>3 DEF Resources
  <2> QED BY <2>1, <2>2 DEF ConvergedIsDesired
<1>2. CASE result' # "converged"
  BY <1>2 DEF ConvergedIsDesired
<1>3. CASE drifted' = TRUE
  BY <1>3 DEF ConvergedIsDesired
<1>4. CASE UNCHANGED <<infra, drifted, result, recent>>
  BY <1>4 DEF ConvergedIsDesired
<1>5. pc # "idle" /\ result' = result => result' # "converged"
  BY DEF Flow
<1>6. ASSUME NEW d \in Desireds, NEW a \in BOOLEAN, Reconcile(d, a) PROVE result' # "converged"
  BY <1>6 DEF Reconcile
<1>7. CASE Plan \/ PlanRollback
  <2>1. PICK d \in Resources, approved \in BOOLEAN, rolling \in BOOLEAN :
          /\ StartPlan(d, approved, rolling) /\ pc \in {"plan", "rollback"}
          /\ (rolling => job.plan \in PlanType)
    BY <1>7, PlanSteps
  <2>2. result' \in {result, "raised"} /\ pc # "idle"
    BY <2>1, Plans
  <2> QED BY <1>2, <1>5, <2>2
<1>8. ASSUME NEW ok \in BOOLEAN, ApplyStep(ok) PROVE result' # "converged"
  <2>1. result' = result /\ pc # "idle"
    BY <1>8, Sends
  <2> QED BY <1>5, <2>1
<1>9. CASE ObserveFails \/ Escalate \/ Crash \/ Teardown
  <2>1. result' \in {"raised", "escalated", "crashed", "none"}
    BY <1>9 DEF ObserveFails, Escalate, Crash, Teardown, Notify, Return
  <2> QED BY <1>2, <2>1
<1>10. CASE Record \/ HealthFails \/ FinishRollback \/ Rollback
  <2>1. pc # "idle" /\ result' \in {result, "raised"}
    BY <1>10 DEF Record, HealthFails, FinishRollback, Rollback, Return
  <2> QED BY <1>2, <1>5, <2>1
<1>11. CASE Drift
  BY <1>3, <1>11 DEF Drift
<1>12. CASE TaskFileChanges \/ UNCHANGED vars
  BY <1>4, <1>12 DEF TaskFileChanges, vars
<1> QED
  BY <1>1, <1>2, <1>6, <1>7, <1>8, <1>9, <1>10, <1>11, <1>12 DEF Next, Progress

-----------------------------------------------------------------------------
(* The ledger and approval *)

\* A set with at most one member more than another has a cardinality of at most one more.
LEMMA OneMore ==
  ASSUME NEW S, NEW T, NEW x, IsFiniteSet(S), T \subseteq S \cup {x}
  PROVE  IsFiniteSet(T) /\ Cardinality(T) \in Nat /\ Cardinality(S) \in Nat
         /\ Cardinality(T) <= Cardinality(S) + 1
<1>1. IsFiniteSet(S \cup {x})
      /\ (Cardinality(S \cup {x}) = Cardinality(S) \/ Cardinality(S \cup {x}) = Cardinality(S) + 1)
  BY FS_AddElement, FS_CardinalityType
<1>2. IsFiniteSet(T) /\ Cardinality(T) <= Cardinality(S \cup {x})
  BY <1>1, FS_Subset
<1> QED BY <1>1, <1>2, FS_CardinalityType

LEMMA EvidenceKept ==
  ASSUME TypeOK, TypeOK', Flow, StepsMake, CallOut, Evidence, [Next]_vars
  PROVE  Evidence'
<1> DEFINE names == {e.evidence : e \in inflight}
           known == gap \ names
<1>0. IsFiniteSet(known) /\ Cardinality(known) \in Nat /\ Cardinality(known) <= crashes /\ crashes \in Nat
      /\ IsFiniteSet(gap)
  BY FS_Subset, FS_CardinalityType DEF Evidence, TypeOK
<1>1. CASE Plan \/ PlanRollback
  <2>1. PICK d \in Resources, approved \in BOOLEAN, rolling \in BOOLEAN :
          StartPlan(d, approved, rolling) /\ (rolling => job.plan \in PlanType)
    BY <1>1, PlanSteps
  <2>2. UNCHANGED <<gap, inflight, crashes>>
    BY <2>1, Plans
  <2> QED BY <2>2 DEF Evidence
<1>2. ASSUME NEW ok \in BOOLEAN, ApplyStep(ok) PROVE Evidence'
  <2>1. crashes' = crashes /\ pc = "step"
    BY <1>2, Sends
  <2>2. inflight = {}
    BY <2>1 DEF TypeOK
  <2>3. PICK n, e : n \in todo /\ inflight' = {e} /\ gap' \subseteq gap \cup {e.evidence}
    BY <1>2, Sends
  <2>4. known = gap /\ names' = {e.evidence}
    BY <2>2, <2>3
  <2>5. known' \subseteq gap
    BY <2>3, <2>4
  <2>6. IsFiniteSet(gap') /\ Cardinality(known') <= Cardinality(gap) /\ Cardinality(known') \in Nat
    <3>1. IsFiniteSet(gap \cup {e.evidence})
      BY <1>0, FS_AddElement
    <3>2. IsFiniteSet(gap')
      BY <2>3, <3>1, FS_Subset
    <3>3. IsFiniteSet(known') /\ Cardinality(known') <= Cardinality(gap)
      BY <1>0, <2>5, FS_Subset
    <3> QED BY <3>2, <3>3, FS_CardinalityType
  <2>7. Cardinality(gap) <= crashes /\ Cardinality(gap) \in Nat
    BY <1>0, <2>4
  <2> HIDE DEF known
  <2>8. Cardinality(known') <= crashes'
    BY <1>0, <2>1, <2>6, <2>7
  <2> QED BY <2>6, <2>8 DEF Evidence, known, names
<1>3. CASE Record
  <2>1. gap' = known /\ inflight' = {} /\ crashes' = crashes
    BY <1>3 DEF Record, obs
  <2>2. known' = known
    BY <2>1
  <2> QED BY <1>0, <2>1, <2>2 DEF Evidence
<1>4. CASE Crash
  <2>1. gap' = gap /\ inflight' = {} /\ crashes' = crashes + 1 /\ known' = gap
    BY <1>4 DEF Crash, effects
  <2>2. CASE inflight = {}
    <3>1. known = gap
      BY <2>2
    <3> HIDE DEF known
    <3>2. Cardinality(gap) <= crashes + 1
      BY <1>0, <3>1
    <3> QED BY <1>0, <2>1, <3>2 DEF Evidence, known
  <2>3. CASE inflight # {}
    <3>1. pc = "record"
      BY <2>3 DEF TypeOK
    <3>2. PICK e \in inflight : {x.evidence : x \in inflight} = {e.evidence}
      BY <3>1, OneCall
    <3>3. gap \subseteq known \cup {e.evidence}
      BY <3>2
    <3> HIDE DEF known
    <3>4. Cardinality(gap) \in Nat /\ Cardinality(known) \in Nat
          /\ Cardinality(gap) <= Cardinality(known) + 1
      BY <1>0, <3>3, OneMore
    <3>5. Cardinality(gap) <= crashes + 1
      BY <1>0, <3>4
    <3> QED BY <1>0, <2>1, <3>5 DEF Evidence, known
  <2> QED BY <2>2, <2>3
<1>5. CASE UNCHANGED <<gap, inflight, crashes>>
  BY <1>5 DEF Evidence
<1> QED BY <1>1, <1>2, <1>3, <1>4, <1>5, Elsewhere

\* The healthy entries are kept.
LEMMA HealthyGrows ==
  ASSUME TypeOK, Flow, [Next]_vars
  PROVE  \A k \in DOMAIN healthy : k \in DOMAIN healthy' /\ healthy'[k] = healthy[k]
<1>1. CASE FinishConverged
  <2>1. healthy' = AppendHealthy(healthy, job.plan) /\ job.plan \in PlanType
    BY <1>1 DEF FinishConverged, Flow
  <2> QED BY <2>1, AppendIs DEF TypeOK
<1>2. CASE Plan \/ PlanRollback
  BY <1>2 DEF Plan, PlanRollback, StartPlan
<1>3. ASSUME NEW d \in Desireds, NEW a \in BOOLEAN, Reconcile(d, a) PROVE healthy' = healthy
  BY <1>3 DEF Reconcile, ledger
<1>4. ASSUME NEW ok \in BOOLEAN, ApplyStep(ok) PROVE healthy' = healthy
  BY <1>4 DEF ApplyStep, ledger
<1>5. CASE ObserveFails \/ Record \/ HealthFails \/ FinishRollback \/ Rollback \/ Escalate
  BY <1>5 DEF ObserveFails, Record, HealthFails, FinishRollback, Rollback, Escalate, ledger
<1>6. CASE Teardown \/ Drift \/ TaskFileChanges \/ Crash \/ UNCHANGED vars
  BY <1>6 DEF Teardown, Drift, TaskFileChanges, Crash, ledger, vars
<1> QED BY <1>1, <1>2, <1>3, <1>4, <1>5, <1>6 DEF Next, Progress

LEMMA BackedKept ==
  ASSUME TypeOK, Flow, StepsMake, Backed, [Next]_vars
  PROVE  Backed'
<1>1. CASE Plan \/ PlanRollback
  <2>1. PICK d \in Resources, approved \in BOOLEAN, rolling \in BOOLEAN :
          /\ StartPlan(d, approved, rolling) /\ (rolling => job.plan \in PlanType)
          /\ \/ ~rolling /\ d = job.desired /\ approved = job.approved
             \/ rolling /\ \E k \in DOMAIN healthy : healthy[k].desired = d
    BY <1>1, PlanSteps
  <2>2. infra \in Resources /\ job.approved \in BOOLEAN
    BY DEF TypeOK
  <2>3. CASE pc' = "idle"
    BY <2>3 DEF Backed, Applying
  <2>4. CASE pc' # "idle"
    <3>1. /\ job'.target = PlanProvider(d, infra) /\ PlanAppliable(job'.target, approved)
          /\ job'.approved = job.approved
      BY <2>1, <2>4, Plans
    <3>2. healthy' = healthy
      BY <2>1, Plans
    <3>3. job'.target.desired = d
      BY <2>2, <3>1, PlanIs
    <3>4. CASE ~rolling
      BY <2>1, <2>2, <3>1, <3>4 DEF Backed, PlanAppliable
    <3>5. CASE rolling
      BY <2>1, <3>2, <3>5, <3>3 DEF Backed
    <3> QED BY <3>4, <3>5
  <2> QED BY <2>3, <2>4
<1>2. ASSUME NEW ok \in BOOLEAN, ApplyStep(ok) PROVE Backed'
  <2>1. UNCHANGED <<job, healthy>> /\ pc = "step"
    BY <1>2, Sends
  <2> QED BY <2>1 DEF Backed, Applying
<1>3. CASE Record
  <2>1. UNCHANGED <<job, healthy>> /\ pc = "record"
    BY <1>3 DEF Record, ledger
  <2> QED BY <2>1 DEF Backed, Applying
<1>4. CASE ~Planned'
  BY <1>4 DEF Backed, Applying, Planned
<1>5. CASE UNCHANGED <<pc, job, healthy>>
  BY <1>5 DEF Backed, Applying
<1> QED BY <1>1, <1>2, <1>3, <1>4, <1>5, Elsewhere

LEMMA ForcedKept ==
  ASSUME TypeOK, Flow, StepsMake, Backed, UnapprovedOnlyRollsBack, [Next]_vars
  PROVE  UnapprovedOnlyRollsBack'
<1>1. CASE UNCHANGED forced
  BY <1>1, HealthyGrows DEF UnapprovedOnlyRollsBack
<1>2. ASSUME NEW ok \in BOOLEAN, ApplyStep(ok) PROVE UnapprovedOnlyRollsBack'
  <2>1. healthy' = healthy /\ pc = "step"
    BY <1>2, Sends
  <2>2. PICK n \in todo :
          \/ forced' = forced
          \/ /\ job.target.steps[n].approval /\ ~job.approved
             /\ forced' = forced \cup {job.target.desired}
    BY <1>2, Sends
  <2>3. CASE forced' = forced
    BY <1>1, <2>3
  <2>4. CASE /\ job.target.steps[n].approval /\ ~job.approved
             /\ forced' = forced \cup {job.target.desired}
    <3>1. n \in DOMAIN job.target.steps
      BY <2>1 DEF Flow, Applying
    <3>2. ~PlanAppliable(job.target, FALSE)
      BY <2>4, <3>1 DEF PlanAppliable
    <3>3. \E k \in DOMAIN healthy : healthy[k].desired = job.target.desired
      BY <2>1, <2>4, <3>2 DEF Backed, Applying
    <3> QED BY <2>1, <2>4, <3>3 DEF UnapprovedOnlyRollsBack
  <2> QED BY <2>2, <2>3, <2>4
<1>3. CASE Plan \/ PlanRollback \/ Record
  <2>1. UNCHANGED forced
    BY <1>3 DEF Plan, PlanRollback, StartPlan, Record, effects
  <2> QED BY <1>1, <2>1
<1> QED BY <1>1, <1>2, <1>3, Elsewhere

-----------------------------------------------------------------------------
(* The theorems *)

LEMMA InitIInv == ConstantsOK /\ Init => IInv
<1> SUFFICES ASSUME ConstantsOK, Init PROVE IInv
  OBVIOUS
<1>1. TypeOK
  <2>1. Nothing \in Resources
    BY DEF Nothing, Resources
  <2>2. <<>> \in Seq(PlanType) /\ IsInjective(<<>>)
    BY DEF IsInjective
  <2>3. job \in JobType
    BY IdleIs DEF Init
  <2> QED BY <2>1, <2>2, <2>3 DEF Init, TypeOK, JobType
<1>2. Flow /\ StepsMake /\ CallOut /\ Reached /\ ConvergedIsDesired /\ Backed /\ UnapprovedOnlyRollsBack
  BY DEF Init, Flow, StepsMake, CallOut, Reached, ConvergedIsDesired, Backed,
         UnapprovedOnlyRollsBack, Planned, Applying
<1>3. Evidence
  <2>1. gap \ {e.evidence : e \in inflight} = {} /\ gap = {} /\ crashes = 0
    BY DEF Init
  <2> QED BY <2>1, FS_EmptySet DEF Evidence
<1> QED BY <1>1, <1>2, <1>3 DEF IInv

LEMMA NextIInv == ConstantsOK /\ IInv /\ [Next]_vars => IInv'
<1> SUFFICES ASSUME ConstantsOK, IInv, [Next]_vars PROVE IInv'
  OBVIOUS
<1>1. TypeOK'
  BY TypeKept DEF IInv
<1> QED BY <1>1, FlowKept, StepsMakeKept, CallOutKept, ReachedKept, ConvergedKept, EvidenceKept,
           BackedKept, ForcedKept DEF IInv

LEMMA Invariant == ConstantsOK => (Spec => []IInv)
<1> SUFFICES ASSUME ConstantsOK PROVE Spec => []IInv
  OBVIOUS
<1>1. Init => IInv
  BY InitIInv
<1>2. IInv /\ [Next]_vars => IInv'
  BY NextIInv
<1> QED BY <1>1, <1>2, PTL DEF Spec

\* A reconcile that reports "converged" left the world as it was asked for, whatever failed, half
\* succeeded, crashed or was rolled back before, unless somebody else changed it since it was
\* observed; and nothing that needs the caller's approval was done without it, except towards a state
\* that was healthy: reconcile, apply, assert_plan_appliable, _finish_converged.
THEOREM ConvergedMeansDesired ==
  ConstantsOK => (Spec => [](TypeOK /\ ConvergedIsDesired /\ UnapprovedOnlyRollsBack))
<1> SUFFICES ASSUME ConstantsOK PROVE Spec => [](TypeOK /\ ConvergedIsDesired /\ UnapprovedOnlyRollsBack)
  OBVIOUS
<1>1. Spec => []IInv
  BY Invariant
<1>2. IInv => TypeOK /\ ConvergedIsDesired /\ UnapprovedOnlyRollsBack
  BY DEF IInv
<1> QED BY <1>1, <1>2, PTL

\* Every change the runtime made under a plan is in the ledger, except that of the call in flight
\* and of one call per crash: _call records after adapter.call returned.
THEOREM EvidenceIsKept == ConstantsOK => (Spec => []EvidenceLagsByOne)
<1> SUFFICES ASSUME ConstantsOK PROVE Spec => []EvidenceLagsByOne
  OBVIOUS
<1>1. Spec => []IInv
  BY Invariant
<1>2. IInv => EvidenceLagsByOne
  <2> SUFFICES ASSUME IInv PROVE EvidenceLagsByOne
    OBVIOUS
  <2> DEFINE known == gap \ {e.evidence : e \in inflight}
  <2>1. IsFiniteSet(known) /\ Cardinality(known) \in Nat /\ Cardinality(known) <= crashes
        /\ crashes \in Nat /\ IsFiniteSet(gap)
    BY FS_Subset, FS_CardinalityType DEF IInv, Evidence, TypeOK
  <2>2. CASE pc # "record"
    <3>1. inflight = {}
      BY <2>2 DEF IInv, TypeOK
    <3>2. known = gap
      BY <3>1
    <3> QED BY <2>1, <2>2, <3>2 DEF EvidenceLagsByOne
  <2>3. CASE pc = "record"
    <3>1. PICK e \in inflight : {x.evidence : x \in inflight} = {e.evidence}
      BY <2>3, OneCall DEF IInv
    <3>2. gap \subseteq known \cup {e.evidence}
      BY <3>1
    <3> HIDE DEF known
    <3>3. Cardinality(gap) \in Nat /\ Cardinality(gap) <= Cardinality(known) + 1
      BY <2>1, <3>2, OneMore
    <3> QED BY <2>1, <2>3, <3>3 DEF EvidenceLagsByOne
  <2> QED BY <2>2, <2>3
<1> QED BY <1>1, <1>2, PTL
=============================================================================

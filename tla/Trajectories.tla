---------------------------- MODULE Trajectories ----------------------------
(* What is read out of a recorded trajectory of the legacy control plane: its summary                *)
(* (control_plane/summary.py) and the verdict that a replay is equivalent (control_plane/replay.py). *)
(* Two runs of a task are recorded one after the other, as manager.py records them: a single agent,   *)
(* a pipeline of agents, or a parallel group whose branches interleave.  Manager is the model of      *)
(* running a task with its faults; here a branch does what its script says, and nothing is refused    *)
(* by the store.                                                                                      *)
EXTENDS Naturals, Sequences, SequencesExt, FiniteSetsExt

CONSTANTS Tasks,  \* [kind, first, second]: the scripts of the branches in the two runs; a script is
                  \* [agent, known, calls, end, fits, output]: an agent the registry knows or not, calls
                  \* [tool, how], an end "accepted", "refused" or "limit", whether a stage's output fits
                  \* the schemas it is handed on under, and that output
          None

Kinds == {"single", "pipeline", "parallel"}
Runs == 1..2

VARIABLES
  task,
  run,      \* the run being recorded; 3 when both are
  log,      \* per run, its steps [status, what, of, agents]: a step of a tool's, the agents of a marker
  todo,     \* per branch of the run, the steps it has yet to record
  begun,    \* the run has recorded the markers before its branches
  outcome   \* per run, the stored outcome
vars == <<task, run, log, todo, begun, outcome>>

Scripts(r) == IF r = 1 THEN task.first ELSE task.second
Entry(status, what, of) == [status |-> status, what |-> what, of |-> of, agents |-> <<>>]
\* The number of a stage in its description is its place among the markers.
Marker(what, agents) == [status |-> "started", what |-> what, of |-> None, agents |-> agents]

-----------------------------------------------------------------------------
(* Recording: manager.py.                                                       *)

\* _mediate_tool, and what the agent yields next: an agent gives up on a call that failed when it
\* yields a step described as "model call failed".
EntriesOf(call) ==
  LET request == Entry("completed", "request", call.tool)
      failure == Entry("failed", "execution failed", call.tool)
  IN CASE call.how = "rejected" -> <<Entry("rejected", "request", call.tool)>>
       [] call.how = "ok" -> <<request, Entry("completed", "result", call.tool)>>
       [] call.how = "error" -> <<request, failure>>
       [] call.how = "given up" -> <<request, failure, Entry("completed", "model call failed", None)>>
       [] OTHER -> <<Entry("completed", "step", call.tool)>>
Cancelled(script) == IF script.end = "limit" THEN <<Entry("cancelled", "agent cancelled", None)>> ELSE <<>>
StepsOf(script) == FlattenSeq([i \in DOMAIN script.calls |-> EntriesOf(script.calls[i])]) \o Cancelled(script)

StageMarker(script) == Marker("stage", <<script.agent>>)
Init ==
  /\ task \in Tasks /\ run = 1 /\ begun = FALSE
  /\ log = [r \in Runs |-> <<>>] /\ outcome = [r \in Runs |-> None]
  /\ todo = [b \in DOMAIN task.first |-> StepsOf(task.first[b])]

\* How many of the agents resolve before the first that does not.
Resolved(scripts) == Max({0} \cup {n \in DOMAIN scripts : \A b \in 1..n : scripts[b].known})
\* _run_parallel_group announces the group and its branches until one does not resolve,
\* _run_pipeline its first stage; of an agent that is unknown at the start there is no step.
Announced(scripts) ==
  IF task.kind = "single" \/ Resolved(scripts) = 0 THEN <<>>
  ELSE LET markers == [b \in 1..Resolved(scripts) |-> StageMarker(scripts[b])]
       IN IF task.kind = "pipeline" THEN <<markers[1]>>
          ELSE <<Marker("group", [b \in DOMAIN scripts |-> scripts[b].agent])>> \o markers
\* The branches run: in a group only when every one of them resolves.
Runnable(scripts) == IF task.kind = "parallel" THEN Resolved(scripts) = Len(scripts) ELSE Resolved(scripts) > 0

Verified(output) == [kind |-> "verified", reason |-> None, output |-> output]
Failed(reason) == [kind |-> "failure", reason |-> reason, output |-> None]
\* _record_success and _record_failure; a replay of the task is the second run.
EndRun(result) ==
  /\ outcome' = [outcome EXCEPT ![run] = result]
  /\ run' = run + 1 /\ begun' = FALSE
  /\ todo' = [b \in DOMAIN task.second |-> StepsOf(task.second[b])]

Begin ==
  /\ run \in Runs /\ ~begun /\ Runnable(Scripts(run)) /\ begun' = TRUE
  /\ log' = [log EXCEPT ![run] = Announced(Scripts(run))]
  /\ UNCHANGED <<task, run, todo, outcome>>
\* _run_unknown_agent and the group that meets an unknown agent: no branch runs.
BeginUnknown ==
  /\ run \in Runs /\ ~begun /\ ~Runnable(Scripts(run))
  /\ log' = [log EXCEPT ![run] = Announced(Scripts(run))]
  /\ EndRun(Failed("unknown_agent")) /\ UNCHANGED task

\* _append_step_locked, from any branch of a group that has something to record.
Record(b) ==
  /\ run \in Runs /\ begun /\ b \in DOMAIN todo /\ todo[b] # <<>>
  /\ task.kind # "parallel" => b = 1
  /\ log' = [log EXCEPT ![run] = Append(@, Head(todo[b]))]
  /\ todo' = [todo EXCEPT ![b] = Tail(@)]
  /\ UNCHANGED <<task, run, begun, outcome>>

Accepted(script) == script.end = "accepted"
Reason(script) == IF script.end = "refused" THEN "verification_failed" ELSE "step_limit"
Judged(script) == IF Accepted(script) THEN Verified(script.output) ELSE Failed(Reason(script))
\* The join of a group: its outputs, or the first failure in declared order.
Joined(scripts) ==
  LET failed == {b \in DOMAIN scripts : ~Accepted(scripts[b])}
  IN IF failed = {} THEN Verified([b \in DOMAIN scripts |-> <<scripts[b].agent, scripts[b].output>>])
     ELSE Failed(Reason(scripts[Min(failed)]))

\* The stage a pipeline is in: todo holds it and the ones after it.
StageOf == Len(Scripts(run)) - Len(todo) + 1
Current == Scripts(run)[StageOf]
Following == Scripts(run)[StageOf + 1]
StageAccepted ==
  /\ run \in Runs /\ begun /\ task.kind = "pipeline" /\ Len(todo) > 1 /\ todo[1] = <<>>
  /\ Accepted(Current)
HandOff == Entry("completed", "hand-off", None)

\* _validate_handoff lets the output through, and the next stage begins ...
NextStage ==
  /\ StageAccepted /\ Current.fits /\ Following.known
  /\ todo' = Tail(todo)
  /\ log' = [log EXCEPT ![run] = @ \o <<HandOff, StageMarker(Following)>>]
  /\ UNCHANGED <<task, run, begun, outcome>>
\* ... or its agent is unknown; this end records no accounting, nor does the next.
NextUnknown ==
  /\ StageAccepted /\ Current.fits /\ ~Following.known
  /\ log' = [log EXCEPT ![run] = Append(@, HandOff)]
  /\ EndRun(Failed("unknown_agent")) /\ UNCHANGED task
HandOffRefused ==
  /\ StageAccepted /\ ~Current.fits
  /\ EndRun(Failed("handoff_failed")) /\ UNCHANGED <<task, log>>

\* The end of a run, with the marker after the branches of a composition.
Seal ==
  /\ run \in Runs /\ begun
  /\ IF task.kind = "pipeline" THEN todo[1] = <<>> /\ (Len(todo) = 1 \/ ~Accepted(Current))
     ELSE \A b \in DOMAIN todo : todo[b] = <<>>
  /\ log' = [log EXCEPT ![run] = CASE task.kind = "single" -> @
                                   [] task.kind = "pipeline" -> Append(@, Entry("completed", "accounting", None))
                                   [] OTHER -> Append(@, Entry("completed", "group end", None))]
  /\ EndRun(IF task.kind = "parallel" THEN Joined(Scripts(run)) ELSE Judged(Current))
  /\ UNCHANGED task
\* The process ends in the first run: what is stored is read as interrupted, and however it is run
\* again, the verdict is about that.
Interrupt ==
  /\ run = 1 /\ outcome' = [outcome EXCEPT ![1] = [kind |-> "interrupted", reason |-> None, output |-> None]]
  /\ run' = 3 /\ UNCHANGED <<task, log, todo, begun>>

Next ==
  \/ Begin \/ BeginUnknown \/ NextStage \/ NextUnknown \/ HandOffRefused \/ Seal \/ Interrupt
  \/ \E b \in 1..3 : Record(b)
Spec == Init /\ [][Next]_vars

-----------------------------------------------------------------------------
(* Reading: what summary.py and replay.py have in common.                      *)

Boundary(step) == step.what \in {"stage", "group", "group end"}
\* _is_parallel and _stage_kind: a pipeline has markers of stages only.
Grouped(steps) == \E i \in DOMAIN steps : steps[i].what = "group"

\* _compose_agents: the labels of the markers, each once; without one, the agent of the run, which
\* a composition does not have when its first agent is unknown.
Labels(steps, r) ==
  LET marked == FlattenSeq([i \in DOMAIN steps |-> steps[i].agents])
      Fresh(labels, agent) == IF Contains(labels, agent) THEN labels ELSE Append(labels, agent)
  IN IF marked # <<>> THEN FoldLeft(Fresh, <<>>, marked)
     ELSE IF task.kind = "single" THEN <<Scripts(r)[1].agent>> ELSE <<None>>

Requests(steps, tool) == {i \in DOMAIN steps : steps[i].what = "request" /\ steps[i].of = tool}
Tools(steps) == {steps[i].of : i \in {k \in DOMAIN steps : steps[k].what = "request"}}
\* What may answer a request: a later result of its tool, whoever asked for it, and a step
\* described as one of given_up, whoever yields it and whatever tool was asked for.
Answers(steps, i, given_up) ==
  {j \in DOMAIN steps :
     /\ j > i
     /\ \/ steps[j].what = "result" /\ steps[j].of = steps[i].of
        \/ steps[j].what \in given_up}
\* _paired_result_step of summary.py takes the next result, _paired_result of replay.py a failed
\* model call too.
ResultOnly == {}
ResultOrGivenUp == {"model call failed"}

\* _tool_pattern and _tool_summaries.
Pattern(steps, given_up) ==
  [tool \in Tools(steps) |->
     LET requests == Requests(steps, tool)
         rejected == {i \in requests : steps[i].status = "rejected"}
         answered == {i \in requests \ rejected : Answers(steps, i, given_up) # {}}
         failed == {i \in answered : steps[Min(Answers(steps, i, given_up))].status = "failed"}
     IN [requests |-> Cardinality(requests), succeeded |-> Cardinality(answered \ failed),
         failed |-> Cardinality(failed), rejected |-> Cardinality(rejected)]]

-----------------------------------------------------------------------------
(* replay.py                                                                    *)

\* _step_signature: who a marker names is left to _compose_agents.
Signature(step) == <<step.status, step.what, step.of>>
Signatures(steps) == [i \in DOMAIN steps |-> Signature(steps[i])]
\* A mistake: the work of concurrent branches is compared in the order it was recorded in.
SameStepsInOrder(one, two) == Signatures(one) = Signatures(two)
\* _steps_equivalent: the work of concurrent branches is compared as a bag.
SameSteps(one, two) ==
  IF Grouped(one) \/ Grouped(two)
  THEN /\ Signatures(SelectSeq(one, Boundary)) = Signatures(SelectSeq(two, Boundary))
       /\ LET Work(steps) == {i \in DOMAIN steps : ~Boundary(steps[i])}
              Times(steps, s) == Cardinality({i \in Work(steps) : Signature(steps[i]) = Signature(s)})
          IN \A s \in ToSet(one) \cup ToSet(two) : ~Boundary(s) => Times(one, s) = Times(two, s)
  ELSE Signatures(one) = Signatures(two)

\* _verify_against_stored, as the set of what differs.
Differences ==
  IF outcome[1].kind = "interrupted" THEN {"outcome"}
  ELSE (IF outcome[1].kind # outcome[2].kind THEN {"outcome"} ELSE {})
       \cup (IF outcome[1].kind = "failure" /\ outcome[1].reason # outcome[2].reason THEN {"failure_reason"} ELSE {})
       \cup (IF outcome[1].kind = "verified" /\ outcome[1].output # outcome[2].output THEN {"output"} ELSE {})
       \cup (IF SameSteps(log[1], log[2]) THEN {} ELSE {"steps"})
       \cup (IF Labels(log[1], 1) = Labels(log[2], 2) THEN {} ELSE {"agents"})
       \cup (IF Pattern(log[1], ResultOrGivenUp) = Pattern(log[2], ResultOrGivenUp) THEN {} ELSE {"tools"})
Passed == Differences = {}

-----------------------------------------------------------------------------
(* summary.py                                                                   *)

\* _sequential_stages and _parallel_stages.
Stages(r) ==
  LET marked == SelectSeq(log[r], LAMBDA s : s.what = "stage")
      cancelled == \E i \in DOMAIN log[r] : log[r][i].status = "cancelled"
      last == CASE outcome[r].kind = "verified" -> "completed" [] cancelled -> "cancelled" [] OTHER -> "failed"
  IN [i \in DOMAIN marked |-> IF Grouped(log[r]) \/ i = Len(marked) THEN last ELSE "completed"]

-----------------------------------------------------------------------------
TypeOK ==
  /\ task.kind \in Kinds /\ run \in 1..3 /\ begun \in BOOLEAN
  /\ \A r \in Runs : /\ outcome[r] = None \/ outcome[r].kind \in {"verified", "failure", "interrupted"}
                     /\ \A i \in DOMAIN log[r] : log[r][i].status \in
                          {"started", "completed", "failed", "rejected", "cancelled"}

Ended == run = 3 /\ outcome[1].kind # "interrupted"
Does(script, how) == \E i \in DOMAIN script.calls : script.calls[i].how = how
\* A failing call of one branch can be taken for one that another branch's steps answer.
CrossPaired(scripts) ==
  \E b, c \in DOMAIN scripts : b # c /\
    \/ \E i \in DOMAIN scripts[b].calls, j \in DOMAIN scripts[c].calls :
         scripts[b].calls[i].tool = scripts[c].calls[j].tool /\ scripts[b].calls[i].how = "error"
    \/ Does(scripts[b], "error") /\ Does(scripts[c], "given up")

\* A replay in which every branch does what it did is equivalent, however the branches interleave,
\* unless a failing call of one branch of a group can be paired with a step of another's.
SameRunPasses ==
  Ended /\ task.first = task.second /\ (task.kind = "parallel" => ~CrossPaired(task.first)) => Passed
\* An equivalent replay ended as the stored run did, and its agents called the same tools as often,
\* with as many of the calls rejected and failed.
PassMeansSame ==
  run = 3 /\ Passed =>
    /\ outcome[1] = outcome[2]
    /\ \A what \in {"request", "result", "execution failed"}, status \in {"completed", "rejected", "failed"}, tool \in Tools(log[1]) :
         LET Times(r) == Cardinality({i \in DOMAIN log[r] : log[r][i] = Entry(status, what, tool)}) IN Times(1) = Times(2)

\* A stage is handed on when it was accepted, its output fits, and a next stage begins with it.
HandedOn(scripts, i) ==
  Accepted(scripts[i]) /\ (i < Len(scripts) => scripts[i].fits /\ scripts[i + 1].known)
Reached(scripts) == {i \in DOMAIN scripts : scripts[1].known /\ \A j \in 1..(i - 1) : HandedOn(scripts, j)}
\* The summary of a run that ended lists the stages of a pipeline that began, and tells each that
\* was handed on as completed; the last one is told by how the run ended, so a stage that the
\* verifier accepted is "failed" if its output did not fit the next or that one's agent is unknown.
\* Of the branches of a group that were announced it tells how the group ended, the same of each.
StagesTold ==
  \A r \in {k \in Runs : outcome[k] # None /\ outcome[k].kind # "interrupted"} :
    LET scripts == Scripts(r)
        stages == Stages(r)
    IN CASE task.kind = "single" -> stages = <<>>
         [] task.kind = "pipeline" ->
              /\ DOMAIN stages = Reached(scripts)
              /\ \A i \in DOMAIN stages : stages[i] = CASE HandedOn(scripts, i) -> "completed"
                                                       [] scripts[i].end = "limit" -> "cancelled"
                                                       [] OTHER -> "failed"
         [] OTHER ->
              LET ran == Resolved(scripts) = Len(scripts)
              IN /\ Len(stages) = Resolved(scripts)
                 /\ \A i \in DOMAIN stages : stages[i] =
                      CASE ran /\ (\A b \in DOMAIN scripts : Accepted(scripts[b])) -> "completed"
                        [] ran /\ (\E b \in DOMAIN scripts : scripts[b].end = "limit") -> "cancelled"
                        [] OTHER -> "failed"

\* ToolSummary of contracts/summary.py: "succeeded: Number of successful tool executions", "failed:
\* Number of tool executions that errored".
SummaryCountsExecutions ==
  \A r \in {k \in Runs : outcome[k] # None /\ outcome[k].kind # "interrupted"} :
    \A tool \in Tools(log[r]) :
      LET Times(what) == Cardinality({i \in DOMAIN log[r] : log[r][i].what = what /\ log[r][i].of = tool})
      IN /\ Pattern(log[r], ResultOnly)[tool].succeeded = Times("result")
         /\ Pattern(log[r], ResultOnly)[tool].failed = Times("execution failed")
=============================================================================

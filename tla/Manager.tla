------------------------------ MODULE Manager ------------------------------
(***************************************************************************)
(* The Manager of control_plane/manager.py running one task after another: *)
(* a single agent, a pipeline of stages, or a parallel group, under its    *)
(* envelope, with every step and the outcome written to the trajectory     *)
(* store (control_plane/trajectory_store.py, FileTrajectoryStore).         *)
(*                                                                         *)
(* An agent is known by what next_step may return; the clock may pass any  *)
(* deadline at any check; a write may be refused by the store or raise an  *)
(* error of the operating system, perhaps in the middle of a line; and the *)
(* process may crash and start again over the same directory.              *)
(*                                                                         *)
(* A task t has a name, t.kind ("single", "pipeline" or "parallel"),       *)
(* t.max_steps (its envelope), t.policy ("none", "accepts" or "denies")    *)
(* and t.stages.  A stage has group (it is a ParallelComposition) and      *)
(* branches; without group there is one branch.  A branch has known (its   *)
(* agent is registered), granted (so is the tool it asks for, and the task *)
(* grants it), and max_steps (its effective envelope).                     *)
(***************************************************************************)
EXTENDS Integers, Sequences, FiniteSets

CONSTANTS
    Tasks,      \* the tasks that may be run
    Repeated,   \* those that another run may follow (bounds the model)
    MaxFaults,  \* bound on the writes that fail
    MaxRuns,    \* bound on the runs, over all restarts
    None

VARIABLES
    task,       \* the task being run
    pc,         \* where run is
    stage,      \* the stage it is at
    next,       \* the branch it marks or collects next
    why,        \* the reason of the failure it is about to record, or None
    result,     \* the Outcome it returns once that is known, Raised or None
    runSeq,     \* _run_seq
    runs,       \* the runs begun (bounds the model)
    steps,      \* the step records in memory
    disk,       \* the trajectory files: id -> records, or None
    faults,     \* history: the writes that were refused and that raised
    cancel,     \* cancel_event is set
    wpc,        \* per branch, where _execute_agent is
    used,       \* per branch, stage_step
    session,    \* per branch, its session: "none", "open" or "closed"
    fail,       \* per branch, why it fails, "raised", or None
    accepted,   \* history: the branches whose output the verifier accepted
    escaped     \* history: an exception of a verifier left _execute_agent

main    == <<task, pc, stage, next, why, result, runSeq, runs>>
log     == <<steps, disk, faults>>
threads == <<cancel, wpc, used, session, fail, accepted, escaped>>
vars    == <<main, log, threads>>

Branch == 1..2

Reason == {"internal", "unknown agent", "policy", "timeout", "step limit",
           "agent error", "verification", "cancelled", "hand-off"}

ASSUME ManagerConstants ==
    /\ MaxFaults \in Nat /\ MaxRuns \in Nat \ {0} /\ Repeated \subseteq Tasks
    /\ \A t \in Tasks :
          /\ t.kind \in {"single", "pipeline", "parallel"}
          /\ t.policy \in {"none", "accepts", "denies"}
          /\ t.max_steps \in Nat
          /\ Len(t.stages) \in Nat \ {0} /\ DOMAIN t.stages = 1..Len(t.stages)
          /\ t.kind # "pipeline" => Len(t.stages) = 1
          /\ \A i \in DOMAIN t.stages :
                /\ t.stages[i].group \in BOOLEAN
                /\ Len(t.stages[i].branches) \in Branch
                /\ DOMAIN t.stages[i].branches = 1..Len(t.stages[i].branches)
                /\ \A w \in DOMAIN t.stages[i].branches : t.stages[i].branches[w].max_steps \in Nat
                /\ t.kind = "single" => ~t.stages[i].group
                /\ t.kind = "parallel" => t.stages[i].group
                /\ ~t.stages[i].group => Len(t.stages[i].branches) = 1

Stage == task.stages[stage]
Branches == DOMAIN Stage.branches
LastStage == stage = Len(task.stages)
Composed == task.kind # "single"

-----------------------------------------------------------------------------
(* The store.  A write succeeds, is refused (TrajectoryStoreError), or      *)
(* raises (OSError) with nothing written ("os"), part of the line ("torn")  *)
(* or all of it ("unsynced").  The record that follows a torn line joins it *)
(* and is lost with it; load refuses a file with such a line.               *)

id == <<task.name, runSeq - 1>>
file == disk[id]

Torn == [kind |-> "torn"]
Broken == [kind |-> "broken"]
Step(i) == [kind |-> "step", index |-> i]
OutcomeOf(v) == [kind |-> "outcome", verdict |-> v]
Verdict == Reason \union {"verified"}
Record == {Torn, Broken} \union [kind : {"step"}, index : Nat] \union [kind : {"outcome"}, verdict : Verdict]

ASSUME NoneIsNothing ==
    /\ None \notin Reason \union {"raised"}
    /\ None \notin [verdict : Verdict \union {"raised"}, stored : BOOLEAN]
    /\ None \notin Seq(Record)

Corrupt(f) == \E i \in DOMAIN f : f[i] \in {Torn, Broken}
EndsTorn(f) == f # <<>> /\ f[Len(f)] = Torn
Written(f, r) ==
    IF ~EndsTorn(f) THEN Append(f, r)
    ELSE IF r = Torn THEN f ELSE [f EXCEPT ![Len(f)] = Broken]

has_outcome(f) == \E i \in DOMAIN f : f[i].kind = "outcome"

\* Mutant: a file that is there is begun again.
exists_never(i) == FALSE

exists(i) == disk[i] # None

Fault == {"none", "refused", "os", "torn", "unsynced"}
OSFault(f) == f \in {"os", "torn", "unsynced"}

Suffer(f) ==
    /\ f # "none" => faults.refused + faults.os < MaxFaults
    /\ faults' = [faults EXCEPT !.refused = IF f = "refused" THEN @ + 1 ELSE @,
                                !.os      = IF OSFault(f) THEN @ + 1 ELSE @]

write(r, f) ==
    /\ Suffer(f)
    /\ disk' = [disk EXCEPT ![id] = CASE f \in {"none", "unsynced"} -> Written(@, r)
                                      [] f = "torn" -> Written(@, Torn)
                                      [] OTHER -> @]

\* Mutant: a step is numbered within its stage.
append_local(what, w, f) ==
    /\ steps' = Append(steps, what)
    /\ write(Step(used[w]), f)

\* The record is in memory before it is written; its index is the length of
\* the list all branches share.  w is the branch, 1 for the Manager's markers.
append(what, w, f) ==
    /\ steps' = Append(steps, what)
    /\ write(Step(Len(steps)), f)

\* record_outcome for the verdict v: refused if the file has an outcome.
record_outcome(v, f) ==
    IF has_outcome(file)
    THEN f = "refused" /\ UNCHANGED <<disk, faults>>
    ELSE write(OutcomeOf(v), f)

-----------------------------------------------------------------------------
FreshThreads ==
    /\ cancel' = FALSE
    /\ wpc' = [w \in Branch |-> "off"]
    /\ used' = [w \in Branch |-> 0]
    /\ session' = [w \in Branch |-> "none"]
    /\ fail' = [w \in Branch |-> None]
    /\ accepted' = {}
    /\ escaped' = FALSE

Init ==
    /\ task \in Tasks /\ pc = "idle" /\ stage = 1 /\ next = 1
    /\ why = None /\ result = None
    /\ runSeq = 0 /\ runs = 0
    /\ steps = <<>>
    /\ disk = [i \in {t.name : t \in Tasks} \X (0..(MaxRuns - 1)) |-> None]
    /\ faults = [refused |-> 0, os |-> 0]
    /\ cancel = FALSE
    /\ wpc = [w \in Branch |-> "off"]
    /\ used = [w \in Branch |-> 0]
    /\ session = [w \in Branch |-> "none"]
    /\ fail = [w \in Branch |-> None]
    /\ accepted = {}
    /\ escaped = FALSE

\* run returns an Outcome.  stored says that it carries the trajectory's id.
Return(v, stored) ==
    /\ pc' = "returned"
    /\ result' = [verdict |-> v, stored |-> stored]
    /\ UNCHANGED <<task, stage, next, why, runSeq, runs>>

\* An exception leaves run.
Raised == [verdict |-> "raised", stored |-> FALSE]

Raise ==
    /\ pc' = "returned" /\ result' = Raised
    /\ UNCHANGED <<task, stage, next, why, runSeq, runs>>

Goto(p) ==
    /\ pc' = p
    /\ UNCHANGED <<task, stage, next, why, result, runSeq, runs>>

FailWith(p, r) ==
    /\ pc' = p /\ why' = r
    /\ UNCHANGED <<task, stage, next, result, runSeq, runs>>

\* What a persistence failure of one of the Manager's own records leads to.
Marked(f, refused, written) ==
    CASE OSFault(f)    -> Raise
      [] f = "refused" -> refused
      [] OTHER         -> written

-----------------------------------------------------------------------------
(* run, up to the first stage                                               *)

FirstKnown == task.stages[1].branches[1].known

Begin(f) ==
    /\ pc = "idle" /\ runs < MaxRuns
    /\ LET i == <<task.name, runSeq>> IN
       /\ exists(i) => f = "none"
       /\ Suffer(f)
       /\ disk' = [disk EXCEPT ![i] = CASE exists(i) \/ f \in {"refused", "os"} -> @
                                        [] f = "torn" -> <<Torn>>
                                        [] OTHER      -> <<>>]
       /\ result' = CASE exists(i) \/ f = "refused" ->
                            [verdict |-> "internal", stored |-> FALSE]
                      [] OSFault(f) -> Raised
                      [] OTHER      -> None
       /\ pc' = IF exists(i) \/ f # "none" THEN "returned"
                ELSE IF FirstKnown THEN "policy" ELSE "record"
    /\ why' = IF FirstKnown THEN None ELSE "unknown agent"
    /\ runSeq' = runSeq + 1 /\ runs' = runs + 1
    /\ UNCHANGED <<task, stage, next, steps, threads>>

\* _evaluate_task_policy, before any agent exists.
EvaluatePolicy(f) ==
    /\ pc = "policy"
    /\ IF task.policy = "none" THEN f = "none" /\ Goto("stage") /\ UNCHANGED log
       ELSE /\ append("marker", 1, f)
            /\ Marked(f, FailWith("record", "internal"),
                      IF task.policy = "denies" THEN FailWith("record", "policy")
                                                ELSE Goto("stage"))
    /\ UNCHANGED threads

\* _record_failure.
RecordFailure(f) ==
    /\ pc = "record"
    /\ record_outcome(why, f)
    /\ Marked(f, Return("internal", FALSE), Return(why, TRUE))
    /\ UNCHANGED <<steps, threads>>

\* _record_success.
RecordSuccess(f) ==
    /\ pc = "seal"
    /\ record_outcome("verified", f)
    /\ Marked(f, FailWith("record", "internal"), Return("verified", TRUE))
    /\ UNCHANGED <<steps, threads>>

-----------------------------------------------------------------------------
(* The stages, as run sees them                                             *)

\* The branches of ws begin _execute_agent, each with a new session.
Launch(ws) ==
    /\ wpc' = [w \in Branch |-> IF w \in ws THEN "start" ELSE "off"]
    /\ used' = [w \in Branch |-> 0]
    /\ session' = [w \in Branch |-> "none"]
    /\ fail' = [w \in Branch |-> None]
    /\ UNCHANGED <<cancel, accepted, escaped>>

\* A pipeline resolves the whole stage and marks its boundary.
BeginStage(f) ==
    /\ pc = "stage"
    /\ IF task.kind # "pipeline"
       THEN f = "none" /\ UNCHANGED log
            /\ Goto(IF Stage.group THEN "group" ELSE "agent")
       ELSE IF \E w \in Branches : ~Stage.branches[w].known
       THEN f = "none" /\ UNCHANGED log /\ FailWith("record", "unknown agent")
       ELSE /\ append("marker", 1, f)
            /\ Marked(f, FailWith("record", "internal"),
                      Goto(IF Stage.group THEN "group" ELSE "agent"))
    /\ IF pc' = "agent" THEN Launch({1}) ELSE UNCHANGED threads

\* A group failed: a pipeline records its accounting first.
GroupFails(r) == FailWith(IF task.kind = "pipeline" THEN "account" ELSE "record", r)

BeginGroup(f) ==
    /\ pc = "group"
    /\ append("marker", 1, f)
    /\ Marked(f, GroupFails("internal"),
              /\ pc' = "mark" /\ next' = 1
              /\ UNCHANGED <<task, stage, why, result, runSeq, runs>>)
    /\ UNCHANGED threads

\* The begin marker of each branch; after the last, the threads are dispatched.
MarkBranch(f) ==
    /\ pc = "mark"
    /\ IF ~Stage.branches[next].known
       THEN /\ f = "none" /\ GroupFails("unknown agent")
            /\ UNCHANGED <<log, threads>>
       ELSE LET last == next = Len(Stage.branches) IN
            /\ append("marker", 1, f)
            /\ Marked(f, GroupFails("internal"),
                      /\ pc' = IF last THEN "join" ELSE "mark"
                      /\ next' = IF last THEN 1 ELSE next + 1
                      /\ UNCHANGED <<task, stage, why, result, runSeq, runs>>)
            /\ IF pc' = "join" THEN Launch(Branches) ELSE UNCHANGED threads

\* The futures are collected in declared order; an exception sets the event.
Join ==
    /\ pc = "join" /\ wpc[next] = "done"
    /\ cancel' = (cancel \/ fail[next] = "raised")
    /\ pc' = IF next = Len(Stage.branches) THEN "end" ELSE "join"
    /\ next' = IF next = Len(Stage.branches) THEN next ELSE next + 1
    /\ UNCHANGED <<task, stage, why, result, runSeq, runs, log,
                   wpc, used, session, fail, accepted, escaped>>

ReasonOf(w) == IF fail[w] = "raised" THEN "internal" ELSE fail[w]

\* The first failure in declared order decides.
GroupFailure ==
    LET failed == {w \in Branches : fail[w] # None}
    IN  IF failed = {} THEN None
        ELSE ReasonOf(CHOOSE w \in failed : \A v \in failed : w <= v)

AfterStage ==
    IF task.kind # "pipeline" THEN "seal" ELSE IF LastStage THEN "account" ELSE "handoff"

EndGroup(f) ==
    /\ pc = "end"
    /\ append("marker", 1, f)
    /\ Marked(f, GroupFails("internal"),
              IF GroupFailure # None THEN GroupFails(GroupFailure) ELSE Goto(AfterStage))
    /\ UNCHANGED threads

\* An agent in the Manager's own thread has ended.  If it failed, result is
\* already the recorded Outcome.
AgentEnds ==
    /\ pc = "agent" /\ wpc[1] = "done"
    /\ CASE fail[1] = "raised" -> Raise
         [] fail[1] = None     -> Goto(AfterStage)
         [] OTHER -> Goto(IF Composed THEN "account" ELSE "returned")
    /\ UNCHANGED <<log, threads>>

\* _validate_handoff: the payload fits the schemas of the two stages, or not.
\* A join handed to a group is checked against its own shape only.
HandOff(fits, f) ==
    /\ pc = "handoff"
    /\ Stage.group /\ task.stages[stage + 1].group => fits
    /\ IF ~fits THEN f = "none" /\ UNCHANGED log /\ FailWith("record", "hand-off")
       ELSE /\ append("marker", 1, f)
            /\ Marked(f, FailWith("record", "internal"),
                      /\ pc' = "stage" /\ stage' = stage + 1
                      /\ UNCHANGED <<task, next, why, result, runSeq, runs>>)
    /\ UNCHANGED threads

\* _persist_stage_summary, after the last stage or after a failed one.
Account(f) ==
    /\ pc = "account"
    /\ append("marker", 1, f)
    /\ Marked(f, FailWith("record", "internal"),
              Goto(IF result # None THEN "returned"
                   ELSE IF why # None THEN "record" ELSE "seal"))
    /\ UNCHANGED threads

-----------------------------------------------------------------------------
(* _execute_agent, in a worker thread or (a stage that is no group) in run  *)

At(w, p) == wpc[w] = p /\ pc \in {"agent", "join"}
To(w, p) == wpc' = [wpc EXCEPT ![w] = p]
threadsBut == <<cancel, accepted, escaped>>

CloseSession(w) ==
    session' = [session EXCEPT ![w] = IF @ = "open" THEN "closed" ELSE @]

\* _deferred_or_recorded_failure: a worker leaves the record to the joiner.
Failing(w, r, p) ==
    /\ fail' = [fail EXCEPT ![w] = r]
    /\ To(w, IF Stage.group THEN "done" ELSE p)

\* _fail.
Fails(w, r, p) ==
    /\ CloseSession(w)
    /\ Failing(w, r, p)
    /\ UNCHANGED used

\* The handler of every exception raised inside the loop.
Excepts(w) == Fails(w, "agent error", "last record")

\* The session stays as it is.
Persistence(w, p) == Failing(w, "internal", p) /\ UNCHANGED <<used, session>>

Cancelling(w, r) ==
    /\ To(w, "cancel")
    /\ fail' = [fail EXCEPT ![w] = r]
    /\ UNCHANGED <<used, session>>

Start(w, opens) ==
    /\ At(w, "start")
    /\ IF opens THEN /\ session' = [session EXCEPT ![w] = "open"]
                     /\ To(w, "check")
                     /\ UNCHANGED <<used, fail>>
                ELSE Fails(w, "internal", "last record")
    /\ UNCHANGED <<main, log, threadsBut>>

OverComposition(w) == Composed /\ Len(steps) >= task.max_steps

OverStage(w) == used[w] >= Stage.branches[w].max_steps

\* The checks before every step; late says that a deadline has passed.
Check(w, late) ==
    /\ At(w, "check")
    /\ IF cancel /\ Stage.group THEN Cancelling(w, "cancelled")
       ELSE IF late THEN Cancelling(w, "timeout")
       ELSE IF OverComposition(w) \/ OverStage(w) THEN Cancelling(w, "step limit")
       ELSE To(w, "ask") /\ UNCHANGED <<used, session, fail>>
    /\ UNCHANGED <<main, log, threadsBut>>

\* session.next_step: "late" is a child that is silent beyond the deadline, or
\* an item that took longer than max_step_seconds.
Item == {"step", "tool", "result", "late", "error", "unsupported"}

NextStep(w, item) ==
    /\ At(w, "ask")
    /\ CASE item = "late" -> Cancelling(w, "timeout")
         [] item \in {"error", "unsupported"} -> Fails(w, "agent error", "record")
         [] OTHER ->
              /\ To(w, CASE item = "step"   -> "persist"
                         [] item = "result" -> "verify"
                         [] item = "tool"   ->
                                IF Stage.branches[w].granted THEN "request" ELSE "reject")
              /\ UNCHANGED <<used, session, fail>>
    /\ UNCHANGED <<main, log, threadsBut>>

Consumed(w, n) ==
    /\ used' = [used EXCEPT ![w] = @ + n]
    /\ To(w, "check")
    /\ UNCHANGED <<session, fail>>

\* _persist_step.
PersistStep(w, f) ==
    /\ At(w, "persist")
    /\ append("work", w, f)
    /\ CASE OSFault(f)    -> Excepts(w)
         [] f = "refused" -> To(w, "refused") /\ UNCHANGED <<used, session, fail>>
         [] OTHER         -> Consumed(w, 1)
    /\ UNCHANGED <<main, threadsBut>>

\* Mutant: a request for a tool that was not granted costs and records nothing.
RejectToolFree(w, f) ==
    /\ At(w, "reject") /\ f = "none"
    /\ Consumed(w, 0)
    /\ UNCHANGED <<main, log, threadsBut>>

\* _mediate_tool, for a tool that was not granted.
RejectTool(w, f) ==
    /\ At(w, "reject")
    /\ append("work", w, f)
    /\ CASE OSFault(f)    -> Excepts(w)
         [] f = "refused" -> Fails(w, "internal", "record")
         [] OTHER         -> Consumed(w, 1)
    /\ UNCHANGED <<main, threadsBut>>

\* _mediate_tool, for a granted one: the request, then the tool and its result.
RequestTool(w, f) ==
    /\ At(w, "request")
    /\ append("work", w, f)
    /\ CASE OSFault(f)    -> Excepts(w)
         [] f = "refused" -> Fails(w, "internal", "record")
         [] OTHER         -> To(w, "execute") /\ UNCHANGED <<used, session, fail>>
    /\ UNCHANGED <<main, threadsBut>>

\* The tool returned or raised ToolExecutionError.
ExecuteTool(w, f) ==
    /\ At(w, "execute")
    /\ append("work", w, f)
    /\ CASE OSFault(f)    -> Excepts(w)
         [] f = "refused" -> Fails(w, "internal", "record")
         [] OTHER         -> Consumed(w, 2)
    /\ UNCHANGED <<main, threadsBut>>

\* Any other exception of the tool's implementation.
ToolRaises(w) ==
    /\ At(w, "execute")
    /\ Excepts(w)
    /\ UNCHANGED <<main, log, threadsBut>>

\* _cancel: record, signal and close, record a forced termination, fail.
Cancel(w, f) ==
    /\ At(w, "cancel")
    /\ append("cancelled", w, f)
    /\ CASE OSFault(f)    -> Excepts(w)
         [] f = "refused" -> Persistence(w, "refused")
         [] OTHER         -> To(w, "close") /\ UNCHANGED <<used, session, fail>>
    /\ UNCHANGED <<main, threadsBut>>

CloseCancelled(w, forced) ==
    /\ At(w, "close")
    /\ CloseSession(w)
    /\ To(w, IF forced THEN "forced" ELSE IF Stage.group THEN "done" ELSE "record")
    /\ UNCHANGED <<main, log, used, fail, threadsBut>>

Forced(w, f) ==
    /\ At(w, "forced")
    /\ append("cancelled", w, f)
    /\ CASE OSFault(f)    -> Excepts(w)
         [] f = "refused" -> Persistence(w, "refused")
         [] OTHER         -> Failing(w, fail[w], "record") /\ UNCHANGED <<used, session>>
    /\ UNCHANGED <<main, threadsBut>>

\* The Outcome of an agent in the Manager's own thread.
Decide(v, f) ==
    /\ result' = IF Stage.group \/ OSFault(f) THEN result
                 ELSE [verdict |-> IF f = "none" THEN v ELSE "internal",
                       stored  |-> f = "none"]
    /\ UNCHANGED <<task, pc, stage, next, why, runSeq, runs>>

\* A refused step is recorded as the outcome at once, by a worker as well.
RecordRefused(w, f) ==
    /\ At(w, "refused")
    /\ record_outcome("internal", f)
    /\ Decide("internal", f)
    /\ IF OSFault(f) THEN Excepts(w)
       ELSE /\ To(w, "done")
            /\ fail' = [fail EXCEPT ![w] = "internal"]
            /\ UNCHANGED <<used, session>>
    /\ UNCHANGED <<steps, threadsBut>>

\* _record_failure inside the loop's try: an exception is tried once more.
RecordInLoop(w, f) ==
    /\ At(w, "record")
    /\ record_outcome(fail[w], f)
    /\ Decide(fail[w], f)
    /\ IF OSFault(f) THEN Excepts(w)
       ELSE To(w, "done") /\ UNCHANGED <<used, session, fail>>
    /\ UNCHANGED <<steps, threadsBut>>

\* _record_failure outside it.
RecordLast(w, f) ==
    /\ At(w, "last record")
    /\ record_outcome(fail[w], f)
    /\ Decide(fail[w], f)
    /\ To(w, "done")
    /\ fail' = [fail EXCEPT ![w] = IF OSFault(f) THEN "raised" ELSE @]
    /\ UNCHANGED <<steps, used, session, threadsBut>>

\* The verification gate.
Verify(w, says) ==
    /\ At(w, "verify")
    /\ CASE says = "refuses" -> Fails(w, "verification", "last record")
         [] says = "accepts" -> /\ CloseSession(w) /\ To(w, "done")
                                /\ UNCHANGED <<used, fail>>
         [] OTHER            -> /\ To(w, "done")
                                /\ fail' = [fail EXCEPT ![w] = "raised"]
                                /\ UNCHANGED <<used, session>>
    /\ accepted' = IF says = "accepts" THEN accepted \union {<<stage, w>>} ELSE accepted
    /\ escaped' = (escaped \/ says = "raises")
    /\ UNCHANGED <<main, log, cancel>>

-----------------------------------------------------------------------------
Reset ==
    /\ pc' = "idle" /\ stage' = 1 /\ next' = 1 /\ why' = None /\ result' = None
    /\ steps' = <<>>
    /\ FreshThreads
    /\ UNCHANGED <<runs, disk, faults>>
    /\ task' \in Repeated

MoreRuns == runs < MaxRuns /\ task \in Repeated

\* The caller has the Outcome and runs another task.
Again == pc = "returned" /\ MoreRuns /\ Reset /\ UNCHANGED runSeq

\* The process ends and starts again over the same directory.
Crash == pc # "idle" /\ MoreRuns /\ Reset /\ runSeq' = 0

\* No further task.
Rest == pc = "returned" /\ ~MoreRuns /\ UNCHANGED vars

MainStep ==
    \/ \E f \in Fault : \/ EvaluatePolicy(f) \/ RecordFailure(f) \/ RecordSuccess(f)
                        \/ BeginStage(f) \/ BeginGroup(f) \/ MarkBranch(f)
                        \/ EndGroup(f) \/ Account(f)
                        \/ \E fits \in BOOLEAN : HandOff(fits, f)
    \/ Join
    \/ AgentEnds

AgentStep(w) ==
    \/ \E b \in BOOLEAN : Start(w, b) \/ Check(w, b) \/ CloseCancelled(w, b)
    \/ \E item \in Item : NextStep(w, item)
    \/ \E f \in Fault : \/ PersistStep(w, f) \/ RejectTool(w, f) \/ RequestTool(w, f)
                        \/ ExecuteTool(w, f) \/ Cancel(w, f) \/ Forced(w, f)
                        \/ RecordRefused(w, f) \/ RecordInLoop(w, f) \/ RecordLast(w, f)
    \/ ToolRaises(w)
    \/ \E says \in {"accepts", "refuses", "raises"} : Verify(w, says)

Next ==
    \/ \E f \in Fault : Begin(f)
    \/ MainStep
    \/ \E w \in Branch : AgentStep(w)
    \/ Again \/ Crash \/ Rest

Spec == Init /\ [][Next]_vars

\* Every thread goes on: next_step answers or its deadline passes.
FairSpec == Spec /\ WF_vars(MainStep) /\ \A w \in Branch : WF_vars(AgentStep(w))

-----------------------------------------------------------------------------
Position == {"idle", "policy", "record", "seal", "stage", "group", "mark", "join",
             "end", "agent", "handoff", "account", "returned"}
AgentPosition == {"off", "start", "check", "ask", "persist", "reject", "request",
                  "execute", "cancel", "close", "forced", "refused", "record",
                  "last record", "verify", "done"}

\* The types.
TypeOK ==
    /\ task \in Tasks /\ pc \in Position
    /\ stage \in DOMAIN task.stages /\ next \in Branch
    /\ why \in Reason \union {None}
    /\ result \in {None, Raised} \union [verdict : Verdict, stored : BOOLEAN]
    /\ runSeq \in 0..MaxRuns /\ runs \in 0..MaxRuns
    /\ faults \in [refused : Nat, os : Nat]
    /\ \A i \in DOMAIN steps : steps[i] \in {"marker", "work", "cancelled"}
    /\ cancel \in BOOLEAN
    /\ wpc \in [Branch -> AgentPosition]
    /\ session \in [Branch -> {"none", "open", "closed"}]
    /\ fail \in [Branch -> Reason \union {None, "raised"}]
    /\ used \in [Branch -> Nat]

Returned(v) == pc = "returned" /\ result.verdict = v

\* "No verified success without its record": when run returns a verified result,
\* the file on disk holds every step of the run, numbered 0, 1, 2 ... across
\* stages and concurrent branches, then the verified outcome, and nothing else.
VerifiedIsComplete ==
    Returned("verified") =>
        file = Append([i \in 1..Len(steps) |-> Step(i - 1)], OutcomeOf("verified"))

\* "No partial success is returned": a verified result means that the verifier
\* accepted every branch of every stage, whatever order they ended in.
NoPartialSuccess ==
    Returned("verified") =>
        \A i \in DOMAIN task.stages :
            \A w \in DOMAIN task.stages[i].branches : <<i, w>> \in accepted

\* An Outcome that carries a trajectory id agrees with the file: the file has
\* exactly one outcome, the one returned, unless a torn line spoilt the file.
OutcomeAgrees ==
    pc = "returned" /\ result.stored =>
        \/ Corrupt(file)
        \/ /\ Cardinality({i \in DOMAIN file : file[i].kind = "outcome"}) = 1
           /\ \E i \in DOMAIN file : file[i] = OutcomeOf(result.verdict)

\* What the caller of run can rely on: the three together.
ResultsHold == VerifiedIsComplete /\ NoPartialSuccess /\ OutcomeAgrees

\* "No zombie under normal paths": when run has returned no session is left
\* open, except where the store refused a record or a verifier raised.
SessionsReleased ==
    pc = "returned" /\ faults.refused = 0 /\ ~escaped =>
        \A w \in Branch : session[w] # "open"

\* A branch may pass its own limit by one record, because a granted tool takes
\* two: stage_step is compared before the item is known.
StageBudget ==
    pc \in {"agent", "join", "end"} =>
        \A w \in Branches : used[w] <= Stage.branches[w].max_steps + 1

\* The parent envelope bounds the whole composition: no work is recorded beyond
\* its limit but by the branches already past the check, two records each.
CompositionBudget ==
    Composed => \A i \in DOMAIN steps :
        steps[i] = "work" =>
            Cardinality({j \in 1..i : steps[j] # "cancelled"})
                <= task.max_steps - 1 + 2 * Cardinality(Branches)

\* The store is append-only over runs, failures and restarts: no complete
\* record that is on disk is ever changed or removed.
Kept ==
    \A i \in DOMAIN disk : disk[i] # None =>
          \A j \in DOMAIN disk[i] : disk[i][j] # Torn =>
              disk'[i] # None /\ j \in DOMAIN disk'[i] /\ disk'[i][j] = disk[i][j]
RecordsKept == [][Kept]_vars
=============================================================================

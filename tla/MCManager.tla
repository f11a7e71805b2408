----------------------------- MODULE MCManager -----------------------------
(***************************************************************************)
(* Tasks for the Manager: single agents under each policy and with an      *)
(* unknown agent, a parallel group, and a pipeline of an agent and a       *)
(* group; the session it has with an agent (Execution); and what is read   *)
(* out of recorded runs (Trajectories, over the tasks of MCTrajectories).   *)
(* A behaviour is one of one part.                                          *)
(***************************************************************************)
EXTENDS Manager
CONSTANTS Backends, MaxSends, MaxNoise                            \* Execution
VARIABLES part,
          backend, at, late, sent, returned, termination, signal,
          stdin, queue, child, held, resumed, noise,              \* Execution
          trial, turn, trace, todo, begun, verdict                \* Trajectories
exec == <<backend, at, late, sent, returned, termination, signal, stdin, queue, child, held, resumed, noise>>
audit == <<trial, turn, trace, todo, begun, verdict>>

B(known, granted, n) == [known |-> known, granted |-> granted, max_steps |-> n]
Agent(b) == [group |-> FALSE, branches |-> <<b>>]
Group(b, c) == [group |-> TRUE, branches |-> <<b, c>>]
T(name, kind, policy, n, stages) ==
    [name |-> name, kind |-> kind, policy |-> policy, max_steps |-> n, stages |-> stages]

Single == T("single", "single", "accepts", 2, <<Agent(B(TRUE, TRUE, 2))>>)
Denied == T("denied", "single", "denies", 2, <<Agent(B(TRUE, FALSE, 2))>>)
Unknown == T("unknown", "single", "none", 2, <<Agent(B(FALSE, FALSE, 2))>>)
Short == T("short", "single", "accepts", 1, <<Agent(B(TRUE, TRUE, 1))>>)
Parallel == T("parallel", "parallel", "none", 5, <<Group(B(TRUE, TRUE, 3), B(TRUE, FALSE, 2))>>)
HalfKnown == T("halfknown", "parallel", "none", 5, <<Group(B(TRUE, FALSE, 1), B(FALSE, FALSE, 1))>>)
Pipeline == T("pipeline", "pipeline", "none", 7,
              <<Agent(B(TRUE, FALSE, 1)), Group(B(TRUE, FALSE, 1), B(TRUE, FALSE, 1))>>)
NextUnknown == T("nextunknown", "pipeline", "none", 4, <<Agent(B(TRUE, FALSE, 1)), Agent(B(FALSE, FALSE, 1))>>)

Narrowing == T("narrowing", "pipeline", "none", 5,
               <<Group(B(TRUE, FALSE, 2), B(TRUE, FALSE, 1)), Agent(B(TRUE, FALSE, 1))>>)

AllTasks == {Single, Denied, Unknown, Parallel, HalfKnown, Pipeline, NextUnknown, Narrowing, Short}
RunAgain == {Short, NextUnknown}

X == INSTANCE Execution
ASSUME SessionConstants == X!ExecutionConstants
Trials == INSTANCE MCTrajectories WITH
            Tasks <- {}, task <- trial, run <- turn, log <- trace, outcome <- verdict
V == INSTANCE Trajectories WITH
       Tasks <- Trials!MCTasks, task <- trial, run <- turn, log <- trace, outcome <- verdict

OffManager == Init /\ task = Short
OffExec == /\ backend = 0 /\ at = 0 /\ late = 0 /\ sent = 0 /\ returned = 0 /\ termination = 0 /\ signal = 0
           /\ stdin = 0 /\ queue = 0 /\ child = 0 /\ held = 0 /\ resumed = 0 /\ noise = 0
OffAudit == trial = 0 /\ turn = 0 /\ trace = 0 /\ todo = 0 /\ begun = 0 /\ verdict = 0

InitLegacy ==
  \/ part = "manager" /\ Init /\ OffExec /\ OffAudit
  \/ part = "session" /\ X!Init /\ OffManager /\ OffAudit
  \/ part = "audit" /\ V!Init /\ OffManager /\ OffExec
\* The sessions and the runs that are over.
Over ==
  \/ part = "session" /\ at \in {"closed", "raised", "unborn"}
  \/ part = "audit" /\ turn = 3
NextLegacy ==
  \/ part = "manager" /\ Next /\ UNCHANGED <<part, exec, audit>>
  \/ part = "session" /\ X!Next /\ UNCHANGED <<part, vars, audit>>
  \/ part = "audit" /\ V!Next /\ UNCHANGED <<part, vars, exec>>
  \/ Over /\ UNCHANGED <<part, vars, exec, audit>>
FairLegacy ==
  /\ WF_vars(part = "manager" /\ MainStep)
  /\ \A w \in Branch : WF_vars(part = "manager" /\ AgentStep(w))
  /\ WF_exec(part = "session" /\ X!Progress)
SpecLegacy == InitLegacy /\ [][NextLegacy]_<<part, vars, exec, audit>> /\ FairLegacy

(* See Manager and Execution: sessions are released, branches and            *)
(* compositions keep their budgets, what an agent yields is paired with what *)
(* it was sent, and a closed session has left no child process behind.       *)
SessionsHold ==
  CASE part = "manager" -> TypeOK /\ SessionsReleased /\ StageBudget /\ CompositionBudget
    [] part = "session" -> X!TypeOK /\ X!ItemsAnswerTheirValues /\ X!ClosedIsReaped
    [] OTHER -> TRUE
(* See Trajectories: a replay that did the same passes, one that passes did  *)
(* the same, and a summary tells of each stage that began whether it was     *)
(* accepted and handed on, of each branch of a group how the group ended.    *)
ReadAsRecorded ==
  part = "audit" => V!TypeOK /\ V!SameRunPasses /\ V!PassMeansSame /\ V!StagesTold
(* A run ends, whatever its agents, tools, verifiers and the store answer or *)
(* raise, provided that those in its process return; a session's read and    *)
(* close end, whatever its child does.                                       *)
Busy ==
  CASE part = "manager" -> pc \notin {"idle", "returned"} [] part = "session" -> X!Waiting [] OTHER -> FALSE
EveryRunReturns == Busy ~> ~Busy
=============================================================================

------------------------------ MODULE Execution ------------------------------
(* Agent sessions of the legacy control plane: control_plane/execution.py, its child process       *)
(* worker.py, and the calls _execute_agent of manager.py makes.  Parent and child exchange JSON     *)
(* lines over pipes; the deadline of the envelope and the grace periods of close pass at any time.  *)
(* An agent may yield, return, raise, print, hang or take its process down at every resumption.     *)
(* A line stands for its decoded message; "noise" is one that does not decode to a message.         *)
EXTENDS Naturals, Sequences, SequencesExt

CONSTANTS Backends,           \* which of "inproc" and "subprocess" to consider
          MaxSends, MaxNoise, \* bounds: the values sent to an agent, the lines it prints itself
          None

ExecutionConstants == Backends \subseteq {"inproc", "subprocess"} /\ MaxSends \in Nat /\ MaxNoise \in Nat

Eof == [type |-> "eof", of |-> 0]
Line(type, value) == [type |-> type, of |-> value]
Cancelled == 0                       \* the values sent are numbered from 1

VARIABLES
  backend,      \* which backend the session is of
  at,           \* the session: where its caller is
  late,         \* the deadline has passed
  sent,         \* history: the values delivered to the session
  returned,     \* history: what next_step returned
  termination,  \* how close found the child
  signal,       \* the strongest signal sent to the child
  stdin,        \* the lines the child has not read
  queue,        \* _stdout_queue
  child,        \* the child process
  held,         \* the value it resumes its agent with
  resumed,      \* history: the values its agent was resumed with
  noise         \* counts the lines of the agent's own
session == <<at, late, sent, returned, termination, signal>>
process == <<child, held, resumed, noise>>
vars == <<backend, session, stdin, queue, process>>

Init ==
  /\ backend \in Backends
  /\ at = IF backend = "inproc" THEN "idle" ELSE "new"
  /\ child = IF backend = "inproc" THEN "none" ELSE "starting"
  /\ late = FALSE /\ sent = <<>> /\ returned = <<>> /\ termination = None /\ signal = "none"
  /\ stdin = <<>> /\ queue = <<>> /\ held = None /\ resumed = <<>> /\ noise = 0

Alive == child # "gone"
Goto(from, to) == at = from /\ at' = to

-----------------------------------------------------------------------------
(* InProcessSession: the agent is resumed in the caller's thread.               *)

InprocNext(how) ==
  LET v == Len(sent) + 1
  IN /\ backend = "inproc" /\ v <= MaxSends
     /\ Goto("idle", CASE how = "step" -> "idle" [] how = "result" -> "finished" [] OTHER -> "failed")
     /\ sent' = Append(sent, v) /\ resumed' = Append(resumed, v)
     /\ returned' = IF how = "raise" THEN returned ELSE Append(returned, Line(how, v))
     /\ UNCHANGED <<backend, late, termination, signal, stdin, queue, child, held, noise>>
\* Cancelled is sent into the generator, whatever it does with it; then the generator is closed.
InprocCancel ==
  /\ backend = "inproc" /\ Goto("idle", "closed")
  /\ sent' = Append(sent, Cancelled) /\ resumed' = Append(resumed, Cancelled)
  /\ UNCHANGED <<backend, late, returned, termination, signal, stdin, queue, child, held, noise>>
InprocClose ==
  /\ backend = "inproc" /\ at \in {"idle", "finished", "failed"} /\ at' = "closed"
  /\ UNCHANGED <<backend, late, sent, returned, termination, signal, stdin, queue, process>>

-----------------------------------------------------------------------------
(* SubprocessSession                                                            *)

\* __init__ writes the start message: it raises when the message cannot be encoded or the child is
\* gone, and the caller has no session to close, so a child that is alive waits for its start for ever.
Open(encodable) ==
  LET written == encodable /\ Alive
  IN /\ backend = "subprocess" /\ Goto("new", IF written THEN "idle" ELSE "unborn")
     /\ stdin' = IF written THEN Append(stdin, Line("start", None)) ELSE stdin
     /\ UNCHANGED <<backend, late, sent, returned, termination, signal, queue, process>>

\* next_step: a value that cannot be encoded or a broken pipe raises, and nothing is sent.
Send(encodable) ==
  LET v == Len(sent) + 1
      written == encodable /\ Alive
  IN /\ backend = "subprocess" /\ v <= MaxSends
     /\ Goto("idle", IF written THEN "read" ELSE "failed")
     /\ stdin' = IF written THEN Append(stdin, Line("send", v)) ELSE stdin
     /\ sent' = IF written THEN Append(sent, v) ELSE sent
     /\ UNCHANGED <<backend, late, returned, termination, signal, queue, process>>

\* _read and the rest of next_step: the next line of the queue, whatever it answers; anything but a
\* step or a result raises.
Read ==
  /\ at = "read" /\ ~late /\ queue # <<>>
  /\ LET line == Head(queue)
     IN /\ at' = CASE line.type = "step" -> "idle" [] line.type = "result" -> "finished" [] OTHER -> "failed"
        /\ returned' = IF line.type \in {"step", "result"} THEN Append(returned, line) ELSE returned
  /\ queue' = Tail(queue)
  /\ UNCHANGED <<backend, late, sent, termination, signal, stdin, process>>
\* The deadline is one point in time for all reads of the session.
Expire == ~late /\ late' = TRUE
          /\ UNCHANGED <<backend, at, sent, returned, termination, signal, stdin, queue, process>>
Timeout ==
  /\ late /\ Goto("read", "timedout")
  /\ UNCHANGED <<backend, late, sent, returned, termination, signal, stdin, queue, process>>

\* _execute_agent: a run out of budget, or one whose child is silent, is cancelled.
Cancel ==
  /\ backend = "subprocess" /\ at \in {"idle", "timedout"} /\ at' = "closing"
  /\ stdin' = IF Alive THEN Append(stdin, Line("send", Cancelled)) ELSE stdin
  /\ sent' = IF Alive THEN Append(sent, Cancelled) ELSE sent
  /\ UNCHANGED <<backend, late, returned, termination, signal, queue, process>>
Release ==
  /\ backend = "subprocess" /\ at \in {"idle", "finished", "failed"} /\ at' = "closing"
  /\ UNCHANGED <<backend, late, sent, returned, termination, signal, stdin, queue, process>>

\* close: a child that is gone is reaped; any other is asked, then terminated, then killed, with a
\* grace period each time.
Close ==
  /\ Goto("closing", IF Alive THEN "asked" ELSE "closed")
  /\ termination' = IF Alive THEN termination ELSE "completed"
  /\ stdin' = IF Alive THEN Append(stdin, Line("close", None)) ELSE stdin
  /\ UNCHANGED <<backend, late, sent, returned, signal, queue, process>>
Reap(from, how) ==
  /\ ~Alive /\ Goto(from, "closed")
  /\ termination' = how
  /\ UNCHANGED <<backend, late, sent, returned, signal, stdin, queue, process>>
GraceOver(from, to, s) ==
  /\ Alive /\ Goto(from, to)
  /\ signal' = s
  /\ UNCHANGED <<backend, late, sent, returned, termination, stdin, queue, process>>
CloseForcibly ==
  \/ Reap("asked", "cooperative") \/ GraceOver("asked", "terminated", "term")
  \/ Reap("terminated", "forced") \/ GraceOver("terminated", "killed", "kill")
  \/ Reap("killed", "forced") \/ GraceOver("killed", "raised", "kill")

-----------------------------------------------------------------------------
(* worker.py in the child.  Its end puts Eof behind its lines.                  *)

Boot(ok) ==
  /\ child = "starting" /\ stdin # <<>> /\ stdin' = Tail(stdin)
  /\ child' = IF ok THEN "reading" ELSE "exiting"
  /\ queue' = IF ok THEN queue ELSE Append(queue, Line("error", None))
  /\ UNCHANGED <<backend, session, held, resumed, noise>>
\* The value is read before the agent is resumed; close ends the loop.
Take ==
  /\ child = "reading" /\ stdin # <<>> /\ stdin' = Tail(stdin)
  /\ child' = IF Head(stdin).type = "close" THEN "exiting" ELSE "running"
  /\ held' = IF Head(stdin).type = "close" THEN None ELSE Head(stdin).of
  /\ UNCHANGED <<backend, session, queue, resumed, noise>>
\* A mistake: the agent is resumed with the value of the turn before.
ResumeEarly(how) ==
  /\ child = "running"
  /\ child' = IF how = "step" THEN "reading" ELSE "exiting"
  /\ queue' = Append(queue, Line(how, IF resumed = <<>> THEN held ELSE Last(resumed)))
  /\ resumed' = Append(resumed, IF resumed = <<>> THEN held ELSE Last(resumed))
  /\ UNCHANGED <<backend, session, stdin, held, noise>>
Resume(how) ==
  /\ child = "running"
  /\ child' = IF how = "step" THEN "reading" ELSE "exiting"
  /\ queue' = Append(queue, Line(how, held))
  /\ resumed' = Append(resumed, held)
  /\ UNCHANGED <<backend, session, stdin, held, noise>>
\* An agent prints to stdout, which is the channel to the parent.
Chatter ==
  /\ child = "running" /\ noise < MaxNoise /\ noise' = noise + 1
  /\ queue' = Append(queue, Line("noise", None))
  /\ UNCHANGED <<backend, session, stdin, child, held, resumed>>
\* The process ends by itself, by a crash that may tear its last line, or by a signal.
Exit ==
  /\ child = "exiting" /\ child' = "gone" /\ queue' = Append(queue, Eof)
  /\ UNCHANGED <<backend, session, stdin, held, resumed, noise>>
Crash(torn) ==
  /\ child \in {"starting", "reading", "running"} /\ child' = "gone"
  /\ torn => child = "running"
  /\ queue' = IF torn THEN queue \o <<Line("noise", None), Eof>> ELSE Append(queue, Eof)
  /\ UNCHANGED <<backend, session, stdin, held, resumed, noise>>
Die ==
  /\ Alive /\ signal # "none" /\ child' = "gone" /\ queue' = Append(queue, Eof)
  /\ UNCHANGED <<backend, session, stdin, held, resumed, noise>>

-----------------------------------------------------------------------------
Child ==
  \/ \E ok \in BOOLEAN : Boot(ok)
  \/ Take \/ Chatter \/ Exit \/ Die
  \/ \E how \in {"step", "result", "error"} : Resume(how)
  \/ \E torn \in BOOLEAN : Crash(torn)
Closing == Close \/ CloseForcibly
Caller ==
  \/ \E how \in {"step", "result", "raise"} : InprocNext(how)
  \/ InprocCancel \/ InprocClose
  \/ Read \/ Timeout \/ Cancel \/ Release \/ Closing
  \/ \E encodable \in BOOLEAN : Open(encodable) \/ Send(encodable)
Next == Caller \/ Expire \/ Child

\* The caller's thread and the clock go on; nothing is assumed of the child, which may hang.
Progress == Caller \/ (at = "read" /\ Expire)
Spec == Init /\ [][Next]_vars /\ WF_vars(Progress)

-----------------------------------------------------------------------------
TypeOK ==
  /\ backend \in Backends /\ late \in BOOLEAN
  /\ at \in {"new", "unborn", "idle", "read", "timedout", "finished", "failed", "closing", "asked",
             "terminated", "killed", "closed", "raised"}
  /\ child \in {"none", "starting", "reading", "running", "exiting", "gone"}
  /\ termination \in {None, "completed", "cooperative", "forced"} /\ signal \in {"none", "term", "kill"}
  /\ \A line \in ToSet(stdin) : line.type \in {"start", "send", "close"}
  /\ \A line \in ToSet(queue) : line.type \in {"step", "result", "error", "noise", "eof"}

\* An agent is resumed with the values of its caller, each once and in order, and the n-th item the
\* caller gets is what the agent did with the n-th value, although answers are matched by nothing
\* but their place, agents print into the channel, and a cancellation crosses an answer.
ItemsAnswerTheirValues ==
  /\ IsPrefix(resumed, sent)
  /\ \A i \in DOMAIN returned : returned[i].of = i /\ i \in DOMAIN resumed /\ resumed[i] = i

\* close leaves no process behind, whatever the child does with its signals, and says "forced"
\* exactly if it had to send one.
ClosedIsReaped ==
  at = "closed" /\ backend = "subprocess" => child = "gone" /\ (termination = "forced" <=> signal # "none")

\* No call waits for ever on a silent child: a read ends by the deadline, a close by its graces.
Waiting == at \in {"read", "closing", "asked", "terminated", "killed"}
=============================================================================

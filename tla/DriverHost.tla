----------------------------- MODULE DriverHost -----------------------------
(***************************************************************************)
(* CbpDriverHost (cbp/driverhost.py): threads of the ACP and MCP servers   *)
(* submit commands to a worker thread that owns a CbpDriver, and close the *)
(* host.  Every read or write of a shared attribute is a step of its own:  *)
(* the host takes no lock.                                                 *)
(*                                                                         *)
(* A command either returns or raises, which both reach the caller through *)
(* the command's own result queue and are not told apart here.  The two    *)
(* waits with a timeout (_ready.wait, 5 s; join, 5 s) may end at any time, *)
(* so _ready itself, which is never cleared, is not state here.            *)
(***************************************************************************)
EXTENDS Integers, Sequences, FiniteSets

CONSTANTS
    Caller,   \* threads that use the host
    MaxOps,   \* bound on the submit and close calls of a thread
    Stop,     \* the stop sentinel
    None

VARIABLES
    pc,        \* per thread, where it is in submit, start or close
    ops,       \* per thread, the calls it has made
    joining,   \* per thread, the worker close is joining
    thread,    \* _thread: a worker or None
    driver,    \* _driver: the worker whose driver it is, or None
    commands,  \* _commands: the queue
    wpc,       \* the workers started so far and where they are
    running,   \* per worker started, the thread whose command it runs, or None
    answered,  \* the threads whose result queue holds their result
    ran,       \* history: how often a thread's current command was run
    everClosed \* history: close has been called

caller == <<pc, ops, joining>>
attrs  == <<thread, driver>>
hist   == <<ran, everClosed>>
vars   == <<caller, attrs, commands, wpc, running, answered, hist>>

(* Workers are numbered as they are made, and each takes a submit of its    *)
(* own: these are the numbers there can be.                                 *)
Worker == 1..(MaxOps * Cardinality(Caller))

ASSUME HostConstants ==
    /\ IsFiniteSet(Caller) /\ MaxOps \in Nat
    /\ Stop \notin Caller
    /\ None \notin Caller /\ None # Stop /\ None \notin Nat

Init ==
    /\ pc = [c \in Caller |-> "idle"]
    /\ ops = [c \in Caller |-> 0]
    /\ joining = [c \in Caller |-> None]
    /\ thread = None
    /\ driver = None
    /\ commands = <<>>
    /\ wpc = <<>>
    /\ running = <<>>
    /\ answered = {}
    /\ ran = [c \in Caller |-> 0]
    /\ everClosed = FALSE

Goto(c, from, to) ==
    /\ pc[c] = from
    /\ pc' = [pc EXCEPT ![c] = to]

Call(c) ==
    /\ ops[c] < MaxOps
    /\ ops' = [ops EXCEPT ![c] = @ + 1]

-----------------------------------------------------------------------------
(* submit, with start inlined.                                              *)

Submit(c) ==
    /\ Call(c)
    /\ Goto(c, "idle", "start")
    /\ ran' = [ran EXCEPT ![c] = 0]
    /\ UNCHANGED <<joining, attrs, commands, wpc, running, answered,
                   everClosed>>

(* start reads _thread. *)
StartChecks(c) ==
    /\ Goto(c, "start", IF thread = None THEN "create" ELSE "wait")
    /\ UNCHANGED <<ops, joining, attrs, commands, wpc, running, answered, hist>>

(* A new worker is assigned. *)
StartCreates(c) ==
    /\ Goto(c, "create", "launch")
    /\ wpc' = Append(wpc, "new")
    /\ running' = Append(running, None)
    /\ thread' = Len(wpc')
    /\ UNCHANGED <<ops, joining, driver, commands, answered, hist>>

(* _thread is read again to be started: None.start is an AttributeError, a  *)
(* second start of one thread a RuntimeError.                               *)
StartLaunches(c) ==
    LET fresh == thread # None /\ wpc[thread] = "new"
    IN  /\ Goto(c, "launch", IF fresh THEN "wait" ELSE "idle")
        /\ wpc' = IF fresh THEN [wpc EXCEPT ![thread] = "building"] ELSE wpc
        /\ UNCHANGED <<ops, joining, attrs, commands, running, answered, hist>>

(* _ready.wait ends, set or timed out, and _driver decides: go on, or raise *)
(* "failed to start".                                                       *)
StartWaits(c) ==
    /\ Goto(c, "wait", IF driver = None THEN "idle" ELSE "put")
    /\ UNCHANGED <<ops, joining, attrs, commands, wpc, running, answered, hist>>

Put(c) ==
    /\ Goto(c, "put", "get")
    /\ commands' = Append(commands, c)
    /\ UNCHANGED <<ops, joining, attrs, wpc, running, answered, hist>>

(* result_q.get has no timeout. *)
Get(c) ==
    /\ c \in answered
    /\ Goto(c, "get", "idle")
    /\ answered' = answered \ {c}
    /\ UNCHANGED <<ops, joining, attrs, commands, wpc, running, hist>>

-----------------------------------------------------------------------------
(* close.                                                                   *)

CloseChecks(c) ==
    /\ Call(c)
    /\ Goto(c, "idle", IF thread = None THEN "teardown" ELSE "stop")
    /\ everClosed' = TRUE
    /\ UNCHANGED <<joining, attrs, commands, wpc, running, answered, ran>>

CloseStops(c) ==
    /\ Goto(c, "stop", "join")
    /\ commands' = Append(commands, Stop)
    /\ UNCHANGED <<ops, joining, attrs, wpc, running, answered, hist>>

(* _thread is read again to be joined: None.join is an AttributeError, the  *)
(* join of a thread that has not been started a RuntimeError.               *)
CloseJoins(c) ==
    LET started == thread # None /\ wpc[thread] # "new"
    IN  /\ Goto(c, "join", IF started THEN "joining" ELSE "idle")
        /\ joining' = [joining EXCEPT ![c] = IF started THEN thread ELSE None]
        /\ UNCHANGED <<ops, attrs, commands, wpc, running, answered, hist>>

(* join returns: the worker ended, or five seconds passed. *)
CloseJoined(c) ==
    /\ Goto(c, "joining", "teardown")
    /\ joining' = [joining EXCEPT ![c] = None]
    /\ thread' = None
    /\ UNCHANGED <<ops, driver, commands, wpc, running, answered, hist>>

(* _driver is read: there is none, or it is closed with errors suppressed. *)
CloseTearsDown(c) ==
    /\ Goto(c, "teardown", IF driver = None THEN "idle" ELSE "forget")
    /\ UNCHANGED <<ops, joining, attrs, commands, wpc, running, answered, hist>>

CloseForgets(c) ==
    /\ Goto(c, "forget", "idle")
    /\ driver' = None
    /\ UNCHANGED <<ops, joining, thread, commands, wpc, running, answered, hist>>

CallerStep(c) ==
    \/ StartChecks(c) \/ StartCreates(c) \/ StartLaunches(c) \/ StartWaits(c)
    \/ Put(c) \/ Get(c)
    \/ CloseStops(c) \/ CloseJoins(c) \/ CloseJoined(c)
    \/ CloseTearsDown(c) \/ CloseForgets(c)

-----------------------------------------------------------------------------
(* _run: build the driver, then serve until a sentinel.                     *)

At(w, where) == w \in DOMAIN wpc /\ wpc[w] = where

Built(w) ==
    /\ At(w, "building")
    /\ wpc' = [wpc EXCEPT ![w] = "serving"]
    /\ driver' = w
    /\ UNCHANGED <<caller, thread, commands, running, answered, hist>>

(* _build_driver raised: _ready is set all the same, and the thread ends. *)
BuildFails(w) ==
    /\ At(w, "building")
    /\ wpc' = [wpc EXCEPT ![w] = "ended"]
    /\ driver' = None
    /\ UNCHANGED <<caller, thread, commands, running, answered, hist>>

(* Mutant: the command stays in the queue. *)
TakePeeks(w) ==
    /\ At(w, "serving") /\ running[w] = None
    /\ commands # <<>>
    /\ Head(commands) # Stop
    /\ running' = [running EXCEPT ![w] = Head(commands)]
    /\ ran' = [ran EXCEPT ![Head(commands)] = @ + 1]
    /\ UNCHANGED <<caller, attrs, commands, wpc, answered, everClosed>>

Take(w) ==
    /\ At(w, "serving") /\ running[w] = None
    /\ commands # <<>>
    /\ Head(commands) # Stop
    /\ commands' = Tail(commands)
    /\ running' = [running EXCEPT ![w] = Head(commands)]
    /\ ran' = [ran EXCEPT ![Head(commands)] = @ + 1]
    /\ UNCHANGED <<caller, attrs, wpc, answered, everClosed>>

(* Mutant: a command that raises is swallowed. *)
FinishSwallows(w) ==
    /\ At(w, "serving") /\ running[w] # None
    /\ answered' \in {answered, answered \union {running[w]}}
    /\ running' = [running EXCEPT ![w] = None]
    /\ UNCHANGED <<caller, attrs, commands, wpc, hist>>

(* The command returned or raised: either goes into its result queue. *)
Finish(w) ==
    /\ At(w, "serving") /\ running[w] # None
    /\ answered' = answered \union {running[w]}
    /\ running' = [running EXCEPT ![w] = None]
    /\ UNCHANGED <<caller, attrs, commands, wpc, hist>>

TakeStop(w) ==
    /\ At(w, "serving") /\ running[w] = None
    /\ commands # <<>>
    /\ Head(commands) = Stop
    /\ commands' = Tail(commands)
    /\ wpc' = [wpc EXCEPT ![w] = "ended"]
    /\ UNCHANGED <<caller, attrs, running, answered, hist>>

WorkerStep(w) ==
    Built(w) \/ BuildFails(w) \/ Take(w) \/ Finish(w) \/ TakeStop(w)

-----------------------------------------------------------------------------
Next ==
    \/ \E c \in Caller : Submit(c) \/ CloseChecks(c) \/ CallerStep(c)
    \/ \E w \in DOMAIN wpc : WorkerStep(w)

(* The operating system schedules every thread; a command ends.             *)
Fairness ==
    /\ \A c \in Caller : WF_vars(CallerStep(c))
    /\ \A w \in Worker : WF_vars(WorkerStep(w))

Spec == Init /\ [][Next]_vars /\ Fairness

-----------------------------------------------------------------------------
(* Every variable keeps its type.                                           *)
TypeOK ==
    /\ pc \in [Caller -> {"idle", "start", "create", "launch", "wait",
                          "put", "get", "stop", "join", "joining",
                          "teardown", "forget"}]
    /\ ops \in [Caller -> 0..MaxOps]
    /\ joining \in [Caller -> DOMAIN wpc \union {None}]
    /\ thread \in DOMAIN wpc \union {None}
    /\ driver \in DOMAIN wpc \union {None}
    /\ commands \in Seq(Caller \union {Stop})
    /\ wpc \in Seq({"new", "building", "serving", "ended"})
    /\ running \in Seq(Caller \union {None})
    /\ Len(running) = Len(wpc)
    /\ answered \subseteq Caller
    /\ ran \in [Caller -> Nat]
    /\ everClosed \in BOOLEAN

(* A submitted command is in exactly one place until its caller has the     *)
(* result - queued, running, or answered - so that whatever the number of   *)
(* workers and closes, it is run once at most and its answer is its own.    *)
CommandInOnePlace ==
    \A c \in Caller :
        LET queued == {i \in DOMAIN commands : commands[i] = c}
            held   == {w \in DOMAIN wpc : running[w] = c}
        IN  /\ Cardinality(queued) + Cardinality(held)
                 + (IF c \in answered THEN 1 ELSE 0)
               = IF pc[c] = "get" THEN 1 ELSE 0
            /\ pc[c] = "get" => ran[c] = IF queued = {} THEN 1 ELSE 0

(* The two together: what a command and the two threads that share it can   *)
(* rely on, with any number of threads, submits and closes.                 *)
CommandsHold == TypeOK /\ CommandInOnePlace

(* submit says it runs the command on the worker thread and returns its     *)
(* result: every submit comes back.                                         *)
SubmitReturns ==
    \A c \in Caller : (pc[c] = "get") ~> (pc[c] # "get")
=============================================================================

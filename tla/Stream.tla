------------------------------- MODULE Stream -------------------------------
(***************************************************************************)
(* The streaming engine of cbp/stream.py: components of an acyclic network *)
(* are activated again for every packet that reaches their in-ports, over  *)
(* the bounded connections of cbp/flow.py.                                 *)
(*                                                                         *)
(* One thread runs the loop.  It activates the first component, in         *)
(* topological order, whose in-ports all hold a packet; when there is none *)
(* it sweeps the emitters (the suspended producers), again in topological  *)
(* order, until one sends a packet or has nothing left.                    *)
(*                                                                         *)
(* A component's task is known by what it may answer: a set of functions   *)
(* from its wired out-ports to the packets it puts on them.  A connection  *)
(* is known by the place of its edge in the sorted sequence of edges, in   *)
(* which the connections of one out-port are in the order of its fan-out.  *)
(***************************************************************************)
EXTENDS Integers, Sequences, FiniteSets

CONSTANTS Networks,       \* the documents that run_stream may be given
          Packets,        \* what tasks put on out-ports
          MaxCapacity,    \* MAX_CONNECTION_CAPACITY of cbp/network.py
          None

(***************************************************************************)
(* A network n has                                                         *)
(*   n.order    its components in topological order                        *)
(*   n.edges    its edges, sorted as run_stream sorts them, each a record  *)
(*              with the ends of a connection, its capacity and the set of *)
(*              values its effective port type accepts                     *)
(*   n.ins      the declared in-ports of each component                    *)
(*   n.outs     the declared out-ports of each component                   *)
(*   n.wired    the out-ports of each component that have an edge, sorted  *)
(*   n.answers  what the component's task may answer: for each wired       *)
(*              out-port the packets of the stream, or the one value       *)
(*   n.limit    step_limit, 0 when it is negative                          *)
(***************************************************************************)
Members(n) == {n.order[i] : i \in DOMAIN n.order}
SomeEdge(n) == {n.edges[i] : i \in DOMAIN n.edges}
Fields(n, c) == {e.field : e \in {d \in SomeEdge(n) : d.source = c}}

\* Every component once, and every edge from an earlier to a later one.
Topological(n) ==
    /\ \A i, j \in DOMAIN n.order : n.order[i] = n.order[j] => i = j
    /\ \A e \in SomeEdge(n) : \E i, j \in DOMAIN n.order :
          i < j /\ n.order[i] = e.source /\ n.order[j] = e.target

NetworkOK(n) ==
    /\ Topological(n) /\ n.limit \in Nat
    /\ n.order \in Seq(Members(n)) /\ n.edges \in Seq(SomeEdge(n))
    /\ \A e \in SomeEdge(n) : e.capacity \in 1..MaxCapacity
    /\ \A c \in Members(n) :
          /\ n.wired[c] \in Seq(Fields(n, c))
          /\ {n.wired[c][i] : i \in DOMAIN n.wired[c]} = Fields(n, c)
          /\ \A out \in n.answers[c] : out \in [Fields(n, c) -> Seq(Packets)]

Port == UNION {UNION {Fields(n, c) : c \in Members(n)} : n \in Networks}
Packet == [value : Packets, port : Port, from : Nat]

ASSUME NetworksOK ==
    /\ MaxCapacity \in Nat \ {0}
    /\ \A n \in Networks : NetworkOK(n)
    /\ None \notin Packet

VARIABLES
    net,          \* the network being run
    status,       \* "new", "running" (the loop), "sweeping" or how run_stream returned
    buffer,       \* per connection: the packets in its BoundedConnection
    emitters,     \* the _Emitter of each component that has one
    spent,        \* spent_sources
    activations,
    sends,
    results,      \* the components activated, in order
    todo,         \* the emitters the present sweep has still to step
    emitted,      \* history: per connection, the packets verified outputs put on it
    taken         \* history: per connection, the packets its target received

vars == <<net, status, buffer, emitters, spent, activations, sends, results,
          todo, emitted, taken>>
history == <<emitted, taken>>

Comp == Members(net)
Conn == DOMAIN net.edges
Incoming(c) == {k \in Conn : net.edges[k].target = c}
Connections(c, p) == {k \in Conn : net.edges[k].source = c /\ net.edges[k].field = p}

is_full(k) == Len(buffer[k]) >= net.edges[k].capacity
is_empty(k) == buffer[k] = <<>>

Init ==
    /\ net \in Networks
    /\ status = "new"
    /\ buffer = [k \in Conn |-> <<>>]
    /\ emitters = [c \in {} |-> None]
    /\ spent = {}
    /\ activations = 0 /\ sends = 0
    /\ results = <<>>
    /\ todo = {}
    /\ emitted = [k \in Conn |-> <<>>]
    /\ taken = [k \in Conn |-> <<>>]

Fail(why) == status' = why

-----------------------------------------------------------------------------
(* Before the loop: the step limit, the declared ports, one edge per in-port *)

Acceptable ==
    /\ net.limit > 0
    /\ Len(net.order) <= net.limit
    /\ \A e \in SomeEdge(net) : e.field \in net.outs[e.source] /\ e.arg \in net.ins[e.target]
    /\ \A j, k \in Conn :
          /\ net.edges[j].target = net.edges[k].target
          /\ net.edges[j].arg = net.edges[k].arg
          => j = k

Start ==
    /\ status = "new"
    /\ status' = IF Acceptable THEN "running" ELSE "refused"
    /\ UNCHANGED <<net, buffer, emitters, spent, activations, sends, results,
                   todo, history>>

-----------------------------------------------------------------------------
(* The loop: first the components that are ready                            *)

Ready(c) ==
    /\ c \notin DOMAIN emitters
    /\ IF Incoming(c) = {} THEN c \notin spent
       ELSE \A k \in Incoming(c) : ~is_empty(k)

AtLoop == status = "running"

FirstReady(c) ==
    \E i \in DOMAIN net.order :
        /\ net.order[i] = c /\ Ready(c)
        /\ \A j \in 1..(i - 1) : ~Ready(net.order[j])

\* The packets an activation of c takes, one from each of its connections.
Consume(c) ==
    /\ spent' = IF Incoming(c) = {} THEN spent \union {c} ELSE spent
    /\ taken' = [k \in Conn |-> IF k \in Incoming(c)
                                THEN Append(taken[k], Head(buffer[k])) ELSE taken[k]]
    /\ buffer' = [k \in Conn |-> IF k \in Incoming(c) THEN Tail(buffer[k]) ELSE buffer[k]]
    /\ activations' = activations + 1
    /\ UNCHANGED <<net, sends, todo>>

Exhausted == activations >= net.limit

OverBudget(c) ==
    /\ AtLoop /\ FirstReady(c) /\ Exhausted
    /\ Consume(c)
    /\ Fail("activation limit")
    /\ UNCHANGED <<emitters, results, emitted>>

\* driver.run raised, the answer was not verified, or an out-port's value could
\* not be extracted or iterated.  Only the first leaves no entry in results.
ActivationFails(c, why) ==
    /\ AtLoop /\ FirstReady(c) /\ ~Exhausted
    /\ why = "bad output" => net.wired[c] # <<>>
    /\ Consume(c)
    /\ Fail(why)
    /\ results' = IF why = "raised" THEN results ELSE Append(results, c)
    /\ UNCHANGED <<emitters, emitted>>

\* What is left of each stream, and the element in flight with the first of the
\* connections it has still to go to.
Emitter(out) == [streams |-> out, pending |-> None]

Put(c, m) == [d \in DOMAIN emitters \union {c} |-> IF d = c THEN m ELSE emitters[d]]

Activate(c, out) ==
    /\ AtLoop /\ FirstReady(c) /\ ~Exhausted
    /\ Consume(c)
    /\ results' = Append(results, c)
    /\ emitters' = IF net.wired[c] = <<>> THEN emitters ELSE Put(c, Emitter(out))
    /\ emitted' = [k \in Conn |-> IF net.edges[k].source = c
                                  THEN emitted[k] \o out[net.edges[k].field]
                                  ELSE emitted[k]]
    /\ UNCHANGED status

-----------------------------------------------------------------------------
(* The loop: then the end, or a sweep over the emitters                     *)

NoneReady == \A c \in Comp : ~Ready(c)

Finish ==
    /\ AtLoop /\ NoneReady /\ DOMAIN emitters = {}
    /\ status' = IF \E k \in Conn : ~is_empty(k) THEN "stranded" ELSE "ok"
    /\ UNCHANGED <<net, buffer, emitters, spent, activations, sends, results,
                   todo, history>>

\* Mutant: only the first suspended producer is stepped.
SweepFirst ==
    /\ AtLoop /\ NoneReady /\ DOMAIN emitters # {}
    /\ status' = "sweeping"
    /\ todo' = {net.order[i] : i \in {j \in DOMAIN net.order :
                   DOMAIN emitters \cap {net.order[h] : h \in 1..j} = {net.order[j]}}}
    /\ UNCHANGED <<net, buffer, emitters, spent, activations, sends, results, history>>

Sweep ==
    /\ AtLoop /\ NoneReady /\ DOMAIN emitters # {}
    /\ status' = "sweeping" /\ todo' = DOMAIN emitters
    /\ UNCHANGED <<net, buffer, emitters, spent, activations, sends, results, history>>

-----------------------------------------------------------------------------
(* _Emitter.step                                                            *)

\* The sweep is at c, the first in topological order it has still to step.
Turn(c) ==
    /\ status = "sweeping" /\ c \in todo
    /\ \E i \in DOMAIN net.order :
          net.order[i] = c /\ \A j \in 1..(i - 1) : net.order[j] \notin todo

HasNext(m) == \E p \in DOMAIN m.streams : m.streams[p] # <<>>

\* The out-port whose stream has the next element: the first that has one left.
NextPort(c) ==
    LET left == emitters[c].streams
        wired == net.wired[c]
    IN {wired[i] : i \in {j \in DOMAIN wired :
           left[wired[j]] # <<>> /\ \A h \in 1..(j - 1) : left[wired[h]] = <<>>}}

\* The emitter with an element in flight, pulled from a stream unless one was.
Pull(c) ==
    LET m == emitters[c] IN
    IF m.pending # None THEN {m}
    ELSE {[streams |-> [m.streams EXCEPT ![p] = Tail(@)],
           pending |-> [value |-> Head(m.streams[p]), port |-> p, from |-> 1]]
              : p \in NextPort(c)}

\* The connections an element has still to go to.
Rest(c, packet) == {k \in Connections(c, packet.port) : packet.from <= k}

Accepts(k, packet) == ~is_full(k) /\ packet.value \in net.edges[k].accepts

Deliver(ks, packet) ==
    buffer' = [k \in Conn |-> IF k \in ks THEN Append(buffer[k], packet.value) ELSE buffer[k]]

\* Mutant: a finished emitter is not deleted.
StepDoneKept(c) ==
    /\ Turn(c)
    /\ emitters[c].pending = None /\ ~HasNext(emitters[c])
    /\ status' = "running" /\ todo' = {}
    /\ UNCHANGED <<net, buffer, emitters, spent, activations, sends, results, history>>

StepDone(c) ==
    /\ Turn(c)
    /\ emitters[c].pending = None /\ ~HasNext(emitters[c])
    /\ emitters' = [d \in DOMAIN emitters \ {c} |-> emitters[d]]
    /\ status' = "running" /\ todo' = {}
    /\ UNCHANGED <<net, buffer, spent, activations, sends, results, history>>

\* A step that has an element to send: all of its connections take it ...
StepProgress(c) ==
    /\ Turn(c)
    /\ \E m \in Pull(c) :
          /\ \A k \in Rest(c, m.pending) : Accepts(k, m.pending)
          /\ Deliver(Rest(c, m.pending), m.pending)
          /\ emitters' = Put(c, [m EXCEPT !.pending = None])
    /\ sends' = sends + 1
    /\ status' = IF sends + 1 > net.limit * MaxCapacity THEN "send limit" ELSE "running"
    /\ todo' = {}
    /\ UNCHANGED <<net, spent, activations, results, history>>

\* ... or only those before k, which is full or rejects it.
SentBefore(k, c, m) ==
    /\ k \in Rest(c, m.pending) /\ ~Accepts(k, m.pending)
    /\ \A j \in Rest(c, m.pending) : j < k => Accepts(j, m.pending)
    /\ Deliver({j \in Rest(c, m.pending) : j < k}, m.pending)

\* Mutant: a suspended emitter starts its fan-out over.
StepBlockedAgain(c) ==
    /\ Turn(c)
    /\ \E m \in Pull(c) : \E k \in Conn :
          SentBefore(k, c, m) /\ is_full(k) /\ emitters' = Put(c, m)
    /\ todo' = todo \ {c}
    /\ UNCHANGED <<net, status, spent, activations, sends, results, history>>

\* It is full: the producer is suspended and the sweep goes on.
StepBlocked(c) ==
    /\ Turn(c)
    /\ \E m \in Pull(c) : \E k \in Conn :
          SentBefore(k, c, m) /\ is_full(k) /\ emitters' = Put(c, [m EXCEPT !.pending.from = k])
    /\ todo' = todo \ {c}
    /\ UNCHANGED <<net, status, spent, activations, sends, results, history>>

StepRejected(c) ==
    /\ Turn(c)
    /\ \E m \in Pull(c) : \E k \in Conn :
          SentBefore(k, c, m) /\ ~is_full(k) /\ emitters' = Put(c, [m EXCEPT !.pending.from = k])
    /\ Fail("type mismatch")
    /\ UNCHANGED <<net, spent, activations, sends, results, todo, history>>

AllBlocked ==
    /\ status = "sweeping" /\ todo = {}
    /\ Fail("blocked")
    /\ UNCHANGED <<net, buffer, emitters, spent, activations, sends, results,
                   todo, history>>

\* run_stream has returned.
Returned ==
    /\ status \notin {"new", "running", "sweeping"}
    /\ UNCHANGED vars

Next ==
    \/ Start
    \/ \E c \in Comp :
          \/ OverBudget(c)
          \/ \E why \in {"raised", "unverified", "bad output"} : ActivationFails(c, why)
          \/ \E out \in net.answers[c] : Activate(c, out)
          \/ StepDone(c)
          \/ StepProgress(c)
          \/ StepBlocked(c)
          \/ StepRejected(c)
    \/ Finish
    \/ Sweep
    \/ AllBlocked
    \/ Returned

Spec == Init /\ [][Next]_vars

-----------------------------------------------------------------------------
Failures == {"refused", "activation limit", "raised", "unverified", "bad output",
             "stranded", "type mismatch", "send limit", "blocked"}

EmitterOK(c, m) ==
    /\ m \in [streams : [Fields(net, c) -> Seq(Packets)], pending : Packet \union {None}]
    /\ m.pending # None => Rest(c, m.pending) # {}

\* Type invariant; no connection ever holds more than its capacity, although
\* emitters keep packets in flight across activations (BoundedConnection).
TypeOK ==
    /\ net \in Networks
    /\ status \in {"new", "running", "sweeping", "ok"} \union Failures
    /\ buffer \in [Conn -> Seq(Packets)]
    /\ \A k \in Conn : Len(buffer[k]) <= net.edges[k].capacity
    /\ DOMAIN emitters \subseteq Comp /\ \A c \in DOMAIN emitters : EmitterOK(c, emitters[c])
    /\ spent \subseteq Comp /\ todo \subseteq DOMAIN emitters
    /\ activations \in 0..(net.limit + 1) /\ sends \in Nat

\* What an emitter still holds for a connection: the element in flight, if it has
\* not gone to that connection yet, and the rest of the stream of its out-port.
Waiting(k) ==
    LET c == net.edges[k].source
        m == emitters[c]
        flying == m.pending # None /\ k \in Rest(c, m.pending)
    IN IF c \notin DOMAIN emitters THEN <<>>
       ELSE (IF flying THEN <<m.pending.value>> ELSE <<>>) \o m.streams[net.edges[k].field]

\* However producers are suspended half way through a fan-out and resumed, every
\* packet of a verified output reaches each of its connections once and in order:
\* it was received, is buffered, or is still with the emitter (_Emitter: "never
\* loses or duplicates a packet").
PacketsConserved ==
    \A k \in Conn : emitted[k] = taken[k] \o buffer[k] \o Waiting(k)

Activated(c) == Cardinality({i \in DOMAIN results : results[i] = c})

\* run_stream answers ok only if every packet that was put on a connection was
\* received, each source ran once, and a component that joins several connections
\* ran once for each packet of every one of them (no stream was cut short).
SuccessIsComplete ==
    status = "ok" =>
        \A c \in Comp :
            IF Incoming(c) = {} THEN Activated(c) = 1
            ELSE \A k \in Incoming(c) : Activated(c) = Len(emitted[k])

\* No packet is lost, doubled or reordered, and "ok" means that all were consumed.
PacketsConsumed == TypeOK /\ PacketsConserved /\ SuccessIsComplete

NoJoin == \A c \in Comp : \A j, k \in Incoming(c) : j = k

\* In a network where no component joins two connections, back-pressure never
\* ends in a deadlock report: the last suspended producer always has a consumer
\* that can run (the sweep of run_stream's loop).
NoJoinNoDeadlock == NoJoin => status \notin {"stranded", "blocked"}
=============================================================================

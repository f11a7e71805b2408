------------------------------- MODULE Network -------------------------------
(* Component networks, of cbp/network.py, and one run of a network by its       *)
(* run_network over cbp/flow.py: the documents that are accepted, the order of  *)
(* the components, the plan a network compiles to, and the arguments each       *)
(* component is given.                                                          *)
(*                                                                              *)
(* Ids and ports are numbers, in the order of their names; 0 is the empty name. *)
(* A component is a record                                                      *)
(*    id, task, child, args     args is a function from ports to values         *)
(*    ports, types              per side "in" and "out": the declared ports, and *)
(*                              the types some of them have                     *)
(*    stream, external, subnet  streamed out-ports; the interior <<id, port>>   *)
(*                              of each port of a composite, and its body       *)
(* A value is a pair of its type and what it is.                                *)
EXTENDS Integers, Sequences, SequencesExt, FiniteSets, FiniteSetsExt, Functions

CONSTANTS None, Refused,
          Dotted,        \* the ids with a dot in them
          Types,         \* _TYPE_CHECKERS without "any"
          MaxCapacity,   \* MAX_CONNECTION_CAPACITY
          MaxDepth       \* _MAX_SUBNET_DEPTH

Sides == {"in", "out"}
Known(t) == t \in Types \cup {"any"}
Compatible(s, t) == Known(s) /\ Known(t) /\ (s = t \/ s = "any" \/ t = "any")
Matches(v, t) == t = "any" \/ (t \in Types /\ v[1] = t)

TypeOf(c, side, p) == IF p \in DOMAIN c.types[side] THEN c.types[side][p] ELSE "any"
Declares(c, side, p) == p \in Range(c.ports[side])

-----------------------------------------------------------------------------
(* Reading a document: a later component replaces an earlier one of its id *)

ComponentOk(c) ==
  /\ c.id # 0 /\ c.id \notin Dotted
  /\ \A side \in Sides :
       /\ 0 \notin Range(c.ports[side])
       /\ IsInjective(c.ports[side])
       /\ \A p \in DOMAIN c.types[side] :
            p # 0 /\ Declares(c, side, p) /\ Known(c.types[side][p])

RECURSIVE FromDict(_, _)
FromDict(doc, depth) ==
  LET cs == doc.components
      subs == [i \in DOMAIN cs |->
                 IF cs[i].subnet = None THEN None ELSE FromDict(cs[i].subnet, depth + 1)]
      lastOf(id) == Max({i \in DOMAIN cs : cs[i].id = id})
  IN IF \/ depth > MaxDepth \/ doc.malformed
        \/ \E i \in DOMAIN cs : subs[i] = Refused \/ ~ComponentOk(cs[i])
     THEN Refused
     ELSE [comps |-> [id \in {cs[i].id : i \in DOMAIN cs} |->
                        [cs[lastOf(id)] EXCEPT !.subnet = subs[lastOf(id)]]],
           edges |-> doc.edges, iips |-> doc.iips]

\* Components by id, edges as declared, IIPs by component and port.
Sorted(S) == SetToSortSeq(S, <)
BeforeIip(x, y) == x.component < y.component \/ (x.component = y.component /\ x.port < y.port)
RECURSIVE ToDict(_)
ToDict(n) ==
  LET ids == Sorted(DOMAIN n.comps)
  IN [components |-> [i \in DOMAIN ids |->
        LET c == n.comps[ids[i]]
        IN [c EXCEPT !.subnet = IF c.subnet = None THEN None ELSE ToDict(c.subnet)]],
      edges |-> n.edges, iips |-> SetToSortSeq(Range(n.iips), BeforeIip), malformed |-> FALSE]

-----------------------------------------------------------------------------
(* validate *)

Preds(n, id) == {e.source : e \in {f \in Range(n.edges) : f.target = id}}

\* Kahn's algorithm: the smallest component whose sources are all placed, until there is none.
RECURSIVE OrderFrom(_, _)
OrderFrom(n, placed) ==
  LET ready == {id \in DOMAIN n.comps \ Range(placed) : Preds(n, id) \subseteq Range(placed)}
  IN IF ready = {} THEN placed ELSE OrderFrom(n, Append(placed, Min(ready)))
TopologicalOrder(n) == OrderFrom(n, <<>>)

Acyclic(n) == Len(TopologicalOrder(n)) = Cardinality(DOMAIN n.comps)

Attached(n, e) ==
  /\ {e.source, e.target} \subseteq DOMAIN n.comps \ Dotted
  /\ e.source # e.target
  /\ e.capacity \in 1..MaxCapacity
EdgeOk(n, e) ==
  /\ Attached(n, e)
  /\ LET s == n.comps[e.source] t == n.comps[e.target]
     IN /\ s.ports["out"] # <<>> => Declares(s, "out", e.field)
        /\ t.ports["in"] # <<>> => Declares(t, "in", e.arg)
        /\ Compatible(TypeOf(s, "out", e.field), TypeOf(t, "in", e.arg))

IipsOk(n) ==
  /\ \A i, j \in DOMAIN n.iips : i # j =>
       <<n.iips[i].component, n.iips[i].port>> # <<n.iips[j].component, n.iips[j].port>>
  /\ \A x \in Range(n.iips) :
       /\ x.component \in DOMAIN n.comps /\ x.port # 0
       /\ LET c == n.comps[x.component]
          IN Declares(c, "in", x.port) /\ Matches(x.value, TypeOf(c, "in", x.port))
       /\ \A e \in Range(n.edges) : ~(e.target = x.component /\ e.arg = x.port)

\* A composite: its external ports are its declared ones, each an interior port of the same side.
ExternalOk(c) ==
  /\ DOMAIN c.external = Range(c.ports["in"]) \cup Range(c.ports["out"])
  /\ \A p \in DOMAIN c.external :
       LET side == IF Declares(c, "in", p) THEN "in" ELSE "out"
       IN /\ Len(c.external[p]) = 2
          /\ c.external[p][1] \in DOMAIN c.subnet.comps
          /\ Declares(c.subnet.comps[c.external[p][1]], side, c.external[p][2])

RECURSIVE ValidAt(_, _)
ValidAt(n, depth) ==
  /\ depth <= MaxDepth
  /\ \A e \in Range(n.edges) : EdgeOk(n, e)
  /\ IipsOk(n)
  /\ \A c \in Range(n.comps) :
       /\ c.stream \subseteq Range(c.ports["out"])
       /\ IF c.subnet = None THEN DOMAIN c.external = {}
          ELSE depth < MaxDepth /\ ExternalOk(c) /\ ValidAt(c.subnet, depth + 1)
  /\ Acyclic(n)
Valid(n) == ValidAt(n, 0)

-----------------------------------------------------------------------------
(* The arguments of a component *)

Into(n, id) == SelectSeq(n.edges, LAMBDA e : e.target = id)
Wired(n, id) == {e.arg : e \in Range(Into(n, id))}
Overlay(f, g) == [x \in DOMAIN f \cup DOMAIN g |-> IF x \in DOMAIN g THEN g[x] ELSE f[x]]
Iips(n, id) == [p \in {x.port : x \in {y \in Range(n.iips) : y.component = id}} |->
                  (CHOOSE x \in Range(n.iips) : x.component = id /\ x.port = p).value]

\* compile: a source without ports gives its own template argument, one with ports a wire.
Unported(n, id) == SelectSeq(Into(n, id), LAMBDA e : n.comps[e.source].ports["out"] = <<>>)
Compilable(n) == Valid(n) /\ \A id \in DOMAIN n.comps : \A e \in Range(Unported(n, id)) :
                                e.field \in DOMAIN n.comps[e.source].args
TemplateInto(n, id) ==
  LET es == Unported(n, id)
  IN [p \in {e.arg : e \in Range(es)} |->
        LET e == Last(SelectSeq(es, LAMBDA f : f.arg = p)) IN n.comps[e.source].args[e.field]]
Compile(n) ==
  [i \in DOMAIN TopologicalOrder(n) |->
     LET id == TopologicalOrder(n)[i] c == n.comps[id]
     IN [id |-> id, task |-> c.task, child |-> c.child,
         args |-> Overlay(c.args, TemplateInto(n, id)),
         wires |-> {<<e.arg, e.source, e.field, e.capacity>> :
                      e \in Range(Into(n, id)) \ Range(Unported(n, id))}]]

-----------------------------------------------------------------------------
(* One run.  mode is how run_network, or run_plan over the compiled plan, goes   *)
(* about it; conn holds the packets of each edge's BoundedConnection.            *)

Mode(n) == IF \E c \in Range(n.comps) : c.stream # {} THEN "stream"
           ELSE IF n.iips # <<>> \/ \E c \in Range(n.comps) :
                     c.ports["in"] # <<>> \/ c.ports["out"] # <<>> THEN "flow"
           ELSE "legacy"

PortsDeclared(n) == \A e \in Range(n.edges) :
  Declares(n.comps[e.source], "out", e.field) /\ Declares(n.comps[e.target], "in", e.arg)

\* Before any component runs; a streaming network is the concern of module Stream.
RunRefused(n, limit) ==
  \/ ~Valid(n) \/ limit <= 0 \/ Cardinality(DOMAIN n.comps) > limit
  \/ Mode(n) = "flow" /\ ~PortsDeclared(n)

\* What is known of a document before it runs: nothing of one the reader refuses.
Reading(doc, limit) ==
  LET n == FromDict(doc, 0)
  IN IF n = Refused THEN Refused
     ELSE [net |-> n, mode |-> Mode(n), accepted |-> ~RunRefused(n, limit), order |-> TopologicalOrder(n),
           steps |-> IF Compilable(n) THEN Compile(n) ELSE <<>>]

\* run_plan refuses a plan without steps; a network without components is done at once.
NewRun(doc, mode, by) ==
  [net |-> doc.net, mode |-> mode, by |-> by, order |-> doc.order,
   steps |-> IF mode = "plan" THEN doc.steps ELSE <<>>,
   status |-> IF IF mode = "plan" THEN doc.steps = <<>> ELSE ~doc.accepted THEN "refused"
              ELSE IF doc.order = <<>> THEN "ok" ELSE "running",
   results |-> <<>>, outputs |-> <<>>, conn |-> [i \in DOMAIN doc.net.edges |-> <<>>]]

is_full(r, i) == Len(r.conn[i]) >= r.net.edges[i].capacity
is_empty(r, i) == r.conn[i] = <<>>
EdgesInto(r, id) == {i \in DOMAIN r.net.edges : r.net.edges[i].target = id}
\* Of several edges into one argument the last declared one is what the component sees.
LastInto(r, id) == {k \in EdgesInto(r, id) : \A j \in EdgesInto(r, id) :
                      r.net.edges[j].arg = r.net.edges[k].arg => j <= k}
EdgesFrom(r, id) == {i \in DOMAIN r.net.edges : r.net.edges[i].source = id}
Next1(r) == r.order[Len(r.results) + 1]

\* A source that has not run yet: flow finds its connection empty, the legacy run no output.
Starved(r) == r.mode # "plan" /\ \E i \in EdgesInto(r, Next1(r)) :
  IF r.mode = "flow" THEN is_empty(r, i) ELSE r.net.edges[i].source \notin DOMAIN r.outputs

Received(r, id) ==
  [p \in Wired(r.net, id) |->
     LET i == CHOOSE k \in LastInto(r, id) : r.net.edges[k].arg = p
     IN IF r.mode = "flow" THEN Head(r.conn[i]) ELSE r.outputs[r.net.edges[i].source]]
ArgsOf(r) ==
  LET id == Next1(r) c == r.net.comps[id]
  IN IF r.mode = "plan" THEN r.steps[Len(r.results) + 1].args
     ELSE Overlay(Overlay(c.args, Iips(r.net, id)), Received(r, id))
Receive(r, id) ==
  IF r.mode # "flow" THEN r
  ELSE [r EXCEPT !.conn = [i \in DOMAIN @ |-> IF i \in EdgesInto(r, id) THEN Tail(@[i]) ELSE @[i]]]

\* _extract_output and check_ip: what an out-port puts on a connection, or nothing.
Extractable(v, p, outs) == (v[1] = "dict" /\ p \in DOMAIN v[2]) \/ (v[1] # "dict" /\ Len(outs) = 1)
Extract(v, p) == IF v[1] = "dict" THEN v[2][p] ELSE v
Required(s, t) == IF s = "any" THEN t ELSE s
SendOk(r, i, v) ==
  LET e == r.net.edges[i] s == r.net.comps[e.source] t == r.net.comps[e.target]
  IN /\ Extractable(v, e.field, s.ports["out"])
     /\ Matches(Extract(v, e.field), Required(TypeOf(s, "out", e.field), TypeOf(t, "in", e.arg)))
SendAll(r, id, v) ==
  [r EXCEPT !.conn = [i \in DOMAIN @ |->
     IF i \in EdgesFrom(r, id) THEN Append(@[i], Extract(v, r.net.edges[i].field)) ELSE @[i]]]

\* The component's response is in: one result more, and the next component's turn or the end.
Fail(r, why) == [r EXCEPT !.status = why]
Answered(r, result) ==
  LET id == Next1(r)
      r1 == [Receive(r, id) EXCEPT !.results = Append(@, result)]
      done == IF Len(r1.results) = Len(r.order) THEN "ok" ELSE "running"
  IN IF ~result.verified THEN Fail(r1, "unverified")
     ELSE IF r.mode # "flow"
     THEN [r1 EXCEPT !.outputs = Overlay(@, [x \in {id} |-> result.value]), !.status = done]
     ELSE IF \E i \in EdgesFrom(r, id) : ~SendOk(r, i, result.value) THEN Fail(r1, "bad output")
     ELSE IF \E i \in EdgesFrom(r, id) : is_full(r1, i) THEN Fail(r1, "full")
     ELSE [SendAll(r1, id, result.value) EXCEPT !.status = done]
==============================================================================

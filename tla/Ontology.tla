------------------------------ MODULE Ontology ------------------------------
(* The ontology algebra of contracts/ontology.py and cbp/ontology_runtime.py:   *)
(* facts, class hierarchies, additive versions, the projection of a network,    *)
(* stratified rules and their closure, and discovery over a graph.  Documents   *)
(* are sets of records, so sorting, deduplication and hashing are implicit.     *)
EXTENDS Naturals, FiniteSets, Sequences, SequencesExt, FiniteSetsExt

CONSTANT MaxClosure   \* MAX_CLOSURE_ASSERTIONS

-----------------------------------------------------------------------------
(* Facts and patterns *)

\* Term, Literal and Assertion: a subject, a predicate, an object.
Term(n) == [k |-> "term", n |-> n]
Literal(v) == [k |-> "lit", n |-> v]
Assertion(s, p, o) == [s |-> s, p |-> p, o |-> o]

\* Pattern and RuleAtom: variables, or what is to be there.  The variable "_" matches anything.
Var(x) == [k |-> "var", n |-> x]
Anything == Var("_")
Atom(s, p, o) == [s |-> s, p |-> p, o |-> o, negated |-> FALSE]
Not(atom) == [atom EXCEPT !.negated = TRUE]
Variables(atom) == {q.n : q \in {r \in {atom.s, atom.o} : r.k = "var" /\ r.n # "_"}}

\* Rule: a positive head, and every variable of it in a positive atom of the body.
Positive(rule) == SelectSeq(rule.body, LAMBDA atom : ~atom.negated)
BoundBy(rule) == UNION {Variables(atom) : atom \in Range(Positive(rule))}
RuleOk(rule) == ~rule.head.negated /\ rule.body # <<>> /\ Variables(rule.head) \subseteq BoundBy(rule)

-----------------------------------------------------------------------------
(* Ontologies *)

\* subclasses_of: the class and everything below it.
SubclassesOf(onto, name) ==
  LET below[names \in SUBSET STRING] ==
        LET more == names \cup {t.name : t \in {u \in onto.terms : u.kind = "class" /\ u.parents \cap names # {}}}
        IN IF more = names THEN names ELSE below[more]
  IN below[{name}]

\* Ontology: names and rule ids are unique, no class is above itself, every rule is good.
Children(onto, name) == {t.name : t \in {u \in onto.terms : u.kind = "class" /\ name \in u.parents}}
OntologyOk(onto) ==
  /\ \A t, u \in onto.terms : t.name = u.name => t = u
  /\ \A r, q \in onto.rules : r.id = q.id => r = q
  /\ \A t \in onto.terms : \A c \in Children(onto, t.name) : t.name \notin SubclassesOf(onto, c)
  /\ \A r \in onto.rules : RuleOk(r)

\* assert_imports_resolved: every import is there, with the hash it pins.
ImportsResolved(onto, available) ==
  \A i \in onto.imports : i.id \in DOMAIN available /\ available[i.id] = i.hash

\* assert_additive: no term, superclass, domain or rule is lost, no kind or rule changes.
Additive(new, old) ==
  /\ \A t \in old.terms : \E u \in new.terms :
       /\ u.name = t.name /\ u.kind = t.kind
       /\ t.parents \subseteq u.parents /\ t.domain \subseteq u.domain
  /\ old.rules \subseteq new.rules

\* ontology_facts
OntologyFacts(onto) ==
  {Assertion(t.name, "kind", Literal(t.kind)) : t \in onto.terms}
  \cup UNION {{Assertion(t.name, "subClassOf", Term(c)) : c \in t.parents} : t \in onto.terms}
  \cup UNION {{Assertion(t.name, "domain", Term(c)) : c \in t.domain} : t \in onto.terms}

\* base_rules: transitive subclasses, subsumption, and a component without a declared input
\* (output) is a source (sink).
Rule(id, head, body) == [id |-> id, head |-> head, body |-> body]
BaseRules == {
  Rule("subclass-transitive", Atom(Var("x"), "subClassOf", Var("z")),
       <<Atom(Var("x"), "subClassOf", Var("y")), Atom(Var("y"), "subClassOf", Var("z"))>>),
  Rule("type-subsumption", Atom(Var("x"), "type", Var("c")),
       <<Atom(Var("x"), "type", Var("d")), Atom(Var("d"), "subClassOf", Var("c"))>>),
  Rule("source", Atom(Var("x"), "type", Term("Source")),
       <<Atom(Var("x"), "type", Term("Component")), Not(Atom(Var("x"), "input", Anything))>>),
  Rule("sink", Atom(Var("x"), "type", Term("Sink")),
       <<Atom(Var("x"), "type", Term("Component")), Not(Atom(Var("x"), "output", Anything))>>)}

\* base_ontology
Class(name, parents) == [name |-> name, kind |-> "class", parents |-> parents, domain |-> {}]
Property(name, domain) == [name |-> name, kind |-> "property", parents |-> {}, domain |-> domain]
BaseOntology ==
  [terms |->
     {Class(c, {}) : c \in {"Component", "Capability", "Port"}}
     \cup {Class(c, {"Component"}) : c \in {"Atomic", "Composite", "Model", "Source", "Sink"}}
     \cup {Class(c, {"Port"}) : c \in {"InputPort", "OutputPort"}}
     \cup {Property(p, {"Component"}) : p \in {"hasCapability", "implements", "input", "output"}}
     \cup {Property(p, {"Port"}) : p \in {"portType", "direction"}}
     \cup {Property(p, {}) : p \in {"feeds", "subClassOf", "domain", "range"}},
   rules |-> BaseRules, imports |-> {}]

-----------------------------------------------------------------------------
(* The projection of a network *)

\* project_graph: a component's class, capabilities, interfaces (its manifest's and its lock
\* entry's) and typed ports; an edge feeds the port of an input from the port of an output.
Port(c, dir, name) == c \o "." \o dir \o "." \o name
PortFacts(c, dir, name, type) ==
  LET port == Port(c, dir, name) IN
  {Assertion(c, dir, Term(port)),
   Assertion(port, "type", Term(IF dir = "input" THEN "InputPort" ELSE "OutputPort")),
   Assertion(port, "direction", Literal(dir)), Assertion(port, "portType", Literal(type))}
ComponentFacts(c) ==
  {Assertion(c.id, "type", Term(c.class)), Assertion(c.id, "kind", Literal(c.class))}
  \cup {Assertion(c.id, "hasCapability", Literal(k)) : k \in c.capabilities}
  \cup {Assertion(c.id, "implements", Literal(i)) : i \in c.implements \cup c.locked}
  \cup UNION {PortFacts(c.id, p.dir, p.name, p.type) : p \in c.ports}
Project(net) ==
  UNION {ComponentFacts(c) : c \in net.components}
  \cup {Assertion(Port(e.source, "output", e.out), "feeds", Term(Port(e.target, "input", e.in)))
           : e \in net.edges}

\* SemanticSubnet.merge_graph: the fragments of the subnet, each an owner's facts.
MergeGraph(fragments) == UNION Range(fragments)

-----------------------------------------------------------------------------
(* The closure *)

\* _unify: a bound variable matches its value, an unbound one anything, a term or literal itself.
Unify(q, value, b) ==
  IF q.k = "var" THEN q.n \notin DOMAIN b \/ b[q.n] = value ELSE q = value

\* _atom_matches and _negated_holds.  Variables of a negated atom that no positive atom binds
\* match anything, the same variable the same thing.
Matches(atom, fact, b) ==
  /\ fact.p = atom.p
  /\ Unify(atom.s, Term(fact.s), b) /\ Unify(atom.o, fact.o, b)
  /\ (atom.s = atom.o /\ atom.s.k = "var" /\ atom.s.n # "_") => Term(fact.s) = fact.o

\* _rule_bindings: the positive atoms of the body are joined from left to right; then no negative
\* one may match.
Binding(q, value) == IF q.k = "var" /\ q.n # "_" THEN q.n :> value ELSE <<>>
Join(bs, atom, facts) ==
  UNION {{b @@ Binding(atom.s, Term(f.s)) @@ Binding(atom.o, f.o) : f \in {g \in facts : Matches(atom, g, b)}}
           : b \in bs}
RuleBindings(rule, facts) ==
  {b \in FoldLeft(LAMBDA bs, atom : Join(bs, atom, facts), {<<>>}, Positive(rule)) :
     \A atom \in Range(rule.body) : atom.negated => \A f \in facts : ~Matches(atom, f, b)}

\* _derive
Resolved(q, b) == IF q.k = "var" THEN b[q.n] ELSE q
Derive(head, b) == Assertion(Resolved(head.s, b).n, head.p, Resolved(head.o, b))
Derived(rules, facts) ==
  UNION {{Derive(r.head, b) : b \in RuleBindings(r, facts)} : r \in rules}

\* _stratify: the least stratification, raised until nothing changes; -1 when it does not settle
\* in as many rounds as there are predicates and one.
Predicates(rules, facts) ==
  {f.p : f \in facts} \cup UNION {{atom.p : atom \in Range(r.body)} \cup {r.head.p} : r \in rules}
Unstratified == [p \in {} |-> 0]
Required(rules, stratum, p) ==
  Max({stratum[p]} \cup UNION {{stratum[atom.p] + (IF atom.negated THEN 1 ELSE 0) : atom \in Range(r.body)}
                                 : r \in {q \in rules : q.head.p = p}})
Stratify(rules, facts) ==
  LET P == Predicates(rules, facts)
      round[k \in Nat] ==
        IF k = 0 THEN [p \in P |-> 0]
        ELSE LET before == round[k - 1]
                 raised == [p \in P |-> Required(rules, before, p)]
             IN IF raised = before THEN before ELSE raised
      settled == round[Cardinality(P) + 1]
  IN IF settled = round[Cardinality(P)] THEN settled ELSE Unstratified

\* One level: its rules are applied to a snapshot, again and again, until nothing is added, or
\* the closure overflows.
Assertions == [s : STRING, p : STRING, o : [k : STRING, n : STRING]]
Saturate(rules, facts) ==
  LET grow[fs \in SUBSET Assertions] ==
        LET more == fs \cup Derived(rules, fs)
        IN IF more = fs \/ Cardinality(more) > MaxClosure THEN more ELSE grow[more]
  IN grow[facts]
Levels(rules, stratum, facts) ==
  LET level[k \in Nat] ==
        Saturate({r \in rules : stratum[r.head.p] = k}, IF k = 0 THEN facts ELSE level[k - 1])
  IN level[Max(Range(stratum))]

\* compute_closure: the graph's facts and the ontology's, level by level.  Overflow and an
\* unstratifiable program raise.
Overflow == [ok |-> FALSE, facts |-> {}]
ComputeClosure(graph, onto) ==
  LET base == graph \cup OntologyFacts(onto)
      stratum == Stratify(onto.rules, base)
      facts == Levels(onto.rules, stratum, base)
  IN IF Cardinality(base) > MaxClosure \/ stratum = Unstratified \/ Cardinality(facts) > MaxClosure
     THEN Overflow ELSE [ok |-> TRUE, facts |-> facts]

-----------------------------------------------------------------------------
(* Discovery and shapes *)

\* SemanticGraph.objects and subjects_of_type.
Objects(facts, s, p) == {f.o : f \in {g \in facts : g.s = s /\ g.p = p}}
SubjectsOfType(facts, class) == {f.s : f \in {g \in facts : g.p = "type" /\ g.o = Term(class)}}
SubjectsBelow(facts, onto, class) ==
  UNION {SubjectsOfType(facts, k) : k \in SubclassesOf(onto, class)}

\* _accepts_types and _produces_types: every type asked for fits some port ("any" fits all).
Compatible(t, u) == t = u \/ "any" \in {t, u}
Fits(facts, c, dir, types) ==
  \A t \in types : \E port \in Objects(facts, c, dir) :
    /\ port.k = "term"
    /\ \E u \in Objects(facts, port.n, "portType") : u.k = "lit" /\ Compatible(t, u.n)

\* discover: what is of the class or a class below it, has the capabilities and fits the types.
Discover(facts, onto, q) ==
  {c \in SubjectsBelow(facts, onto, q.class) :
     /\ \A k \in q.capabilities : Literal(k) \in Objects(facts, c, "hasCapability")
     /\ Fits(facts, c, "input", q.inputs) /\ Fits(facts, c, "output", q.outputs)}

\* validate_shape: too few or too many objects of a relation, one of the wrong kind or value,
\* and, if the shape is closed, a relation it does not name.
Violations(facts, onto, shape) ==
  LET subjects == SubjectsBelow(facts, onto, shape.target)
      values(c, r) == {o \in Objects(facts, c, r.relation) :
                         (r.literal /\ o.k # "lit") \/ (r.allowed # {} /\ o.n \notin r.allowed)}
      all == subjects \X shape.requirements
      count(x) == Cardinality(Objects(facts, x[1], x[2].relation))
      reported(kind, xs) == {<<x[1], x[2].relation, kind>> : x \in xs}
  IN reported("too-few", {x \in all : count(x) < x[2].min})
     \cup reported("too-many", {x \in all : count(x) > x[2].max})
     \cup reported("value", {x \in all : values(x[1], x[2]) # {}})
     \cup {<<f.s, f.p, "closed">> : f \in
        {g \in facts : /\ shape.closed /\ g.s \in subjects /\ g.p # "type"
                       /\ g.p \notin {r.relation : r \in shape.requirements}}}
=============================================================================

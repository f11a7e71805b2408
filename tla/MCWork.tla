-------------------------------- MODULE MCWork --------------------------------
(* Two owners bind the tasks of their bundles on one driver, a tree is booted    *)
(* over it, and each runs its component networks.                                *)
EXTENDS Integers, Sequences, TLC
CONSTANTS o1, o2, None

Sides == {"in", "out"}

NoTypes == [side \in Sides |-> <<>>]
NoPorts == [side \in Sides |-> <<>>]
Ports(ins, outs) == [side \in Sides |-> IF side = "in" THEN ins ELSE outs]
Comp(id, task, ports) ==
  [id |-> id, task |-> task, child |-> None, args |-> <<>>, ports |-> ports, types |-> NoTypes,
   stream |-> {}, external |-> <<>>, subnet |-> None]
Edge(s, f, t, a) == [source |-> s, field |-> f, target |-> t, arg |-> a, capacity |-> 1]
Doc(cs, es) == [components |-> cs, edges |-> es, iips |-> <<>>, malformed |-> FALSE]
One == <<"int", 1>>   Text == <<"str", 1>>
Fn(p, v) == [x \in {p} |-> v]
Typed(ins, outs) == [side \in Sides |-> IF side = "in" THEN ins ELSE outs]

\* 3 feeds 1 on both of its ports, 2 feeds the first of them too; 4 is given a value.
A == Comp(3, "a", Ports(<<1>>, <<1, 2>>))
B == Comp(1, "b", Ports(<<1, 2>>, <<>>))
Flow == [Doc(<<[A EXCEPT !.types = Typed(<<>>, Fn(1, "int"))], Comp(2, "b", Ports(<<>>, <<1>>)),
               [B EXCEPT !.types = Typed(Fn(2, "str"), <<>>)]>>,
             <<Edge(2, 1, 1, 1), Edge(3, 1, 1, 1), Edge(3, 2, 1, 2)>>)
         EXCEPT !.iips = <<[component |-> 3, port |-> 1, value |-> One]>>]
\* A typed port meets one of another type; a composite; a cycle; a network without ports; a child.
Clash == [Flow EXCEPT !.edges = Append(@, Edge(3, 1, 1, 2))]
Body == Doc(<<Comp(1, "b", Ports(<<1>>, <<>>))>>, <<>>)
Composite(body, inner) ==
  [Comp(2, "b", Ports(<<1>>, <<>>)) EXCEPT !.subnet = body, !.external = Fn(1, inner)]
Nested(c) == Doc(<<Comp(3, "a", Ports(<<>>, <<1>>)), c>>, <<Edge(3, 1, 2, 1)>>)
Deep == Nested(Composite(Nested(Composite(Body, <<1, 1>>)), <<2, 1>>))
Cycle == Doc(<<Comp(1, "a", NoPorts), Comp(2, "b", NoPorts), Comp(3, "a", NoPorts)>>,
             <<Edge(1, 1, 2, 1), Edge(2, 1, 1, 1)>>)
Plain == Doc(<<[Comp(2, "a", NoPorts) EXCEPT !.args = Fn(1, One)], Comp(1, "b", NoPorts)>>, <<Edge(2, 1, 1, 1)>>)
Child == Doc(<<[Comp(1, "c", NoPorts) EXCEPT !.child = "kid"], Comp(2, "b", NoPorts)>>, <<Edge(1, 1, 2, 1)>>)
Twice == Doc(<<Comp(1, "c", NoPorts), Comp(1, "a", NoPorts)>>, <<>>)

Unbound == Doc(<<Comp(1, "a", NoPorts), Comp(2, "c", NoPorts)>>, <<>>)

Bundle(name, entry) == [kind |-> "bundle", name |-> name, entry |-> entry]
Recipe == [id |-> "a", source |-> [url |-> "git", commit |-> "d1", digest |-> "d2", kind |-> "git"],
           generator |-> None, build |-> [language |-> "py", runtime |-> "python", toolchain |-> <<>>],
           verifier |-> [ref |-> "v", digest |-> "d1"], envelope |-> [timeout |-> 2, steps |-> 1, step_seconds |-> 1],
           grants |-> <<"net">>]
Generated == [Recipe EXCEPT !.source = None, !.generator = [ref |-> "g", digest |-> "d1", prompt |-> "p", seed |-> 0]]
Bare == [Recipe EXCEPT !.source = None]
Load(task, hash, key) == [task |-> task, hash |-> hash, expected |-> hash, signature |-> <<key, hash>>,
                          channel |-> "control", edges |-> FALSE]
MCOwners == {o1, o2}
MCDeclared == (o1 :> {"a", "b"}) @@ (o2 :> {"a"})
MCSpecs == (o1 :> <<Load("a", Bundle("a", "e1"), "key"), Load("b", Bundle("b", "e1"), "key")>>)
        @@ (o2 :> <<Load("a", Bundle("a", "e2"), "other"),
                    [Load("a", Bundle("a", "e3"), "other") EXCEPT !.expected = Bundle("a", "e2")]>>)
MCTrusted == (o1 :> "key") @@ (o2 :> None)
MCAllowlist == (o1 :> {"e1"}) @@ (o2 :> {})
MCSubprocess == (o1 :> FALSE) @@ (o2 :> TRUE)
MCPlans == (o1 :> <<Flow, Clash, Deep, Cycle, Plain, Child, Unbound>>) @@ (o2 :> <<>>)
MCTrees == <<[entries |-> 1 :> "e4" @@ 2 :> "e5", plans |-> <<Twice, Nested(Composite(Body, <<1, 1>>)), Plain>>]>>
MCRecipes == {Generated, Bare}
Dict(v, w) == <<"dict", 1 :> v @@ 2 :> w>>
MCAnswers == ("a" :> {<<Dict(One, Text), TRUE>>, <<Text, FALSE>>}) @@ ("b" :> {<<Text, TRUE>>, <<One, FALSE>>})
             @@ ("c" :> {<<One, TRUE>>, <<One, FALSE>>})
==============================================================================

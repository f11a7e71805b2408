----------------------------- MODULE MCOntology -----------------------------
(* A network of two components published to the store while an input of the second is asserted *)
(* by somebody else; an additive version with a rule that derives inputs, and one that is not   *)
(* additive or not well formed.                                                                 *)
EXTENDS OntologyStore

Net == [components |-> {[id |-> "a", class |-> "Atomic", capabilities |-> {"k"}, implements |-> {"i"},
                         locked |-> {}, ports |-> {[dir |-> "output", name |-> "o", type |-> "any"]}],
                        [id |-> "b", class |-> "Composite", capabilities |-> {}, implements |-> {},
                         locked |-> {}, ports |-> {[dir |-> "input", name |-> "i", type |-> "str"]}]},
        edges |-> {[source |-> "a", out |-> "o", target |-> "b", in |-> "i"]}]
\* The owner's fragment of the network: what it publishes.
Fragments == [owner |-> {f \in Project(Net) : f.s = "a" /\ f.p = "type"}, others |-> {}]
MCPublished == SetToSeq(MergeGraph(Fragments))
MCQueries == {[class |-> c, capabilities |-> {}, inputs |-> i, outputs |-> {}] : c \in {"Component"}, i \in {{}, {"str"}}}
MCShapes == {[target |-> "Component", closed |-> TRUE,
              requirements |-> {[relation |-> "input", min |-> 1, max |-> 1, literal |-> FALSE, allowed |-> {"p"}]}]}
MCExtra == {Assertion("b", "accepts", Term("q")), Assertion("b", "type", Term("Component"))}
Accepts == Rule("accepts", Atom(Var("x"), "input", Var("y")), <<Atom(Var("x"), "accepts", Var("y"))>>)
V2 == [BaseOntology EXCEPT !.terms = @ \cup {Class("Model", {"Component"})},
                           !.rules = @ \cup {Accepts}, !.imports = {[id |-> "core", hash |-> "h"]}]
Lossy == [BaseOntology EXCEPT !.terms = {t \in @ : t.name # "Atomic"} \cup {Class("Atomic", {"Port"})}]
Cyclic == [V2 EXCEPT !.terms = @ \cup {Class("X", {"Y"}), Class("Y", {"X"})}]
MCVersions == <<BaseOntology, V2, Lossy, Cyclic>>
MCAvailable == [i \in {"core"} |-> "h"]
=============================================================================

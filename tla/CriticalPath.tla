--------------------------- MODULE CriticalPath ---------------------------
(* The critical path method: analyse_cpm of cbp/critical_path.py over a network of activities, and *)
(* analyse_critical_path of control_plane/critical_path.py over a plan of stages.  A duration is a *)
(* multiple of a smallest unit.  Durations are Python numbers: sums of them are exact as long as    *)
(* they have at most Bits significant bits and are rounded to the nearest such number, ties to     *)
(* even, beyond; int arithmetic is exact (Bits as large as any sum), a float has 53 bits.          *)
EXTENDS Integers, Sequences, SequencesExt, FiniteSetsExt

CONSTANTS Networks,  \* sequences of activities [id, duration, deps]
          Plans,     \* plans [kind, stages, parent, recorded]; a stage is [costs, group]
          Bits

VARIABLES input, analysis
vars == <<input, analysis>>

NoAnalysis == [state |-> "none"]
Init ==
  /\ \/ \E net \in Networks : input = <<"network", net>>
     \/ \E plan \in Plans : input = <<"plan", plan>>
  /\ analysis = NoAnalysis

-----------------------------------------------------------------------------
(* Arithmetic.                                                                  *)

Abs(x) == IF x < 0 THEN -x ELSE x
RoundTo(u, x) ==
  LET down == (x \div u) * u
      over == x - down
  IN IF 2 * over < u \/ (2 * over = u /\ (x \div u) % 2 = 0) THEN down ELSE down + u
Rounded(x) ==
  IF Abs(x) < 2^Bits THEN x
  ELSE LET u == 2^(CHOOSE e \in 1..Bits + 2 : Abs(x) < 2^(Bits + e) /\ Abs(x) >= 2^(Bits + e - 1))
       IN IF x < 0 THEN -RoundTo(u, -x) ELSE RoundTo(u, x)
Plus(x, y) == Rounded(x + y)
Minus(x, y) == Rounded(x - y)

-----------------------------------------------------------------------------
(* cbp/critical_path.py                                                         *)

Ids(net) == {net[i].id : i \in DOMAIN net}
\* by_id; ids are unique where it is used.
ById(net) == [n \in Ids(net) |-> net[CHOOSE i \in DOMAIN net : net[i].id = n]]

Malformed(net) ==
  \/ Cardinality(Ids(net)) < Len(net)
  \/ \E i \in DOMAIN net : net[i].duration <= 0 \/ net[i].id \in net[i].deps \/ ~(net[i].deps \subseteq Ids(net))

\* _topo_sort: of the activities whose dependencies are placed, the one with the smallest id.
TopoSort(net) ==
  LET node == ById(net)
      Place(placed, i) ==
        LET ready == {n \in Ids(net) \ ToSet(placed) : node[n].deps \subseteq ToSet(placed)}
        IN IF ready = {} THEN placed ELSE Append(placed, Min(ready))
  IN FoldLeft(Place, <<>>, net)

MaxOr(S, default) == IF S = {} THEN default ELSE Max(S)
MinOr(S, default) == IF S = {} THEN default ELSE Min(S)

\* _critical_chain: the longest chain of critical activities ending at each, then back from the
\* longest of all; of several the first in order, and of several predecessors the last by id.
Chain(net, order, es, ef, on) ==
  LET node == ById(net)
      critical == SelectSeq(order, LAMBDA n : on[n])
      Tied(n) == {d \in node[n].deps : on[d] /\ ef[d] = es[n]}
      length[n \in ToSet(critical)] ==
        LET Extended(d) == Plus(length[d], node[n].duration)
        IN MaxOr({node[n].duration} \cup {Extended(d) : d \in Tied(n)}, 0)
      Prev(n) == {d \in Tied(n) : Plus(length[d], node[n].duration) = length[n]}
      Back[n \in ToSet(critical)] == IF Prev(n) = {} THEN <<n>> ELSE Append(Back[Max(Prev(n))], n)
      longest == Max({length[n] : n \in ToSet(critical)})
  IN IF critical = <<>> THEN <<>> ELSE Back[SelectSeq(critical, LAMBDA n : length[n] = longest)[1]]

\* A mistake: an activity starts when the first of its dependencies is finished.
FirstFinish(ends) == MinOr(ends, 0)
EarlyStart(ends) == MaxOr(ends, 0)

\* analyse_cpm: the forward pass, the backward pass, and the chain.
Analyse(net) ==
  LET order == TopoSort(net)
      node == ById(net)
      ef[n \in Ids(net)] == Plus(EarlyStart({ef[d] : d \in node[n].deps}), node[n].duration)
      es == [n \in Ids(net) |-> EarlyStart({ef[d] : d \in node[n].deps})]
      end == MaxOr({ef[n] : n \in Ids(net)}, 0)
      ls[n \in Ids(net)] == Minus(MinOr({ls[m] : m \in {k \in Ids(net) : n \in node[k].deps}}, end), node[n].duration)
      slack == [n \in Ids(net) |-> Minus(ls[n], es[n])]
  IN IF Malformed(net) \/ Len(order) < Len(net) THEN [state |-> "refused"]
     ELSE [state |-> "ok", duration |-> end, slack |-> slack,
           path |-> Chain(net, order, es, ef, [n \in Ids(net) |-> slack[n] = 0])]

-----------------------------------------------------------------------------
(* control_plane/critical_path.py.  A stage of costs <<0>> has no envelope of its own.             *)

StageCost(plan, i) ==
  LET Effective(c) == IF c = 0 THEN plan.parent ELSE c
  IN IF i \in DOMAIN plan.recorded THEN plan.recorded[i]
     ELSE Max({Effective(c) : c \in ToSet(plan.stages[i])})
AnalysePlan(plan) ==
  LET cost == [i \in DOMAIN plan.stages |-> StageCost(plan, i)]
      greatest == Max({cost[i] : i \in DOMAIN cost})
  IN IF plan.kind = "sequential"
     THEN [state |-> "plan", duration |-> FoldLeft(Plus, 0, cost), slack |-> [i \in DOMAIN cost |-> 0],
           path |-> [i \in DOMAIN cost |-> i]]
     ELSE [state |-> "plan", duration |-> greatest, slack |-> [i \in DOMAIN cost |-> greatest - cost[i]],
           path |-> SelectSeq([i \in DOMAIN cost |-> i], LAMBDA i : cost[i] = greatest)]

-----------------------------------------------------------------------------
Of(what) == input[1] = what
AnalyseNetwork == analysis = NoAnalysis /\ Of("network") /\ analysis' = Analyse(input[2]) /\ UNCHANGED input
AnalyseStages == analysis = NoAnalysis /\ Of("plan") /\ analysis' = AnalysePlan(input[2]) /\ UNCHANGED input
Next == AnalyseNetwork \/ AnalyseStages
Spec == Init /\ [][Next]_vars

-----------------------------------------------------------------------------
(* The reference: the chains of a network, one after another by dependency.     *)

Orders(S) == UNION {{s \in [1..k -> S] : IsInjective(s)} : k \in 0..Cardinality(S)}
Runs(net) ==
  LET node == ById(net)
  IN {c \in Orders(Ids(net)) \ {<<>>} : \A i \in 2..Len(c) : c[i - 1] \in node[c[i]].deps}
Total(net, c) == FoldLeft(LAMBDA sum, n : sum + ById(net)[n].duration, 0, c)
Cyclic(net) == \E c \in Runs(net) : Last(c) \in ById(net)[Head(c)].deps

\* With exact durations the analysis refuses exactly the networks that are no DAG of positive
\* durations; the duration is that of the longest chain, the critical path is such a chain, and the
\* slack of an activity is by how much the longest chain through it is shorter.
ChainSpansProject ==
  Of("network") /\ analysis # NoAnalysis =>
    LET net == input[2]
    IN IF Malformed(net) \/ Cyclic(net) THEN analysis.state = "refused"
       ELSE LET runs == Runs(net)
                longest == MaxOr({Total(net, c) : c \in runs}, 0)
            IN /\ analysis.state = "ok" /\ analysis.duration = longest
               /\ net # <<>> => analysis.path \in runs /\ Total(net, analysis.path) = longest
               /\ \A n \in Ids(net) :
                    analysis.slack[n] = longest - Max({Total(net, c) : c \in {r \in runs : n \in ToSet(r)}})

\* A plan of stages is analysed as the network of activities it stands for is: a chain if it is
\* sequential, unrelated activities if it is parallel.
NetworkOf(plan) ==
  [i \in DOMAIN plan.stages |->
     [id |-> i, duration |-> StageCost(plan, i),
      deps |-> IF plan.kind = "sequential" /\ i > 1 THEN {i - 1} ELSE {}]]
PlansAgree ==
  Of("plan") /\ analysis # NoAnalysis /\ ~Malformed(NetworkOf(input[2])) =>
    LET cpm == Analyse(NetworkOf(input[2]))
    IN /\ analysis.duration = cpm.duration /\ analysis.slack = cpm.slack
       /\ ToSet(analysis.path) = {i \in DOMAIN cpm.slack : cpm.slack[i] = 0}

\* The docstring of CpmAnalysis: the critical path is the chain "that dominates the project end",
\* so that a network of activities has one.
EveryProjectHasACriticalPath ==
  analysis.state = "ok" /\ input[2] # <<>> => analysis.path # <<>>
=============================================================================

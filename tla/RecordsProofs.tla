---------------------------- MODULE RecordsProofs ----------------------------
(* Theorems about OntologyStore, for any assertions, processes and versions and *)
(* any number of torn writes: the log keeps what it acknowledged, a verified    *)
(* index is the log's, and a cached closure is the one asked for.  And about    *)
(* Holdout, for any suites, deployments, validators, edits and threshold: what  *)
(* a green verdict and a record of the shared ledger are worth.                 *)
EXTENDS MCRecords, FiniteSetTheorems, SequenceTheorems, TLAPS

-----------------------------------------------------------------------------
(* The inductive invariant *)

Once == \A i, j \in DOMAIN log : log[i] = log[j] /\ log[i] \in Facts => i = j
TornIsLast == \A i \in DOMAIN log : log[i] = Torn => i = Len(log) /\ open

\* A line without its newline may still cost itself and the line behind it.
Costs == Cardinality(acked \ Graph) + (IF open THEN 2 ELSE 0) <= 2 * tears

\* What a process read is in the log as long as that can be read.
Reads ==
  \A p \in Procs :
    /\ At(p, "verify") => (Readable => local[p].graph \subseteq Graph)
    /\ At(p, "compare") => /\ local[p].graph \subseteq local[p].read
                           /\ Readable => local[p].read \subseteq Graph

\* A row of the cache holds the closure of the graph and the ontology it is filed under.
RowsAreTrue ==
  /\ \A r \in cached : r.closure = <<r.graph, r.onto>>
  /\ answer # None => answer.closure = <<answer.graph, answer.onto>>

IInv == TypeOK /\ Once /\ TornIsLast /\ Costs /\ Reads /\ VerifiedRowsAreLogs /\ RowsAreTrue

-----------------------------------------------------------------------------
(* Writing a line *)

\* A step that writes one line: behind a line without its newline nothing written can be read.
Writes(line) ==
  /\ log' = Write(line) /\ line \in Lines
  /\ line \in Facts => ~open /\ line \notin Graph
  /\ line = Torn => open'

\* The line is the last one of the new log, and only a line without newline is replaced.
LEMMA WriteIs ==
  ASSUME TypeOK, NEW line \in Lines
  PROVE  LET new == Write(line) IN
         /\ new \in Seq(Lines) /\ Len(new) \in Nat \ {0} /\ new # <<>>
         /\ Len(new) = IF open THEN Len(log) ELSE Len(log) + 1
         /\ DOMAIN new = 1..Len(new) /\ new[Len(new)] = line
         /\ \A i \in 1..Len(new) : i # Len(new) => i \in DOMAIN log /\ new[i] = log[i]
         /\ \A i \in DOMAIN log :
              \/ i # Len(new) /\ i \in 1..Len(new) /\ new[i] = log[i]
              \/ open /\ i = Len(log)
<1>1. CASE open
  <2>1. Len(log) \in Nat \ {0} /\ Len(log) \in DOMAIN log /\ DOMAIN log = 1..Len(log)
    BY <1>1 DEF TypeOK
  <2>2. Write(line) = [log EXCEPT ![Len(log)] = line]
    BY <1>1 DEF Write
  <2>3. Write(line) \in Seq(Lines) /\ Len(Write(line)) = Len(log) /\ DOMAIN Write(line) = DOMAIN log
    BY <2>1, <2>2 DEF TypeOK
  <2>4. \A i \in DOMAIN log : Write(line)[i] = IF i = Len(log) THEN line ELSE log[i]
    BY <2>2
  <2> QED BY <1>1, <2>1, <2>3, <2>4
<1>2. CASE ~open
  <2>1. Write(line) = Append(log, line)
    BY <1>2 DEF Write
  <2> QED BY <1>2, <2>1 DEF TypeOK
<1> QED BY <1>1, <1>2 DEF TypeOK

\* A log that can be read has grown; one that cannot be read stays so.
LEMMA Grows ==
  ASSUME TypeOK, TornIsLast, NEW line, Writes(line), Readable'
  PROVE  Readable /\ Graph \subseteq Graph'
<1>1. log'[Len(log')] = line /\ Len(log') \in DOMAIN log'
  BY WriteIs DEF Writes
<1>2. line \notin {Torn, Garbled}
  BY <1>1 DEF Readable, Range
<1>3. ~open
  BY <1>2 DEF Writes, Lines
<1>4. \A i \in DOMAIN log : i \in DOMAIN log' /\ log'[i] = log[i]
  BY <1>3, WriteIs DEF Writes
<1>5. Graph \subseteq Graph'
  BY <1>4 DEF Graph, Range
<1> QED BY <1>5 DEF Readable, Graph

\* A line that was replaced is the only one the log can lose.
LEMMA Loses ==
  ASSUME TypeOK, NEW line, Writes(line)
  PROVE  /\ line \in Graph'
         /\ ~open => Graph \subseteq Graph'
         /\ open => Graph \subseteq Graph' \cup {log[Len(log)]}
<1>1. log'[Len(log')] = line /\ Len(log') \in DOMAIN log'
  BY WriteIs DEF Writes
<1>2. \A i \in DOMAIN log :
        \/ i \in DOMAIN log' /\ log'[i] = log[i]
        \/ open /\ i = Len(log)
  BY WriteIs DEF Writes
<1> QED BY <1>1, <1>2 DEF Graph, Range

\* What a step may do to the log and to what was acknowledged.
Untouched == UNCHANGED <<log, open, acked, tears>>
Appended(a) ==
  /\ a \in Facts /\ acked' = acked \cup {a} /\ tears' = tears
  /\ \/ a \in Graph /\ UNCHANGED <<log, open>>
     \/ \E line : Writes(line) /\ open' = FALSE /\ (~open => line = a)
Torn_(a) ==
  /\ acked' = acked /\ tears' = tears + 1
  /\ \E line : Writes(line) /\ open' = TRUE

LEMMA AppendIs ==
  ASSUME TypeOK, NEW a \in Facts, AppendAssertion(a), tears' = tears
  PROVE  Appended(a)
<1>1. CASE a \in Range(log)
  BY <1>1 DEF AppendAssertion, Appended, Graph
<1>2. CASE a \notin Range(log)
  <2> DEFINE line == IF open THEN Garbled ELSE a
  <2>1. log' = Write(line) /\ open' = FALSE /\ acked' = acked \cup {a}
    BY <1>2 DEF AppendAssertion
  <2>2. line \in Lines /\ (~open => line = a) /\ line # Torn
    BY LinesOK DEF Lines
  <2>3. line \in Facts => ~open /\ line \notin Graph
    BY <1>2, LinesOK DEF Graph
  <2>4. Writes(line)
    BY <2>1, <2>2, <2>3 DEF Writes
  <2> HIDE DEF line
  <2> QED BY <2>1, <2>2, <2>4 DEF Appended
<1> QED BY <1>1, <1>2

LEMMA LogSteps ==
  ASSUME TypeOK, [Next]_vars
  PROVE  Untouched \/ (\E a \in Facts : Appended(a)) \/ (\E a : Torn_(a))
<1>1. ASSUME NEW p \in Indexers, Publish(p) PROVE \E a \in Facts : Appended(a)
  <2>1. local[p].next \in Nat \ {0}
    BY LinesOK DEF TypeOK
  <2>2. Published[local[p].next] \in Facts
    BY <1>1, <2>1, LinesOK DEF Publish
  <2>3. AppendAssertion(Published[local[p].next]) /\ tears' = tears
    BY <1>1 DEF Publish
  <2> QED BY <2>2, <2>3, AppendIs
<1>2. ASSUME NEW p \in Procs, NEW a \in Extra, AppendExtra(p, a) PROVE Appended(a)
  <2>1. a \in Facts /\ AppendAssertion(a) /\ tears' = tears
    BY <1>2 DEF AppendExtra, Facts
  <2> QED BY <2>1, AppendIs
<1>3. ASSUME NEW p \in Procs, NEW a \in Extra, Tear(p, a) PROVE Torn_(a)
  <2>1. PICK written \in {Torn, a} : log' = Write(IF open THEN Torn ELSE written)
    BY <1>3 DEF Tear
  <2> DEFINE line == IF open THEN Torn ELSE written
  <2>2. log' = Write(line) /\ open' = TRUE /\ acked' = acked /\ tears' = tears + 1 /\ a \notin Graph
    BY <1>3, <2>1 DEF Tear, Graph
  <2>3. line \in Lines /\ (line \in Facts => ~open /\ line \notin Graph)
    BY <2>2, LinesOK DEF Lines, Facts
  <2> HIDE DEF line
  <2> QED BY <2>2, <2>3 DEF Torn_, Writes
<1>4. CASE UNCHANGED vars
  BY <1>4 DEF vars, Untouched
<1>5. CASE Upgrade
  BY <1>5 DEF Upgrade, Untouched, observed
<1>6. ASSUME NEW p \in Indexers, StartIndex(p) \/ FinishIndex(p) PROVE Untouched
  BY <1>6 DEF StartIndex, FinishIndex, Untouched, observed
<1>7. ASSUME NEW p \in Closers, StartVerify(p) \/ ReadRows(p) \/ CompareRows(p) PROVE Untouched
  BY <1>7 DEF StartVerify, ReadRows, CompareRows, Untouched, observed
<1>8. ASSUME NEW p \in Closers, Close(p) \/ CacheClosure(p) \/ Lookup(p) PROVE Untouched
  BY <1>8 DEF Close, CacheClosure, Lookup, Untouched, observed
<1> QED BY <1>1, <1>2, <1>3, <1>4, <1>5, <1>6, <1>7, <1>8 DEF Next, Facts

-----------------------------------------------------------------------------
(* The parts of the invariant *)

LEMMA Readers ==
  ASSUME TypeOK, NEW p \in Procs
  PROVE  /\ local[p].pc \in {"idle", "index", "verify", "compare", "closed"}
         /\ local[p].graph \in SUBSET Lines /\ local[p].read \in SUBSET Lines
         /\ local[p].onto \in {1} \cup DOMAIN Versions /\ local[p].next \in Nat \ {0}
BY DEF TypeOK

LEMMA LogTypeKept ==
  ASSUME TypeOK, NEW line, Writes(line)
  PROVE  log' \in Seq(Lines) /\ log' # <<>>
BY WriteIs DEF Writes

LEMMA Graphs ==
  ASSUME TypeOK
  PROVE  Graph \in SUBSET Lines
BY DEF TypeOK, Graph, Range

LEMMA LocalKept ==
  ASSUME TypeOK, [Next]_vars
  PROVE  /\ onto' \in {1} \cup DOMAIN Versions
         /\ local' \in [Procs -> [pc : {"idle", "index", "verify", "compare", "closed"},
                                  graph : SUBSET Lines, read : SUBSET Lines,
                                  onto : {1} \cup DOMAIN Versions, next : Nat \ {0}]]
<1> DEFINE Local == [pc : {"idle", "index", "verify", "compare", "closed"},
                     graph : SUBSET Lines, read : SUBSET Lines,
                     onto : {1} \cup DOMAIN Versions, next : Nat \ {0}]
<1>1. local \in [Procs -> Local] /\ onto \in {1} \cup DOMAIN Versions /\ Graph \in SUBSET Lines
  BY Graphs DEF TypeOK
<1>0. ASSUME NEW p \in Procs, NEW l \in Local, local' = [local EXCEPT ![p] = l]
      PROVE  local' \in [Procs -> Local]
  BY <1>0, <1>1
<1>2. ASSUME NEW p \in Procs, Rest(p) PROVE local' \in [Procs -> Local]
  <2>1. [Idle EXCEPT !.next = local[p].next] \in Local
    BY <1>1 DEF Idle
  <2> QED BY <1>1, <1>2, <2>1 DEF Rest
<1>3. ASSUME NEW p \in Indexers, Publish(p) PROVE local' \in [Procs -> Local] /\ onto' = onto
  <2>1. p \in Procs /\ local[p] \in Local /\ onto' = onto
    BY <1>1, <1>3, LinesOK DEF Publish
  <2>2. [local[p] EXCEPT !.next = @ + 1] \in Local
    BY <2>1
  <2>3. local' = [local EXCEPT ![p] = [local[p] EXCEPT !.next = @ + 1]]
    BY <1>3 DEF Publish
  <2> HIDE DEF Local
  <2> QED BY <1>0, <2>1, <2>2, <2>3
<1>4. ASSUME NEW p \in Procs, NEW a \in Extra, AppendExtra(p, a) \/ Tear(p, a)
      PROVE local' = local /\ onto' = onto
  BY <1>4 DEF AppendExtra, Tear
<1>5. ASSUME NEW p \in Indexers, StartIndex(p) PROVE local' \in [Procs -> Local] /\ onto' = onto
  BY <1>1, <1>5, LinesOK DEF StartIndex
<1>6. ASSUME NEW p \in Indexers, FinishIndex(p) PROVE local' \in [Procs -> Local] /\ onto' = onto
  <2>1. Rest(p) /\ onto' = onto
    BY <1>6 DEF FinishIndex
  <2> QED BY <1>2, <2>1, LinesOK
<1>7. ASSUME NEW p \in Closers, StartVerify(p) PROVE local' \in [Procs -> Local] /\ onto' = onto
  BY <1>1, <1>7, LinesOK DEF StartVerify
<1>8. ASSUME NEW p \in Closers, ReadRows(p) PROVE local' \in [Procs -> Local] /\ onto' = onto
  <2>1. CASE Readable
    <3> DEFINE l == [local[p] EXCEPT !.pc = "compare", !.read = Graph]
    <3>1. p \in Procs /\ local[p] \in Local /\ onto' = onto
      BY <1>1, <1>8, LinesOK DEF ReadRows
    <3>2. l \in Local
      BY <1>1, <3>1
    <3>3. local' = [local EXCEPT ![p] = l]
      BY <1>1, <1>8, <2>1 DEF ReadRows
    <3> HIDE DEF Local, l
    <3> QED BY <1>0, <3>1, <3>2, <3>3
  <2>2. CASE ~Readable
    <3>1. Rest(p) /\ onto' = onto
      BY <1>8, <2>2 DEF ReadRows
    <3> QED BY <1>2, <3>1, LinesOK
  <2> QED BY <2>1, <2>2
<1>9. ASSUME NEW p \in Closers, CompareRows(p) \/ CacheClosure(p)
      PROVE local' \in [Procs -> Local] /\ onto' = onto
  <2>1. Rest(p) /\ onto' = onto
    BY <1>9 DEF CompareRows, CacheClosure
  <2> QED BY <1>2, <2>1, LinesOK
<1>10. ASSUME NEW p \in Closers, Close(p) PROVE local' \in [Procs -> Local] /\ onto' = onto
  <2> DEFINE l == [local[p] EXCEPT !.pc = "closed", !.graph = Graph, !.onto = onto]
  <2>1. p \in Procs /\ local[p] \in Local /\ onto' = onto
    BY <1>1, <1>10, LinesOK DEF Close
  <2>2. l \in Local
    BY <1>1, <2>1
  <2>3. local' = [local EXCEPT ![p] = l]
    BY <1>1, <1>10 DEF Close
  <2> HIDE DEF Local, l
  <2> QED BY <1>0, <2>1, <2>2, <2>3
<1>11. ASSUME NEW p \in Closers, Lookup(p) PROVE local' = local /\ onto' = onto
  BY <1>11 DEF Lookup
<1>12. CASE Upgrade
  BY <1>1, <1>12 DEF Upgrade
<1>13. CASE UNCHANGED vars
  BY <1>1, <1>13 DEF vars
<1> QED
  BY <1>1, <1>3, <1>4, <1>5, <1>6, <1>7, <1>8, <1>9, <1>10, <1>11, <1>12, <1>13 DEF Next

LEMMA TypeKept ==
  ASSUME TypeOK, [Next]_vars
  PROVE  TypeOK'
<1>1. log' \in Seq(Lines) /\ open' \in BOOLEAN /\ (open' => log' # <<>>)
      /\ acked' \subseteq Facts /\ IsFiniteSet(acked') /\ tears' \in Nat
  <2>1. CASE Untouched
    BY <2>1 DEF Untouched, TypeOK
  <2>2. ASSUME NEW a \in Facts, Appended(a) PROVE <1>1!:
    <3>1. acked' \subseteq Facts /\ tears' \in Nat
      BY <2>2 DEF Appended, TypeOK
    <3>2. IsFiniteSet(acked')
      BY <2>2, FS_AddElement DEF Appended, TypeOK
    <3>3. log' \in Seq(Lines) /\ open' \in BOOLEAN /\ (open' => log' # <<>>)
      <4>1. CASE UNCHANGED <<log, open>>
        BY <4>1 DEF TypeOK
      <4>2. ASSUME NEW line, Writes(line), open' = FALSE PROVE <3>3!:
        BY <4>2, LogTypeKept
      <4> QED BY <2>2, <4>1, <4>2 DEF Appended
    <3> QED BY <3>1, <3>2, <3>3
  <2>3. ASSUME NEW a, Torn_(a) PROVE <1>1!:
    BY <2>3, LogTypeKept DEF Torn_, TypeOK
  <2> QED BY <2>1, <2>2, <2>3, LogSteps
<1> QED BY <1>1, LocalKept DEF TypeOK

LEMMA OnceKept ==
  ASSUME TypeOK, Once, [Next]_vars
  PROVE  Once'
<1>1. CASE UNCHANGED log
  BY <1>1 DEF Once
<1>2. ASSUME NEW line, Writes(line) PROVE Once'
  <2> DEFINE n == Len(log')
  <2>1. n \in Nat \ {0} /\ DOMAIN log' = 1..n /\ log'[n] = line
    BY <1>2, WriteIs DEF Writes
  <2>2. \A i \in 1..n : i # n => i \in DOMAIN log /\ log'[i] = log[i]
    BY <1>2, WriteIs DEF Writes
  <2>3. line \in Facts => \A i \in DOMAIN log : log[i] # line
    BY <1>2 DEF Writes, Graph, Range
  <2> HIDE DEF n
  <2> QED BY <2>1, <2>2, <2>3 DEF Once
<1> QED BY <1>1, <1>2, LogSteps DEF Untouched, Appended, Torn_

LEMMA TornIsLastKept ==
  ASSUME TypeOK, TornIsLast, [Next]_vars
  PROVE  TornIsLast'
<1>1. CASE UNCHANGED <<log, open>>
  BY <1>1 DEF TornIsLast
<1>2. ASSUME NEW line, Writes(line) PROVE TornIsLast'
  <2> DEFINE n == Len(log')
  <2>1. n \in Nat \ {0} /\ DOMAIN log' = 1..n /\ log'[n] = line
        /\ n = IF open THEN Len(log) ELSE Len(log) + 1
    BY <1>2, WriteIs DEF Writes
  <2>2. \A i \in 1..n : i # n => i \in DOMAIN log /\ log'[i] = log[i]
    BY <1>2, WriteIs DEF Writes
  <2>3. \A i \in 1..n : i # n => log'[i] # Torn
    BY <2>1, <2>2 DEF TornIsLast
  <2>4. line = Torn => open'
    BY <1>2 DEF Writes
  <2> HIDE DEF n
  <2>5. \A i \in 1..n : log'[i] = Torn => i = n /\ open'
    BY <2>1, <2>3, <2>4
  <2> QED BY <2>1, <2>5 DEF TornIsLast, n
<1> QED BY <1>1, <1>2, LogSteps DEF Untouched, Appended, Torn_

\* One more element is at most one more lost.
LEMMA OneMore ==
  ASSUME NEW S, NEW T, NEW x, IsFiniteSet(S), T \subseteq S \cup {x}
  PROVE  /\ IsFiniteSet(T) /\ Cardinality(T) \in Nat /\ Cardinality(S) \in Nat
         /\ Cardinality(T) <= Cardinality(S) + 1
<1>1. IsFiniteSet(S \cup {x}) /\ Cardinality(S \cup {x}) <= Cardinality(S) + 1
      /\ Cardinality(S) \in Nat
  BY FS_AddElement, FS_CardinalityType
<1>2. Cardinality(T) <= Cardinality(S \cup {x}) /\ IsFiniteSet(T)
  BY <1>1, FS_Subset
<1> QED BY <1>1, <1>2, FS_CardinalityType

LEMMA CostsKept ==
  ASSUME TypeOK, Costs, [Next]_vars
  PROVE  Costs'
<1> DEFINE lost == acked \ Graph
           last == log[Len(log)]
<1>0. IsFiniteSet(lost) /\ Cardinality(lost) \in Nat /\ tears \in Nat
  BY FS_Subset, FS_CardinalityType DEF TypeOK
<1>1. CASE Untouched
  BY <1>1 DEF Untouched, Costs, Graph, Range
<1>2. ASSUME NEW a \in Facts, Appended(a) PROVE Costs'
  <2>1. acked' = acked \cup {a} /\ tears' = tears
    BY <1>2 DEF Appended
  <2>2. CASE a \in Graph /\ UNCHANGED <<log, open>>
    <3>1. lost' = lost
      BY <2>1, <2>2 DEF Graph
    <3> QED BY <2>1, <2>2, <3>1 DEF Costs
  <2>3. ASSUME NEW line, Writes(line), open' = FALSE, ~open => line = a PROVE Costs'
    <3>1. CASE ~open
      <4>1. lost' \subseteq lost
        BY <2>1, <2>3, <3>1, Loses
      <4>2. Cardinality(lost') <= Cardinality(lost) /\ Cardinality(lost') \in Nat
        BY <1>0, <4>1, FS_Subset, FS_CardinalityType
      <4> HIDE DEF lost
      <4>3. Cardinality(lost) <= 2 * tears
        BY <1>0, <3>1 DEF Costs, lost
      <4>4. Cardinality(lost') <= 2 * tears'
        BY <1>0, <2>1, <4>2, <4>3
      <4> QED BY <1>0, <2>1, <2>3, <4>2, <4>4 DEF Costs, lost
    <3>2. CASE open
      <4>1. lost' \subseteq (lost \cup {last}) \cup {a}
        BY <2>1, <2>3, <3>2, Loses
      <4>2. IsFiniteSet(lost \cup {last}) /\ Cardinality(lost \cup {last}) <= Cardinality(lost) + 1
            /\ Cardinality(lost \cup {last}) \in Nat
        BY <1>0, OneMore
      <4>3. Cardinality(lost') <= Cardinality(lost \cup {last}) + 1 /\ Cardinality(lost') \in Nat
        BY <4>1, <4>2, OneMore
      <4>4. Cardinality(lost) + 2 <= 2 * tears
        BY <3>2 DEF Costs
      <4> HIDE DEF lost, last
      <4>5. Cardinality(lost') <= 2 * tears'
        BY <1>0, <2>1, <4>2, <4>3, <4>4
      <4> QED BY <1>0, <2>1, <2>3, <4>3, <4>5 DEF Costs, lost
    <3> QED BY <3>1, <3>2
  <2> QED BY <1>2, <2>2, <2>3 DEF Appended
<1>3. ASSUME NEW a, Torn_(a) PROVE Costs'
  <2>1. PICK line : Writes(line) /\ open' = TRUE
    BY <1>3 DEF Torn_
  <2>2. acked' = acked /\ tears' = tears + 1
    BY <1>3 DEF Torn_
  <2>3. CASE ~open
    <3>1. lost' \subseteq lost
      BY <2>1, <2>2, <2>3, Loses
    <3>2. Cardinality(lost') <= Cardinality(lost) /\ Cardinality(lost') \in Nat
      BY <1>0, <3>1, FS_Subset, FS_CardinalityType
    <3>3. Cardinality(lost) <= 2 * tears
      BY <1>0, <2>3 DEF Costs
    <3> HIDE DEF lost
    <3>4. Cardinality(lost') + 2 <= 2 * tears'
      BY <1>0, <2>2, <3>2, <3>3
    <3> QED BY <2>1, <3>4 DEF Costs, lost
  <2>4. CASE open
    <3>1. lost' \subseteq lost \cup {last}
      BY <2>1, <2>2, <2>4, Loses
    <3>2. Cardinality(lost') <= Cardinality(lost) + 1 /\ Cardinality(lost') \in Nat
      BY <1>0, <3>1, OneMore
    <3>3. Cardinality(lost) + 2 <= 2 * tears
      BY <2>4 DEF Costs
    <3> HIDE DEF lost, last
    <3>4. Cardinality(lost') + 2 <= 2 * tears'
      BY <1>0, <2>2, <3>2, <3>3
    <3> QED BY <2>1, <3>4 DEF Costs, lost
  <2> QED BY <2>3, <2>4
<1> QED BY <1>1, <1>2, <1>3, LogSteps

\* As long as the log can be read, what anybody has read is in it.
LEMMA LogGrows ==
  ASSUME TypeOK, TornIsLast, [Next]_vars, Readable'
  PROVE  Readable /\ Graph \subseteq Graph'
<1>1. CASE UNCHANGED log
  BY <1>1 DEF Readable, Graph
<1>2. ASSUME NEW line, Writes(line) PROVE Readable /\ Graph \subseteq Graph'
  BY <1>2, Grows
<1> QED BY <1>1, <1>2, LogSteps DEF Untouched, Appended, Torn_

\* How a step changes what a process works with.
LEMMA LocalSteps ==
  ASSUME TypeOK, [Next]_vars, NEW p \in Procs
  PROVE  \/ local'[p] = local[p]
         \/ local'[p].pc \notin {"verify", "compare"}
         \/ /\ local'[p].pc = "verify" /\ Graph' = Graph
            /\ local'[p].graph = Graph
         \/ /\ At(p, "verify") /\ Readable /\ Graph' = Graph
            /\ local'[p].pc = "compare" /\ local'[p].graph = local[p].graph
            /\ local'[p].read = Graph
<1>1. ASSUME NEW q \in Procs, Rest(q)
      PROVE  local'[p] = local[p] \/ local'[p].pc \notin {"verify", "compare"}
  BY <1>1 DEF Rest, Idle, TypeOK
<1>2. ASSUME NEW q \in Indexers, Publish(q)
      PROVE  local'[p] = local[p] \/ local'[p].pc \notin {"verify", "compare"}
  BY <1>2, LinesOK DEF Publish, At, TypeOK
<1>3. ASSUME NEW q \in Indexers, StartIndex(q)
      PROVE  local'[p] = local[p] \/ local'[p].pc \notin {"verify", "compare"}
  BY <1>3, LinesOK DEF StartIndex, TypeOK
<1>4. ASSUME NEW q \in Indexers, FinishIndex(q)
      PROVE  local'[p] = local[p] \/ local'[p].pc \notin {"verify", "compare"}
  <2>1. Rest(q) /\ q \in Procs
    BY <1>4, LinesOK DEF FinishIndex
  <2> QED BY <1>1, <2>1
<1>5. ASSUME NEW q \in Closers, StartVerify(q)
      PROVE  \/ local'[p] = local[p]
             \/ local'[p].pc = "verify" /\ Graph' = Graph /\ local'[p].graph = Graph
  BY <1>5, LinesOK DEF StartVerify, TypeOK, Graph
<1>6. ASSUME NEW q \in Closers, ReadRows(q)
      PROVE  \/ local'[p] = local[p]
             \/ local'[p].pc \notin {"verify", "compare"}
             \/ /\ At(p, "verify") /\ Readable /\ Graph' = Graph
                /\ local'[p].pc = "compare" /\ local'[p].graph = local[p].graph
                /\ local'[p].read = Graph
  <2>1. CASE Readable
    BY <1>6, <2>1, LinesOK DEF ReadRows, TypeOK, Graph, At
  <2>2. CASE ~Readable
    <3>1. Rest(q) /\ q \in Procs
      BY <1>6, <2>2, LinesOK DEF ReadRows
    <3> QED BY <1>1, <3>1
  <2> QED BY <2>1, <2>2
<1>7. ASSUME NEW q \in Closers, CompareRows(q) \/ CacheClosure(q)
      PROVE  local'[p] = local[p] \/ local'[p].pc \notin {"verify", "compare"}
  <2>1. Rest(q) /\ q \in Procs
    BY <1>7, LinesOK DEF CompareRows, CacheClosure
  <2> QED BY <1>1, <2>1
<1>8. ASSUME NEW q \in Closers, Close(q)
      PROVE  local'[p] = local[p] \/ local'[p].pc \notin {"verify", "compare"}
  BY <1>8, LinesOK DEF Close, TypeOK
<1>9. ASSUME UNCHANGED local PROVE local'[p] = local[p]
  BY <1>9
<1>10. ASSUME NEW q \in Procs, NEW a \in Extra, AppendExtra(q, a) \/ Tear(q, a)
       PROVE UNCHANGED local
  BY <1>10 DEF AppendExtra, Tear
<1>11. ASSUME NEW q \in Closers, Lookup(q) PROVE UNCHANGED local
  BY <1>11 DEF Lookup
<1>12. Upgrade \/ UNCHANGED vars => UNCHANGED local
  BY DEF Upgrade, vars
<1> QED
  BY <1>2, <1>3, <1>4, <1>5, <1>6, <1>7, <1>8, <1>9, <1>10, <1>11, <1>12 DEF Next

LEMMA ReadsKept ==
  ASSUME TypeOK, TornIsLast, Reads, [Next]_vars
  PROVE  Reads'
<1> SUFFICES ASSUME NEW p \in Procs
             PROVE  /\ At(p, "verify")' => (Readable' => local'[p].graph \subseteq Graph')
                    /\ At(p, "compare")' => /\ local'[p].graph \subseteq local'[p].read
                                            /\ Readable' => local'[p].read \subseteq Graph'
  BY DEF Reads
<1>0. Readable' => Readable /\ Graph \subseteq Graph'
  BY LogGrows
<1>1. CASE local'[p] = local[p]
  BY <1>0, <1>1 DEF Reads, At
<1>2. CASE local'[p].pc \notin {"verify", "compare"}
  BY <1>2 DEF At
<1>3. CASE local'[p].pc = "verify" /\ Graph' = Graph /\ local'[p].graph = Graph
  BY <1>3 DEF At
<1>4. CASE /\ At(p, "verify") /\ Readable /\ Graph' = Graph
           /\ local'[p].pc = "compare" /\ local'[p].graph = local[p].graph
           /\ local'[p].read = Graph
  BY <1>4 DEF At, Reads
<1> QED BY <1>1, <1>2, <1>3, <1>4, LocalSteps

\* Only a comparison verifies rows, and it answers with what it compared.
LEMMA VerifiedSteps ==
  ASSUME [Next]_vars
  PROVE  \/ verified' = None
         \/ UNCHANGED vars
         \/ \E p \in Closers : /\ At(p, "compare") /\ Graph' = Graph /\ Readable' = Readable
                               /\ index = [rows |-> local[p].read, graph |-> local[p].graph]
                               /\ verified' = [rows |-> index.rows, read |-> local[p].read,
                                               began |-> local[p].graph]
<1>1. ASSUME NEW p \in Closers, CompareRows(p)
      PROVE  \/ verified' = None
             \/ /\ At(p, "compare") /\ Graph' = Graph /\ Readable' = Readable
                /\ index = [rows |-> local[p].read, graph |-> local[p].graph]
                /\ verified' = [rows |-> index.rows, read |-> local[p].read,
                                began |-> local[p].graph]
  BY <1>1 DEF CompareRows, Passed, Graph, Readable
<1>2. ASSUME NEW p \in Indexers, Publish(p) \/ StartIndex(p) \/ FinishIndex(p) PROVE verified' = None
  BY <1>2 DEF Publish, StartIndex, FinishIndex, Quiet
<1>3. ASSUME NEW p \in Closers, StartVerify(p) \/ ReadRows(p) \/ Close(p) \/ CacheClosure(p) \/ Lookup(p)
      PROVE verified' = None
  BY <1>3 DEF StartVerify, ReadRows, Close, CacheClosure, Lookup, Quiet
<1>4. ASSUME NEW p \in Procs, NEW a \in Extra, AppendExtra(p, a) \/ Tear(p, a) PROVE verified' = None
  BY <1>4 DEF AppendExtra, Tear, Quiet
<1>5. Upgrade => verified' = None
  BY DEF Upgrade, Quiet
<1> QED BY <1>1, <1>2, <1>3, <1>4, <1>5 DEF Next

LEMMA VerifiedKept ==
  ASSUME TypeOK, Reads, VerifiedRowsAreLogs, [Next]_vars
  PROVE  VerifiedRowsAreLogs'
<1>1. CASE verified' = None
  BY <1>1 DEF VerifiedRowsAreLogs
<1>2. CASE UNCHANGED vars
  BY <1>2 DEF vars, VerifiedRowsAreLogs, Readable, Graph
<1>3. ASSUME NEW p \in Closers, At(p, "compare"), Graph' = Graph, Readable' = Readable,
             index = [rows |-> local[p].read, graph |-> local[p].graph],
             verified' = [rows |-> index.rows, read |-> local[p].read, began |-> local[p].graph]
      PROVE  VerifiedRowsAreLogs'
  <2>1. local[p].graph \subseteq local[p].read /\ (Readable => local[p].read \subseteq Graph)
    BY <1>3, LinesOK DEF Reads
  <2>2. verified'.rows = local[p].read /\ verified'.read = local[p].read
        /\ verified'.began = local[p].graph
    BY <1>3
  <2> QED BY <1>3, <2>1, <2>2 DEF VerifiedRowsAreLogs
<1> QED BY <1>1, <1>2, <1>3, VerifiedSteps

LEMMA RowsAreTrueKept ==
  ASSUME RowsAreTrue, [Next]_vars
  PROVE  RowsAreTrue'
<1>1. ASSUME NEW p \in Closers, CacheClosure(p) PROVE RowsAreTrue'
  <2>1. CASE Readable /\ Graph = local[p].graph
    <3>1. \A r \in cached' : \/ r \in cached
                             \/ r = [graph |-> Graph, onto |-> local[p].onto,
                                     closure |-> <<local[p].graph, local[p].onto>>]
      BY <1>1, <2>1 DEF CacheClosure, Replace
    <3> QED BY <1>1, <2>1, <3>1 DEF CacheClosure, RowsAreTrue, Quiet
  <2>2. CASE ~(Readable /\ Graph = local[p].graph)
    BY <1>1, <2>2 DEF CacheClosure, RowsAreTrue, Quiet
  <2> QED BY <2>1, <2>2
<1>2. ASSUME NEW p \in Closers, Lookup(p) PROVE RowsAreTrue'
  BY <1>2 DEF Lookup, RowsAreTrue
<1>3. ASSUME UNCHANGED cached, answer' \in {None, answer} PROVE RowsAreTrue'
  BY <1>3 DEF RowsAreTrue
<1>4. ASSUME NEW p \in Indexers, Publish(p) \/ StartIndex(p) \/ FinishIndex(p)
      PROVE UNCHANGED cached /\ answer' = None
  BY <1>4 DEF Publish, StartIndex, FinishIndex, Quiet
<1>5. ASSUME NEW p \in Closers, StartVerify(p) \/ ReadRows(p) \/ CompareRows(p) \/ Close(p)
      PROVE UNCHANGED cached /\ answer' = None
  BY <1>5 DEF StartVerify, ReadRows, CompareRows, Close, Quiet
<1>6. ASSUME NEW p \in Procs, NEW a \in Extra, AppendExtra(p, a) \/ Tear(p, a)
      PROVE UNCHANGED cached /\ answer' = None
  BY <1>6 DEF AppendExtra, Tear, Quiet
<1>7. Upgrade \/ UNCHANGED vars => UNCHANGED cached /\ answer' \in {None, answer}
  BY DEF Upgrade, Quiet, vars
<1> QED BY <1>1, <1>2, <1>3, <1>4, <1>5, <1>6, <1>7 DEF Next

-----------------------------------------------------------------------------
(* The theorems *)

LEMMA InitIInv == Init => IInv
<1> SUFFICES ASSUME Init PROVE IInv
  OBVIOUS
<1>1. TypeOK
  <2>1. Idle \in [pc : {"idle", "index", "verify", "compare", "closed"}, graph : SUBSET Lines,
                  read : SUBSET Lines, onto : {1} \cup DOMAIN Versions, next : Nat \ {0}]
    BY DEF Idle
  <2>2. IsFiniteSet(acked)
    BY FS_EmptySet DEF Init
  <2>3. <<>> \in Seq(Lines) /\ 0 \in Nat
    OBVIOUS
  <2>4. local \in [Procs -> [pc : {"idle", "index", "verify", "compare", "closed"},
                            graph : SUBSET Lines, read : SUBSET Lines,
                            onto : {1} \cup DOMAIN Versions, next : Nat \ {0}]]
    BY <2>1 DEF Init
  <2> QED BY <2>2, <2>3, <2>4 DEF Init, TypeOK
<1>2. Once /\ TornIsLast /\ Reads /\ VerifiedRowsAreLogs /\ RowsAreTrue
  BY DEF Init, Once, TornIsLast, Reads, VerifiedRowsAreLogs, RowsAreTrue, At, Idle
<1>3. Costs
  <2>1. acked \ Graph = {}
    BY DEF Init
  <2> QED BY <2>1, FS_EmptySet DEF Init, Costs
<1> QED BY <1>1, <1>2, <1>3 DEF IInv

LEMMA NextIInv == IInv /\ [Next]_vars => IInv'
BY TypeKept, OnceKept, TornIsLastKept, CostsKept, ReadsKept, VerifiedKept, RowsAreTrueKept DEF IInv

LEMMA Invariant == Spec => []IInv
BY InitIInv, NextIInv, PTL DEF Spec

\* However many processes append, retry and are torn in a write, no assertion is in the log twice,
\* only its last line is torn, and each write that stopped half way costs at most two of the
\* acknowledged assertions: append, under the lock of the file.
THEOREM LogKeeps == Spec => []LogKeepsFacts
<1>1. IInv => LogKeepsFacts
  <2> SUFFICES ASSUME IInv PROVE LogKeepsFacts
    OBVIOUS
  <2>1. Cardinality(acked \ Graph) \in Nat /\ tears \in Nat
    BY FS_Subset, FS_CardinalityType DEF IInv, TypeOK
  <2>2. Cardinality(acked \ Graph) <= 2 * tears
    BY <2>1 DEF IInv, Costs
  <2> QED BY <2>2 DEF IInv, LogKeepsFacts, Once, TornIsLast
<1> QED BY <1>1, Invariant, PTL

\* The rows that pass verify_index are those of the log, as it was read during the verification: none
\* is missing that was there when it began, whoever rebuilt the index and appended meanwhile.
THEOREM VerifiedIsLog == Spec => []VerifiedRowsAreLogs
<1>1. IInv => VerifiedRowsAreLogs
  BY DEF IInv
<1> QED BY <1>1, Invariant, PTL

\* The closure the cache answers with is that of the log and the ontology it was asked for, although
\* others appended between its computation and its caching: cache_closure, cached_closure_hash.
THEOREM CacheIsRight == Spec => []CachedClosureIsRight
<1>1. IInv => CachedClosureIsRight
  BY DEF IInv, RowsAreTrue, CachedClosureIsRight, Answered
<1> QED BY <1>1, Invariant, PTL

-----------------------------------------------------------------------------
(* Hold-out evaluations (Holdout) *)

Runs == [pass : Nat, fail : Nat, error : Nat]
IsLocal(r) ==
  r = [pc |-> r.pc, isolation |-> r.isolation, scenarios |-> r.scenarios, checked |-> r.checked, outcomes |-> r.outcomes,
       document |-> r.document, exit |-> r.exit]

\* The instance counts as this module does.
LEMMA SameCount == \A S : H!Cardinality(S) = Cardinality(S) /\ H!IsFiniteSet(S) = IsFiniteSet(S)
BY DEF H!Cardinality, Cardinality, H!IsFiniteSet, IsFiniteSet

\* What a validator holds: what it has loaded are scenarios, preflight let no scenario of an
\* authoritative run pass whose deployment had rehearsal-only trust, and the document says what is
\* decided from the runs.
Checked(s, algorithms) ==
  /\ "offline-test" \notin algorithms
  /\ s.digest.trust.kind = "inline" => "offline-test" # s.digest.trust.algorithm
LocalOf(r) ==
  /\ IsLocal(r)
  /\ r.pc \in {"idle", "load", "verify", "preflight", "probe", "append"}
  /\ r.isolation \in {Nothing, "enforced", "rehearsal"}
  /\ r.scenarios \subseteq H!Scenarios /\ IsFiniteSet(r.scenarios)
  /\ r.document.green \in BOOLEAN
  /\ r.pc \in {"probe", "append"} => r.outcomes \in [r.scenarios -> Runs]
  /\ r.pc = "probe" /\ r.isolation = "enforced" =>
       \A s \in r.scenarios : s.probe = "service" => Checked(s, r.checked[s])
  /\ r.pc = "append" => /\ r.document.green = H!Decide(r.scenarios, r.outcomes).green

IsSeq(s) == s \in Seq({s[i] : i \in DOMAIN s})
LedgerOf(s) ==
  /\ IsSeq(s)
  /\ \A i \in DOMAIN s : s[i] = Torn \/ s[i].green \in BOOLEAN
  /\ \A i, j \in DOMAIN s : s[i] = s[j] /\ s[i] # Torn => i = j

\* The lines that no later write can spoil.  A line without its newline may still cost the record
\* that is written behind it.
SettledOf(s, u) == {s[i] : i \in 1..(IF u THEN Len(s) - 1 ELSE Len(s))}
LedgerCosts ==
  /\ IsFiniteSet(appended) /\ crashes \in Nat
  /\ Cardinality(appended \ SettledOf(ledger, unended)) + (IF unended THEN 1 ELSE 0) <= crashes
LedgerInv ==
  LedgerOf(ledger) /\ unended \in BOOLEAN /\ (unended => ledger # <<>>) /\ LedgerCosts

HoldInv ==
  /\ suite \in [Files -> Contents \cup {Nothing}]
  /\ LedgerInv
  /\ run = [v \in Validators |-> run[v]] /\ \A v \in Validators : LocalOf(run[v])
  /\ H!CountedRunsArePinned

\* A scenario passes only if none of its runs failed, and enough passed.
LEMMA PassIs ==
  ASSUME NEW s \in H!Scenarios, NEW o \in Runs, H!EvaluateScenario(s.priority, o) = "pass"
  PROVE  o.fail = 0 /\ o.pass >= IF s.priority = "high" THEN RUNS ELSE SUPERMAJORITY
<1>1. s.priority \in {"high", "normal"} /\ RUNS \in Nat /\ SUPERMAJORITY \in Nat
  BY VerdictConstants DEF H!HoldoutConstants
<1>2. PICK p \in Nat, f \in Nat, e \in Nat : o.pass = p /\ o.fail = f /\ o.error = e
  BY DEF Runs
<1>3. H!Total(o) = p + f + e
  BY <1>2 DEF H!Total
<1>4. CASE s.priority = "high"
  <2>1. p = RUNS /\ p + f + e = RUNS
    BY <1>2, <1>3, <1>4 DEF H!EvaluateScenario
  <2> QED BY <1>2, <1>4, <2>1
<1>5. CASE s.priority = "normal"
  BY <1>1, <1>2, <1>5 DEF H!EvaluateScenario
<1> QED BY <1>1, <1>4, <1>5

\* What green means, for any threshold.
LEMMA GreenIs ==
  ASSUME NEW v \in Validators, LocalOf(run[v]), H!At(v, "append"), run[v].document.green
  PROVE  H!Deserved(v)
<1> DEFINE all == run[v].scenarios
<1> DEFINE outcomes == run[v].outcomes
<1> DEFINE normals == H!Normals(all)
<1> DEFINE verdict == [s \in all |-> H!EvaluateScenario(s.priority, outcomes[s])]
<1> DEFINE passing == {s \in normals : verdict[s] = "pass"}
<1>1. /\ all \subseteq H!Scenarios /\ IsFiniteSet(all) /\ outcomes \in [all -> Runs]
      /\ H!Decide(all, outcomes).green
  BY DEF LocalOf, H!At
<1>2. /\ all # {}
      /\ \A s \in all \ normals : H!EvaluateScenario(s.priority, outcomes[s]) = "pass"
      /\ normals = {} \/ Cardinality(passing) * ThresholdDen >= ThresholdNum * Cardinality(normals)
  <2>1. H!Decide(all, outcomes) = [green |-> H!Green(all, verdict), verdict |-> verdict]
    BY DEF H!Decide
  <2>2. H!Green(all, verdict)
    BY <1>1, <2>1
  <2>3. \A s \in all : verdict[s] = H!EvaluateScenario(s.priority, outcomes[s])
    OBVIOUS
  <2>4. \A s \in all \ normals : verdict[s] = "pass"
    BY <2>2 DEF H!Green
  <2>5. all # {} /\ (normals = {} \/ Cardinality(passing) * ThresholdDen >= ThresholdNum * Cardinality(normals))
    BY <2>2, SameCount DEF H!Green
  <2> QED BY <2>3, <2>4, <2>5
<1>3. \A s \in all : H!EvaluateScenario(s.priority, outcomes[s]) = "pass" => s \in H!Sound(v)
  BY <1>1, PassIs DEF H!Sound
<1>4. normals \subseteq all
  BY DEF H!Normals
<1>5. passing \subseteq normals \cap H!Sound(v)
  BY <1>3, <1>4
<1>6. IsFiniteSet(normals) /\ IsFiniteSet(normals \cap H!Sound(v))
  BY <1>1, <1>4, FS_Subset
<1>7. /\ Cardinality(passing) <= Cardinality(normals \cap H!Sound(v))
      /\ Cardinality(passing) \in Nat /\ Cardinality(normals \cap H!Sound(v)) \in Nat
      /\ Cardinality(normals) \in Nat
  BY <1>5, <1>6, FS_Subset, FS_CardinalityType
<1>8. ThresholdNum \in Nat /\ ThresholdDen \in Nat
  BY VerdictConstants DEF H!HoldoutConstants
<1>9. Cardinality(normals \cap H!Sound(v)) * ThresholdDen >= ThresholdNum * Cardinality(normals)
  <2>1. CASE normals = {}
    <3>1. Cardinality(normals) = 0
      BY <2>1, FS_EmptySet
    <3> QED BY <1>7, <1>8, <3>1
  <2>2. CASE normals # {}
    <3> PICK a \in Nat, b \in Nat, n \in Nat :
          a = Cardinality(passing) /\ b = Cardinality(normals \cap H!Sound(v)) /\ n = Cardinality(normals)
      BY <1>7
    <3>1. a <= b /\ a * ThresholdDen >= ThresholdNum * n
      BY <1>2, <1>7, <2>2
    <3>2. b * ThresholdDen >= a * ThresholdDen
      BY <1>8, <3>1
    <3> HIDE DEF passing, normals
    <3>3. b * ThresholdDen >= ThresholdNum * n
      BY <1>8, <3>1, <3>2
    <3> QED BY <3>3
  <2> QED BY <2>1, <2>2
<1> HIDE DEF passing, verdict
<1> QED BY <1>2, <1>3, <1>9, SameCount DEF H!Deserved

LEMMA VerdictsFollow ==
  ASSUME HoldInv
  PROVE  /\ H!TypeOK /\ H!RecordsAreUnique /\ H!LostRecordsAreFew
         /\ H!NoFailureBehindGreen /\ H!CountedRunsArePinned
<1>1. H!NoFailureBehindGreen
  BY GreenIs DEF HoldInv, H!NoFailureBehindGreen
<1>2. H!TypeOK
  <2>1. H!Scenarios \subseteq Contents
    BY DEF H!Scenarios
  <2> QED BY <2>1 DEF HoldInv, LedgerInv, LedgerOf, LocalOf, H!TypeOK
<1>3. H!RecordsAreUnique
  BY DEF HoldInv, LedgerInv, LedgerOf, H!RecordsAreUnique
<1>4. H!LostRecordsAreFew
  <2> PICK n \in Nat : n = Len(ledger) /\ DOMAIN ledger = 1..n
    BY LenProperties DEF HoldInv, LedgerInv, LedgerOf, IsSeq
  <2> DEFINE settled == SettledOf(ledger, unended)
  <2>1. settled \subseteq H!Range(ledger)
    BY DEF SettledOf, H!Range, HoldInv, LedgerInv
  <2> HIDE DEF settled
  <2>2. appended \ H!Range(ledger) \subseteq appended \ settled /\ IsFiniteSet(appended \ settled)
    BY <2>1, FS_Difference DEF HoldInv, LedgerInv, LedgerCosts
  <2>3. Cardinality(appended \ H!Range(ledger)) <= Cardinality(appended \ settled)
        /\ Cardinality(appended \ H!Range(ledger)) \in Nat /\ Cardinality(appended \ settled) \in Nat
    BY <2>2, FS_Subset, FS_CardinalityType
  <2>4. Cardinality(appended \ settled) <= crashes /\ crashes \in Nat
    BY <2>3 DEF HoldInv, LedgerInv, LedgerCosts, settled
  <2> QED BY <2>3, <2>4, SameCount DEF H!LostRecordsAreFew
<1> QED BY <1>1, <1>2, <1>3, <1>4 DEF HoldInv

\* What was loaded is a finite set of scenarios.
LEMMA LoadedIs ==
  ASSUME suite \in [Files -> Contents \cup {Nothing}], H!Loadable(suite)
  PROVE  H!LoadSuite(suite) \subseteq H!Scenarios /\ IsFiniteSet(H!LoadSuite(suite))
<1> DEFINE present == {f \in Files : suite[f] # Nothing}
<1>1. IsFiniteSet(Files)
  BY VerdictConstants, SameCount DEF H!HoldoutConstants
<1>2. IsFiniteSet(present)
  BY <1>1, FS_Subset
<1>3. \A f \in present : suite[f] \in H!Scenarios
  BY DEF H!Loadable, H!ParseScenario
<1>4. H!LoadSuite(suite) = {suite[f] : f \in present}
  BY DEF H!LoadSuite
<1>5. IsFiniteSet({suite[f] : f \in present})
  <2> DEFINE image == {suite[f] : f \in present}
  <2>1. [f \in present |-> suite[f]] \in Surjection(present, image)
    BY DEF Surjection
  <2> HIDE DEF image
  <2> QED BY <1>2, <2>1, FS_Surjection DEF image
<1> QED BY <1>3, <1>4, <1>5

\* One of a validator's locals is changed.
WithPc(r, x) == [r EXCEPT !.pc = x]
WithIsolation(r, x) == [r EXCEPT !.isolation = x]
WithScenarios(r, x) == [r EXCEPT !.scenarios = x]
WithChecked(r, x) == [r EXCEPT !.checked = x]
WithOutcomes(r, x) == [r EXCEPT !.outcomes = x]
WithDocument(r, x) == [r EXCEPT !.document = x]
WithExit(r, x) == [r EXCEPT !.exit = x]

\* What a change of one of a validator's locals leaves.
LEMMA LocalChange ==
  ASSUME NEW r, IsLocal(r), NEW x
  PROVE  /\ WithPc(r, x) =
              [pc |-> x, isolation |-> r.isolation, scenarios |-> r.scenarios, checked |-> r.checked, outcomes |-> r.outcomes,
               document |-> r.document, exit |-> r.exit]
         /\ WithIsolation(r, x) =
              [pc |-> r.pc, isolation |-> x, scenarios |-> r.scenarios, checked |-> r.checked, outcomes |-> r.outcomes,
               document |-> r.document, exit |-> r.exit]
         /\ WithScenarios(r, x) =
              [pc |-> r.pc, isolation |-> r.isolation, scenarios |-> x, checked |-> r.checked, outcomes |-> r.outcomes,
               document |-> r.document, exit |-> r.exit]
         /\ WithOutcomes(r, x) =
              [pc |-> r.pc, isolation |-> r.isolation, scenarios |-> r.scenarios, checked |-> r.checked, outcomes |-> x,
               document |-> r.document, exit |-> r.exit]
         /\ WithDocument(r, x) =
              [pc |-> r.pc, isolation |-> r.isolation, scenarios |-> r.scenarios, checked |-> r.checked, outcomes |-> r.outcomes,
               document |-> x, exit |-> r.exit]
         /\ WithExit(r, x) =
              [pc |-> r.pc, isolation |-> r.isolation, scenarios |-> r.scenarios, checked |-> r.checked, outcomes |-> r.outcomes,
               document |-> r.document, exit |-> x]
<1> PICK a, b, c, d, e, f, g :
      r = [pc |-> a, isolation |-> b, scenarios |-> c, checked |-> g, outcomes |-> d, document |-> e, exit |-> f]
  BY DEF IsLocal
<1>1. WithPc(r, x) =
        [pc |-> x, isolation |-> r.isolation, scenarios |-> r.scenarios, checked |-> r.checked, outcomes |-> r.outcomes,
         document |-> r.document, exit |-> r.exit]
  BY DEF WithPc
<1>2. WithIsolation(r, x) =
        [pc |-> r.pc, isolation |-> x, scenarios |-> r.scenarios, checked |-> r.checked, outcomes |-> r.outcomes,
         document |-> r.document, exit |-> r.exit]
  BY DEF WithIsolation
<1>3. WithScenarios(r, x) =
        [pc |-> r.pc, isolation |-> r.isolation, scenarios |-> x, checked |-> r.checked, outcomes |-> r.outcomes,
         document |-> r.document, exit |-> r.exit]
  BY DEF WithScenarios
<1>4. WithOutcomes(r, x) =
        [pc |-> r.pc, isolation |-> r.isolation, scenarios |-> r.scenarios, checked |-> r.checked, outcomes |-> x,
         document |-> r.document, exit |-> r.exit]
  BY DEF WithOutcomes
<1>5. WithDocument(r, x) =
        [pc |-> r.pc, isolation |-> r.isolation, scenarios |-> r.scenarios, checked |-> r.checked, outcomes |-> r.outcomes,
         document |-> x, exit |-> r.exit]
  BY DEF WithDocument
<1>6. WithExit(r, x) =
        [pc |-> r.pc, isolation |-> r.isolation, scenarios |-> r.scenarios, checked |-> r.checked, outcomes |-> r.outcomes,
         document |-> r.document, exit |-> x]
  BY DEF WithExit
<1> QED BY <1>1, <1>2, <1>3, <1>4, <1>5, <1>6

\* A validator moves on and keeps what it found.
LEMMA LocalChanges ==
  ASSUME NEW r, IsLocal(r), NEW x, NEW y
  PROVE  /\ WithIsolation(WithPc(r, x), y) =
              [pc |-> x, isolation |-> y, scenarios |-> r.scenarios, checked |-> r.checked, outcomes |-> r.outcomes,
               document |-> r.document, exit |-> r.exit]
         /\ WithScenarios(WithPc(r, x), y) =
              [pc |-> x, isolation |-> r.isolation, scenarios |-> y, checked |-> r.checked, outcomes |-> r.outcomes,
               document |-> r.document, exit |-> r.exit]
         /\ WithOutcomes(WithPc(r, x), y) =
              [pc |-> x, isolation |-> r.isolation, scenarios |-> r.scenarios, checked |-> r.checked, outcomes |-> y,
               document |-> r.document, exit |-> r.exit]
         /\ WithDocument(WithPc(r, x), y) =
              [pc |-> x, isolation |-> r.isolation, scenarios |-> r.scenarios, checked |-> r.checked, outcomes |-> r.outcomes,
               document |-> y, exit |-> r.exit]
<1>1. WithPc(r, x) =
        [pc |-> x, isolation |-> r.isolation, scenarios |-> r.scenarios, checked |-> r.checked, outcomes |-> r.outcomes,
         document |-> r.document, exit |-> r.exit]
  BY LocalChange
<1>2. IsLocal(WithPc(r, x))
  BY <1>1 DEF IsLocal
<1>3. \A t : IsLocal(t) =>
        /\ WithIsolation(t, y) =
             [pc |-> t.pc, isolation |-> y, scenarios |-> t.scenarios, checked |-> t.checked, outcomes |-> t.outcomes,
              document |-> t.document, exit |-> t.exit]
        /\ WithScenarios(t, y) =
             [pc |-> t.pc, isolation |-> t.isolation, scenarios |-> y, checked |-> t.checked, outcomes |-> t.outcomes,
              document |-> t.document, exit |-> t.exit]
        /\ WithOutcomes(t, y) =
             [pc |-> t.pc, isolation |-> t.isolation, scenarios |-> t.scenarios, checked |-> t.checked, outcomes |-> y,
              document |-> t.document, exit |-> t.exit]
        /\ WithDocument(t, y) =
             [pc |-> t.pc, isolation |-> t.isolation, scenarios |-> t.scenarios, checked |-> t.checked, outcomes |-> t.outcomes,
              document |-> y, exit |-> t.exit]
  BY LocalChange
<1> QED BY <1>1, <1>2, <1>3

\* The same of what preflight notes and the runs it begins.
LEMMA LocalChecked ==
  ASSUME NEW r, IsLocal(r), NEW x, NEW y, NEW z
  PROVE  WithOutcomes(WithChecked(WithPc(r, x), y), z) =
              [pc |-> x, isolation |-> r.isolation, scenarios |-> r.scenarios, checked |-> y, outcomes |-> z,
               document |-> r.document, exit |-> r.exit]
<1>1. WithPc(r, x) =
        [pc |-> x, isolation |-> r.isolation, scenarios |-> r.scenarios, checked |-> r.checked,
         outcomes |-> r.outcomes, document |-> r.document, exit |-> r.exit]
  BY LocalChange
<1>2. WithChecked(WithPc(r, x), y) =
        [pc |-> x, isolation |-> r.isolation, scenarios |-> r.scenarios, checked |-> y,
         outcomes |-> r.outcomes, document |-> r.document, exit |-> r.exit]
  BY <1>1 DEF WithChecked
<1>3. WithOutcomes(WithChecked(WithPc(r, x), y), z) =
        [pc |-> x, isolation |-> r.isolation, scenarios |-> r.scenarios, checked |-> y,
         outcomes |-> z, document |-> r.document, exit |-> r.exit]
  BY <1>2 DEF WithOutcomes
<1> QED BY <1>3

\* An idle validator, and one that has ended, hold nothing.
LEMMA IdleIs ==
  /\ LocalOf(H!Idle) /\ \A code : LocalOf([H!Idle EXCEPT !.exit = code])
  /\ IsLocal(H!Idle)
<1>1. IsFiniteSet({}) /\ H!NoRecord.green \in BOOLEAN
  BY FS_EmptySet DEF H!NoRecord
<1>2. H!Idle = [pc |-> "idle", isolation |-> Nothing, scenarios |-> {}, checked |-> <<>>, outcomes |-> <<>>,
                document |-> H!NoRecord, exit |-> Nothing]
  BY DEF H!Idle
<1>3. \A code : [H!Idle EXCEPT !.exit = code] =
               [pc |-> "idle", isolation |-> Nothing, scenarios |-> {}, checked |-> <<>>, outcomes |-> <<>>,
                document |-> H!NoRecord, exit |-> code]
  <2>1. IsLocal(H!Idle)
    BY <1>2 DEF IsLocal
  <2>2. \A code : WithExit(H!Idle, code) =
               [pc |-> "idle", isolation |-> Nothing, scenarios |-> {}, checked |-> <<>>, outcomes |-> <<>>,
                document |-> H!NoRecord, exit |-> code]
    <3>1. \A code : WithExit(H!Idle, code) =
                 [pc |-> H!Idle.pc, isolation |-> H!Idle.isolation, scenarios |-> H!Idle.scenarios, checked |-> H!Idle.checked,
                  outcomes |-> H!Idle.outcomes, document |-> H!Idle.document, exit |-> code]
      BY <2>1, LocalChange
    <3>2. /\ H!Idle.pc = "idle" /\ H!Idle.isolation = Nothing /\ H!Idle.scenarios = {}
          /\ H!Idle.checked = <<>> /\ H!Idle.outcomes = <<>> /\ H!Idle.document = H!NoRecord
      BY <1>2
    <3> QED BY <3>1, <3>2
  <2> QED BY <2>2 DEF WithExit
<1>4. ASSUME NEW x PROVE LocalOf([pc |-> "idle", isolation |-> Nothing, scenarios |-> {}, checked |-> <<>>, outcomes |-> <<>>,
                                  document |-> H!NoRecord, exit |-> x])
  BY <1>1 DEF LocalOf, IsLocal
<1>5. IsLocal(H!Idle)
  BY <1>2 DEF IsLocal
<1> QED BY <1>2, <1>3, <1>4, <1>5

\* A line is added to the ledger.
LEMMA LineAdded ==
  ASSUME NEW s, LedgerOf(s), NEW e,
         e = Torn \/ (e.green \in BOOLEAN /\ \A i \in DOMAIN s : s[i] # e), NEW u \in BOOLEAN
  PROVE  /\ LedgerOf(Append(s, e)) /\ Append(s, e) # <<>>
         /\ SettledOf(s, FALSE) \subseteq SettledOf(Append(s, e), u)
         /\ ~u => e \in SettledOf(Append(s, e), u)
<1> DEFINE S == {s[i] : i \in DOMAIN s} \cup {e}
<1> DEFINE t == Append(s, e)
<1>1. s \in Seq(S)
  <2>1. {s[i] : i \in DOMAIN s} \subseteq S
    OBVIOUS
  <2> QED BY <2>1, SeqMonotonic DEF LedgerOf, IsSeq
<1> HIDE DEF S
<1> PICK n \in Nat : n = Len(s)
  BY <1>1, LenProperties
<1>2. e \in S
  BY DEF S
<1>3. /\ DOMAIN s = 1..n /\ t \in Seq(S) /\ Len(t) = n + 1 /\ DOMAIN t = 1..(n + 1) /\ t[n + 1] = e
      /\ \A i \in 1..n : t[i] = s[i]
  BY <1>1, <1>2, AppendProperties, LenProperties
<1> HIDE DEF t
<1>4. IsSeq(t)
  <2>1. t \in Seq({t[i] : i \in 1..(n + 1)})
    BY <1>3
  <2> QED BY <1>3, <2>1 DEF IsSeq
<1>5. \A i \in 1..(n + 1) : i \in 1..n \/ i = n + 1
  OBVIOUS
<1>6. \A i \in DOMAIN t : t[i] = Torn \/ t[i].green \in BOOLEAN
  BY <1>3, <1>5 DEF LedgerOf
<1>7. \A i, j \in DOMAIN t : t[i] = t[j] /\ t[i] # Torn => i = j
  BY <1>3, <1>5 DEF LedgerOf
<1>8. t # <<>>
  BY <1>3
<1>9. SettledOf(s, FALSE) = {s[i] : i \in 1..n}
  BY DEF SettledOf
<1>10. SettledOf(t, u) = IF u THEN {t[i] : i \in 1..n} ELSE {t[i] : i \in 1..(n + 1)}
  BY <1>3 DEF SettledOf
<1>11. n + 1 \in 1..(n + 1) /\ 1..n \subseteq 1..(n + 1)
  OBVIOUS
<1>12. SettledOf(s, FALSE) \subseteq SettledOf(t, u) /\ (~u => e \in SettledOf(t, u))
  BY <1>3, <1>9, <1>10, <1>11
<1> QED BY <1>4, <1>6, <1>7, <1>8, <1>12 DEF LedgerOf, t

\* A line joins the last one, which had no newline.
LEMMA LineJoined ==
  ASSUME NEW s, LedgerOf(s), s # <<>>, NEW u \in BOOLEAN
  PROVE  /\ LedgerOf([s EXCEPT ![Len(s)] = Torn]) /\ [s EXCEPT ![Len(s)] = Torn] # <<>>
         /\ SettledOf(s, TRUE) \subseteq SettledOf([s EXCEPT ![Len(s)] = Torn], u)
<1> DEFINE S == {s[i] : i \in DOMAIN s}
<1>1. s \in Seq(S)
  BY DEF LedgerOf, IsSeq
<1> HIDE DEF S
<1> PICK n \in Nat : n = Len(s) /\ DOMAIN s = 1..n
  BY <1>1, LenProperties
<1>2. n # 0
  BY <1>1, EmptySeq
<1> DEFINE t == [s EXCEPT ![n] = Torn]
<1>3. t = [i \in 1..n |-> IF i = n THEN Torn ELSE s[i]]
  BY <1>1, <1>2
<1> HIDE DEF t
<1>4. DOMAIN t = 1..n /\ t[n] = Torn /\ \A i \in 1..n : i # n => t[i] = s[i]
  BY <1>2, <1>3
<1>5. t \in Seq({t[i] : i \in 1..n})
  BY <1>3, <1>4
<1>6. Len(t) = n /\ t # <<>>
  BY <1>2, <1>4, <1>5, LenProperties
<1>7. LedgerOf(t)
  BY <1>4, <1>5 DEF LedgerOf, IsSeq
<1>8. SettledOf(s, TRUE) = {s[i] : i \in 1..(n - 1)}
  BY DEF SettledOf
<1>9. SettledOf(t, u) = IF u THEN {t[i] : i \in 1..(n - 1)} ELSE {t[i] : i \in 1..n}
  BY <1>6 DEF SettledOf
<1>10. 1..(n - 1) \subseteq 1..n /\ \A i \in 1..(n - 1) : i \in 1..n /\ i # n
  BY <1>2
<1>11. SettledOf(s, TRUE) \subseteq SettledOf(t, u)
  BY <1>4, <1>8, <1>9, <1>10
<1> QED BY <1>6, <1>7, <1>11 DEF t

\* What writing a line does to the ledger.
LEMMA LineWritten ==
  ASSUME LedgerInv, NEW e, e = Torn \/ (e.green \in BOOLEAN /\ \A i \in DOMAIN ledger : ledger[i] # e),
         NEW u \in BOOLEAN
  PROVE  /\ LedgerOf(H!Written(e)) /\ H!Written(e) # <<>>
         /\ SettledOf(ledger, unended) \subseteq SettledOf(H!Written(e), u)
         /\ ~unended /\ ~u => e \in SettledOf(H!Written(e), u)
<1>1. LedgerOf(ledger) /\ unended \in BOOLEAN /\ (unended => ledger # <<>>)
  BY DEF LedgerInv
<1>2. CASE unended
  BY <1>1, <1>2, LineJoined DEF H!Written
<1>3. CASE ~unended
  BY <1>1, <1>3, LineAdded DEF H!Written
<1> QED BY <1>2, <1>3

\* A write that failed may have cost the next record.
LEMMA FailureCosts ==
  ASSUME LedgerInv, appended' = appended, crashes' = crashes + 1, unended' \in BOOLEAN,
         SettledOf(ledger, unended) \subseteq SettledOf(ledger', unended')
  PROVE  LedgerCosts'
<1> DEFINE lost == appended \ SettledOf(ledger, unended)
<1> DEFINE next == appended \ SettledOf(ledger', unended')
<1>1. next \subseteq lost /\ IsFiniteSet(lost)
  BY FS_Difference DEF LedgerInv, LedgerCosts
<1>2. Cardinality(next) <= Cardinality(lost) /\ Cardinality(next) \in Nat /\ Cardinality(lost) \in Nat
  BY <1>1, FS_Subset, FS_CardinalityType
<1>3. Cardinality(lost) <= crashes /\ crashes \in Nat /\ IsFiniteSet(appended)
  BY <1>2 DEF LedgerInv, LedgerCosts
<1>4. (Cardinality(lost) <= crashes /\ crashes \in Nat /\ IsFiniteSet(appended))
  BY <1>3
<1>5. Cardinality(next) + (IF unended' THEN 1 ELSE 0) <= crashes'
  <2> HIDE DEF lost, next
  <2> QED BY <1>2, <1>3
<1> QED BY <1>3, <1>5 DEF LedgerCosts

\* A record that is written is there, or it joined the line of an earlier failure.
LEMMA RecordCosts ==
  ASSUME LedgerInv, NEW d, appended' = appended \cup {d}, crashes' = crashes, unended' = FALSE,
         SettledOf(ledger, unended) \subseteq SettledOf(ledger', unended'),
         ~unended => d \in SettledOf(ledger', unended')
  PROVE  LedgerCosts'
<1> DEFINE lost == appended \ SettledOf(ledger, unended)
<1> DEFINE next == appended' \ SettledOf(ledger', unended')
<1>1. IsFiniteSet(appended) /\ crashes \in Nat /\ unended \in BOOLEAN /\ IsFiniteSet(lost)
      /\ Cardinality(lost) + (IF unended THEN 1 ELSE 0) <= crashes
  BY FS_Difference DEF LedgerInv, LedgerCosts
<1>2. IsFiniteSet(appended') /\ Cardinality(lost) \in Nat
  BY <1>1, FS_AddElement, FS_CardinalityType
<1>3. CASE unended
  <2>1. next \subseteq lost \cup {d}
    OBVIOUS
  <2>2. IsFiniteSet(lost \cup {d}) /\ Cardinality(lost \cup {d}) <= Cardinality(lost) + 1
    <3> HIDE DEF lost
    <3>1. Cardinality(lost \cup {d}) = Cardinality(lost) \/ Cardinality(lost \cup {d}) = Cardinality(lost) + 1
      BY <1>1, FS_AddElement
    <3> QED BY <1>1, <1>2, <3>1, FS_AddElement
  <2>3. Cardinality(next) <= Cardinality(lost \cup {d}) /\ Cardinality(next) \in Nat
        /\ Cardinality(lost \cup {d}) \in Nat
    BY <2>1, <2>2, FS_Subset, FS_CardinalityType
  <2> HIDE DEF lost, next
  <2>4. Cardinality(next) <= crashes
    BY <1>1, <1>2, <1>3, <2>2, <2>3
  <2> QED BY <1>1, <1>2, <2>3, <2>4 DEF LedgerCosts, next
<1>4. CASE ~unended
  <2>1. next \subseteq lost
    BY <1>4
  <2>2. Cardinality(next) <= Cardinality(lost) /\ Cardinality(next) \in Nat
    BY <1>1, <2>1, FS_Subset, FS_CardinalityType
  <2> HIDE DEF lost, next
  <2>3. Cardinality(next) <= crashes
    BY <1>1, <1>2, <1>4, <2>2
  <2> QED BY <1>1, <1>2, <2>2, <2>3 DEF LedgerCosts, next
<1> QED BY <1>1, <1>3, <1>4

LEMMA HoldInvInit == H!Init => HoldInv
<1> SUFFICES ASSUME H!Init PROVE HoldInv
  OBVIOUS
<1>1. /\ suite \in [Files -> Contents \cup {Nothing}] /\ ledger = <<>>
      /\ run = [v \in Validators |-> H!Idle] /\ counted = {}
  BY DEF H!Init
<1>2. LedgerOf(<<>>)
  BY DEF LedgerOf, IsSeq
<1>3. LedgerInv
  <2>1. unended = FALSE /\ appended = {} /\ crashes = 0
    BY DEF H!Init
  <2>2. IsFiniteSet({}) /\ Cardinality({}) = 0
    BY FS_EmptySet
  <2> DEFINE settled == SettledOf(ledger, unended)
  <2> HIDE DEF settled
  <2>3. appended \ settled = {}
    BY <2>1
  <2>4. LedgerCosts
    BY <2>1, <2>2, <2>3 DEF LedgerCosts, settled
  <2> QED BY <1>1, <1>2, <2>1, <2>4 DEF LedgerInv
<1> QED BY <1>1, <1>3, IdleIs DEF HoldInv, H!CountedRunsArePinned

\* A step of one validator that leaves the ledger alone and ends no run that counts.
Still == counted' = {} /\ UNCHANGED <<suite, ledger, unended, appended, crashes>>
LEMMA LedgerStays ==
  ASSUME LedgerInv, UNCHANGED <<ledger, unended, appended, crashes>>
  PROVE  LedgerInv'
BY DEF LedgerInv, LedgerCosts
LEMMA LocalStep ==
  ASSUME HoldInv, NEW v \in Validators, NEW r, LocalOf(r), run' = [run EXCEPT ![v] = r], Still
  PROVE  HoldInv'
<1>1. run' = [w \in Validators |-> IF w = v THEN r ELSE run[w]]
  BY DEF HoldInv
<1>2. run' = [w \in Validators |-> run'[w]] /\ \A w \in Validators : LocalOf(run'[w])
  BY <1>1 DEF HoldInv
<1>3. LedgerInv' /\ H!CountedRunsArePinned'
  BY LedgerStays DEF HoldInv, H!CountedRunsArePinned, Still
<1> QED BY <1>2, <1>3 DEF HoldInv, Still

LEMMA HoldInvNext ==
  ASSUME HoldInv, H!Next
  PROVE  HoldInv'
<1>0. /\ suite \in [Files -> Contents \cup {Nothing}] /\ LedgerInv
      /\ run = [v \in Validators |-> run[v]] /\ \A v \in Validators : LocalOf(run[v])
  BY DEF HoldInv
<1>1. CASE H!EditSuite \/ H!EditDeployment \/ H!EditTrust \/ H!Chmod \/ H!EditLock
  <2>1. counted' = {} /\ UNCHANGED <<ledger, unended, run, appended, crashes>>
    BY <1>1 DEF H!EditSuite, H!EditDeployment, H!EditTrust, H!Chmod, H!EditLock, H!Edit, H!lines
  <2>2. suite' \in [Files -> Contents \cup {Nothing}]
    BY <1>0, <1>1 DEF H!EditSuite, H!EditDeployment, H!EditTrust, H!Chmod, H!EditLock
  <2>3. LedgerInv'
    BY <1>0, <2>1, LedgerStays
  <2> QED BY <1>0, <2>1, <2>2, <2>3 DEF HoldInv, H!CountedRunsArePinned
<1>2. ASSUME NEW v \in Validators, NEW code, H!Exit(v, code), Still PROVE HoldInv'
  <2>1. run' = [run EXCEPT ![v] = [H!Idle EXCEPT !.exit = code]]
    BY <1>2 DEF H!Exit
  <2> QED BY <1>2, <2>1, IdleIs, LocalStep
<1>3. ASSUME NEW v \in Validators, NEW r, LocalOf(r), run'[v] = r, Still,
             run' = [w \in Validators |-> IF w = v THEN r ELSE run[w]]
      PROVE  HoldInv'
  <2>1. run' = [run EXCEPT ![v] = r]
    BY <1>0, <1>3
  <2> QED BY <1>3, <2>1, LocalStep
<1>4. ASSUME NEW v \in Validators
      PROVE  /\ IsLocal(run[v]) /\ LocalOf(run[v])
             /\ run[v].scenarios \subseteq H!Scenarios /\ IsFiniteSet(run[v].scenarios)
             /\ run[v].isolation \in {Nothing, "enforced", "rehearsal"} /\ run[v].document.green \in BOOLEAN
  BY <1>0 DEF LocalOf
<1>5. ASSUME NEW v \in Validators, NEW c \in BOOLEAN, NEW p \in BOOLEAN, NEW r \in BOOLEAN, H!Execute(v, c, p, r)
      PROVE  HoldInv'
  <2>1. Still
    BY <1>5 DEF H!Execute, H!files, H!lines, H!Unobserved, Still
  <2>2. CASE c /\ (~p \/ r)
    <3> DEFINE i == IF p \/ r THEN "rehearsal" ELSE "enforced"
    <3> DEFINE l == [H!Idle EXCEPT !.pc = "load", !.isolation = i]
    <3>1. run' = [run EXCEPT ![v] = l]
      BY <1>5, <2>2 DEF H!Execute
    <3>2. i \in {Nothing, "enforced", "rehearsal"}
      OBVIOUS
    <3> HIDE DEF i
    <3>3. LocalOf(l)
      <4>1. l = [pc |-> "load", isolation |-> i, scenarios |-> {}, checked |-> <<>>, outcomes |-> <<>>,
                 document |-> H!NoRecord, exit |-> Nothing]
        <5>1. IsLocal(H!Idle)
          BY IdleIs
        <5>2. l = WithIsolation(WithPc(H!Idle, "load"), i)
          BY DEF WithIsolation, WithPc
        <5>3. WithIsolation(WithPc(H!Idle, "load"), i) =
                [pc |-> "load", isolation |-> i, scenarios |-> H!Idle.scenarios, checked |-> H!Idle.checked, outcomes |-> H!Idle.outcomes,
                 document |-> H!Idle.document, exit |-> H!Idle.exit]
          BY <5>1, LocalChanges
        <5>4. /\ H!Idle.scenarios = {} /\ H!Idle.checked = <<>> /\ H!Idle.outcomes = <<>>
              /\ H!Idle.document = H!NoRecord /\ H!Idle.exit = Nothing
          BY DEF H!Idle
        <5> HIDE DEF l
        <5> QED BY <5>2, <5>3, <5>4
      <4>2. IsFiniteSet({}) /\ H!NoRecord.green \in BOOLEAN
        BY FS_EmptySet DEF H!NoRecord
      <4> HIDE DEF l
      <4> QED BY <3>2, <4>1, <4>2 DEF LocalOf, IsLocal
    <3> HIDE DEF l
    <3> QED BY <2>1, <3>1, <3>3, LocalStep
  <2>3. CASE ~(c /\ (~p \/ r))
    BY <1>2, <1>5, <2>1, <2>3 DEF H!Execute
  <2> QED BY <2>2, <2>3
<1>6. ASSUME NEW v \in Validators, H!Load(v) PROVE HoldInv'
  <2>1. Still /\ H!At(v, "load")
    BY <1>6 DEF H!Load, H!files, H!lines, H!Unobserved, Still
  <2>2. CASE lock # Nothing /\ H!EnforcePrivateSuite /\ H!Loadable(suite)
    <3> DEFINE l == [run[v] EXCEPT !.pc = "verify", !.scenarios = H!LoadSuite(suite)]
    <3>1. run' = [run EXCEPT ![v] = l]
      BY <1>0, <1>6, <2>2 DEF H!Load
    <3>2. l = [pc |-> "verify", isolation |-> run[v].isolation, scenarios |-> H!LoadSuite(suite), checked |-> run[v].checked,
               outcomes |-> run[v].outcomes, document |-> run[v].document, exit |-> run[v].exit]
      <4>1. l = WithScenarios(WithPc(run[v], "verify"), H!LoadSuite(suite))
        BY DEF WithScenarios, WithPc
      <4> HIDE DEF l
      <4> QED BY <1>4, <4>1, LocalChanges
    <3> HIDE DEF l
    <3>3. LocalOf(l)
      BY <1>0, <1>4, <2>2, <3>2, LoadedIs DEF LocalOf, IsLocal
    <3> QED BY <2>1, <3>1, <3>3, LocalStep
  <2>3. CASE ~(lock # Nothing /\ H!EnforcePrivateSuite /\ H!Loadable(suite))
    BY <1>2, <1>6, <2>1, <2>3 DEF H!Load
  <2> QED BY <2>2, <2>3
<1>7. ASSUME NEW v \in Validators, H!Verify(v) PROVE HoldInv'
  <2>1. Still
    BY <1>7 DEF H!Verify, H!files, H!lines, H!Unobserved, Still
  <2>2. CASE lock # Nothing /\ H!VerifySuite(run[v].scenarios, lock)
    <3> DEFINE l == [run[v] EXCEPT !.pc = "preflight"]
    <3>1. run' = [run EXCEPT ![v] = l]
      BY <1>0, <1>7, <2>2 DEF H!Verify
    <3>2. l = [pc |-> "preflight", isolation |-> run[v].isolation, scenarios |-> run[v].scenarios, checked |-> run[v].checked,
               outcomes |-> run[v].outcomes, document |-> run[v].document, exit |-> run[v].exit]
      BY <1>4, LocalChange DEF WithPc
    <3> HIDE DEF l
    <3>3. LocalOf(l)
      BY <1>4, <3>2 DEF LocalOf, IsLocal
    <3> QED BY <2>1, <3>1, <3>3, LocalStep
  <2>3. CASE ~(lock # Nothing /\ H!VerifySuite(run[v].scenarios, lock))
    BY <1>2, <1>7, <2>1, <2>3 DEF H!Verify
  <2> QED BY <2>2, <2>3
<1>8. ASSUME NEW v \in Validators, H!CheckDeployments(v) PROVE HoldInv'
  <2>1. Still
    BY <1>8 DEF H!CheckDeployments, H!files, H!lines, H!Unobserved, Still
  <2>2. CASE H!Preflight(run[v].scenarios, run[v].isolation = "rehearsal")
    <3> DEFINE o == [s \in run[v].scenarios |-> H!NoRuns]
    <3> DEFINE c == [s \in H!Services(run[v].scenarios) |-> H!Algorithms(deploy[s.target].trust)]
    <3> DEFINE l == [run[v] EXCEPT !.pc = "probe", !.checked = c, !.outcomes = o]
    <3>1. run' = [run EXCEPT ![v] = l]
      BY <1>0, <1>8, <2>2 DEF H!CheckDeployments
    <3>2. l = [pc |-> "probe", isolation |-> run[v].isolation, scenarios |-> run[v].scenarios, checked |-> c,
               outcomes |-> o, document |-> run[v].document, exit |-> run[v].exit]
      <4>1. l = WithOutcomes(WithChecked(WithPc(run[v], "probe"), c), o)
        BY DEF WithOutcomes, WithChecked, WithPc
      <4> HIDE DEF l, o, c
      <4> QED BY <1>4, <4>1, LocalChecked
    <3>3. o \in [run[v].scenarios -> Runs]
      BY DEF H!NoRuns, Runs
    <3>4. run[v].isolation = "enforced" =>
            \A s \in run[v].scenarios : s.probe = "service" => Checked(s, c[s])
      <4> SUFFICES ASSUME run[v].isolation = "enforced", NEW s \in run[v].scenarios, s.probe = "service"
                   PROVE  Checked(s, c[s])
        OBVIOUS
      <4>1. c[s] = H!Algorithms(deploy[s.target].trust)
        BY DEF H!Services
      <4>2. H!LoadDeployment(s.target, s.digest) /\ "offline-test" \notin H!Algorithms(deploy[s.target].trust)
        BY <2>2 DEF H!Preflight
      <4>3. deploy[s.target] = s.digest
        BY <4>2 DEF H!LoadDeployment
      <4> HIDE DEF c
      <4> QED BY <4>1, <4>2, <4>3 DEF Checked, H!Algorithms
    <3> HIDE DEF l, o, c
    <3>5. LocalOf(l)
      BY <1>4, <3>2, <3>3, <3>4 DEF LocalOf, IsLocal
    <3> QED BY <2>1, <3>1, <3>5, LocalStep
  <2>3. CASE ~H!Preflight(run[v].scenarios, run[v].isolation = "rehearsal")
    BY <1>2, <1>8, <2>1, <2>3 DEF H!CheckDeployments
  <2> QED BY <2>2, <2>3
<1>9. ASSUME NEW v \in Validators, H!Probe(v) PROVE HoldInv'
  <2>0. PICK s \in run[v].scenarios :
          \E o \in (IF s.probe = "task" THEN H!TaskRun(s) ELSE H!ServiceRun(s)) :
            /\ run' = [run EXCEPT ![v].outcomes[s] = H!OneMore(@, o)]
            /\ counted' = IF o = "error" \/ s.probe = "task" THEN {}
                          ELSE {[scenario |-> s, ran |-> deploy[s.target],
                                 under |-> H!Algorithms(deploy[s.target].trust),
                                 checked |-> run[v].checked[s], isolation |-> run[v].isolation]}
    BY <1>9 DEF H!Probe
  <2>1. PICK o :
          /\ o \in (IF s.probe = "task" THEN H!TaskRun(s) ELSE H!ServiceRun(s))
          /\ run' = [run EXCEPT ![v].outcomes[s] = H!OneMore(@, o)]
          /\ counted' = IF o = "error" \/ s.probe = "task" THEN {}
                        ELSE {[scenario |-> s, ran |-> deploy[s.target],
                               under |-> H!Algorithms(deploy[s.target].trust),
                               checked |-> run[v].checked[s], isolation |-> run[v].isolation]}
    BY <2>0
  <2>2. UNCHANGED <<suite, ledger, unended, appended, crashes>> /\ run[v].pc = "probe"
    BY <1>9 DEF H!Probe, H!files, H!lines, H!At
  <2>3. run[v].outcomes \in [run[v].scenarios -> Runs]
    BY <1>4, <2>2 DEF LocalOf
  <2> DEFINE n == [run[v].outcomes EXCEPT ![s] = H!OneMore(run[v].outcomes[s], o)]
  <2> DEFINE l == [run[v] EXCEPT !.outcomes = n]
  <2>4. run' = [run EXCEPT ![v] = l]
    BY <1>0, <2>1
  <2>5. H!OneMore(run[v].outcomes[s], o) \in Runs
    <3>1. run[v].outcomes[s] \in Runs
      BY <2>3
    <3>2. \A x \in {"pass", "fail", "error"} : (IF o = x THEN 1 ELSE 0) \in Nat
      OBVIOUS
    <3> QED BY <3>1, <3>2 DEF H!OneMore, Runs
  <2>6. n \in [run[v].scenarios -> Runs]
    BY <2>3, <2>5
  <2>7. l = [pc |-> "probe", isolation |-> run[v].isolation, scenarios |-> run[v].scenarios, checked |-> run[v].checked,
             outcomes |-> n, document |-> run[v].document, exit |-> run[v].exit]
    <3>1. l = WithOutcomes(run[v], n)
      BY DEF WithOutcomes
    <3> HIDE DEF l, n
    <3> QED BY <1>4, <2>2, <3>1, LocalChange
  <2>8. run[v].isolation = "enforced" =>
          \A x \in run[v].scenarios : x.probe = "service" => Checked(x, run[v].checked[x])
    BY <1>4, <2>2 DEF LocalOf
  <2> HIDE DEF n, l
  <2>9. LocalOf(l)
    BY <1>4, <2>6, <2>7, <2>8 DEF LocalOf, IsLocal
  <2>10. H!CountedRunsArePinned'
    <3>1. CASE o = "error" \/ s.probe = "task"
      BY <2>1, <3>1 DEF H!CountedRunsArePinned
    <3>2. CASE ~(o = "error" \/ s.probe = "task")
      <4>1. s.probe = "service"
        BY <1>4, <3>2, VerdictConstants DEF H!HoldoutConstants
      <4>2. H!LoadDeployment(s.target, s.digest)
        BY <2>1, <3>2 DEF H!ServiceRun
      <4>3. deploy[s.target] = s.digest /\ s.digest.trust.kind \in {"inline", "trust_store"}
        BY <4>2 DEF H!LoadDeployment, H!ParseDeployment, H!ParseTrust
      <4> DEFINE algorithms == H!Algorithms(deploy[s.target].trust)
      <4>4. counted' = {[scenario |-> s, ran |-> s.digest, under |-> algorithms,
                         checked |-> run[v].checked[s], isolation |-> run[v].isolation]}
        BY <2>1, <3>2, <4>3
      <4>5. s.digest.trust.kind = "inline" => algorithms = {s.digest.trust.algorithm}
        BY <4>3 DEF H!Algorithms
      <4>6. run[v].isolation = "enforced" => Checked(s, run[v].checked[s])
        BY <2>8, <4>1
      <4> HIDE DEF algorithms
      <4> QED BY <4>3, <4>4, <4>5, <4>6 DEF H!CountedRunsArePinned, Checked
    <3> QED BY <3>1, <3>2
  <2>11. run' = [w \in Validators |-> run'[w]] /\ \A w \in Validators : LocalOf(run'[w])
    BY <1>0, <2>4, <2>9
  <2>12. LedgerInv'
    BY <1>0, <2>2, LedgerStays
  <2> QED BY <1>0, <2>2, <2>10, <2>11, <2>12 DEF HoldInv
<1>10. ASSUME NEW v \in Validators, H!Document(v) PROVE HoldInv'
  <2>1. Still /\ run[v].pc = "probe"
    BY <1>10 DEF H!Document, H!files, H!lines, H!Unobserved, Still, H!At
  <2>2. CASE lock # Nothing
    <3> DEFINE d == H!RecordDocument(H!Decide(run[v].scenarios, run[v].outcomes), lock, run[v].scenarios,
                                     run[v].isolation)
    <3> DEFINE l == [run[v] EXCEPT !.pc = "append", !.document = d]
    <3>1. run' = [run EXCEPT ![v] = l]
      BY <1>0, <1>10, <2>2 DEF H!Document
    <3>2. l = [pc |-> "append", isolation |-> run[v].isolation, scenarios |-> run[v].scenarios, checked |-> run[v].checked,
               outcomes |-> run[v].outcomes, document |-> d, exit |-> run[v].exit]
      <4>1. l = WithDocument(WithPc(run[v], "append"), d)
        BY DEF WithDocument, WithPc
      <4> HIDE DEF l, d
      <4> QED BY <1>4, <4>1, LocalChanges
    <3>3. d.green = H!Decide(run[v].scenarios, run[v].outcomes).green
      BY DEF H!RecordDocument
    <3>4. H!Decide(run[v].scenarios, run[v].outcomes).green \in BOOLEAN
      <4>1. H!Decide(run[v].scenarios, run[v].outcomes).green =
              H!Green(run[v].scenarios, [s \in run[v].scenarios |-> H!EvaluateScenario(s.priority, run[v].outcomes[s])])
        BY DEF H!Decide
      <4>2. \A a, b : H!Green(a, b) \in BOOLEAN
        BY DEF H!Green
      <4> QED BY <4>1, <4>2
    <3>5. run[v].outcomes \in [run[v].scenarios -> Runs]
      BY <1>4, <2>1 DEF LocalOf
    <3> HIDE DEF l, d
    <3>6. LocalOf(l)
      BY <1>4, <3>2, <3>3, <3>4, <3>5 DEF LocalOf, IsLocal
    <3> QED BY <2>1, <3>1, <3>6, LocalStep
  <2>3. CASE lock = Nothing
    BY <1>2, <1>10, <2>1, <2>3 DEF H!Document
  <2> QED BY <2>2, <2>3
<1>11. ASSUME NEW v \in Validators, NEW code, H!Exit(v, code), UNCHANGED suite, counted' = {}, LedgerInv'
       PROVE  HoldInv'
  <2>1. run' = [w \in Validators |-> IF w = v THEN [H!Idle EXCEPT !.exit = code] ELSE run[w]]
    BY <1>0, <1>11 DEF H!Exit
  <2>2. run' = [w \in Validators |-> run'[w]] /\ \A w \in Validators : LocalOf(run'[w])
    BY <1>0, <2>1, IdleIs
  <2> QED BY <1>0, <1>11, <2>2 DEF HoldInv, H!CountedRunsArePinned
<1>12. ASSUME NEW d, d \notin H!Range(ledger) PROVE \A i \in DOMAIN ledger : ledger[i] # d
  BY <1>12 DEF H!Range
<1>13. ASSUME NEW e, e = Torn \/ (e.green \in BOOLEAN /\ e \notin H!Range(ledger)), NEW u \in BOOLEAN,
              ledger' = H!Written(e), unended' = u
       PROVE  /\ LedgerOf(ledger') /\ unended' \in BOOLEAN /\ (unended' => ledger' # <<>>)
              /\ SettledOf(ledger, unended) \subseteq SettledOf(ledger', unended')
              /\ ~unended /\ ~unended' => e \in SettledOf(ledger', unended')
  <2>1. e = Torn \/ (e.green \in BOOLEAN /\ \A i \in DOMAIN ledger : ledger[i] # e)
    BY <1>12, <1>13
  <2>2. /\ LedgerOf(H!Written(e)) /\ H!Written(e) # <<>>
        /\ SettledOf(ledger, unended) \subseteq SettledOf(H!Written(e), u)
        /\ ~unended /\ ~u => e \in SettledOf(H!Written(e), u)
    BY <1>0, <2>1, LineWritten
  <2> QED BY <1>13, <2>2
<1>14. ASSUME NEW v \in Validators PROVE run[v].document.green \in BOOLEAN
  BY <1>4
<1>15. ASSUME NEW v \in Validators, H!AppendRecord(v) PROVE HoldInv'
  <2> DEFINE d == run[v].document
  <2>1. /\ IF d \in H!Range(ledger) THEN UNCHANGED <<ledger, unended, appended>>
           ELSE ledger' = H!Written(d) /\ unended' = FALSE /\ appended' = appended \cup {d}
        /\ H!Exit(v, IF d.green THEN "ok" ELSE "red") /\ UNCHANGED <<suite, crashes>> /\ counted' = {}
    BY <1>15 DEF H!AppendRecord, H!files, H!lines
  <2>2. d.green \in BOOLEAN
    BY <1>14
  <2> HIDE DEF d
  <2>3. CASE d \in H!Range(ledger)
    <3>1. LedgerInv'
      BY <1>0, <2>1, <2>3, LedgerStays
    <3> QED BY <1>11, <2>1, <3>1
  <2>4. CASE d \notin H!Range(ledger)
    <3>1. ledger' = H!Written(d) /\ unended' = FALSE /\ appended' = appended \cup {d} /\ crashes' = crashes
      BY <2>1, <2>4
    <3>2. /\ LedgerOf(ledger') /\ unended' \in BOOLEAN /\ (unended' => ledger' # <<>>)
          /\ SettledOf(ledger, unended) \subseteq SettledOf(ledger', unended')
          /\ ~unended /\ ~unended' => d \in SettledOf(ledger', unended')
      BY <1>13, <2>2, <2>4, <3>1
    <3>3. LedgerCosts'
      BY <1>0, <3>1, <3>2, RecordCosts
    <3>4. LedgerInv'
      BY <3>2, <3>3 DEF LedgerInv
    <3> QED BY <1>11, <2>1, <3>4
  <2> QED BY <2>3, <2>4
<1>16. ASSUME NEW v \in Validators, H!TearRecord(v) PROVE HoldInv'
  <2> DEFINE d == run[v].document
  <2>1. /\ \/ UNCHANGED <<ledger, unended>>
           \/ (ledger' = H!Written(Torn) \/ ledger' = H!Written(d)) /\ unended' = TRUE
           \/ ledger' = H!Written(d) /\ unended' = FALSE
        /\ d \notin H!Range(ledger) /\ crashes' = crashes + 1 /\ appended' = appended
        /\ H!Exit(v, "raised") /\ UNCHANGED suite /\ counted' = {}
    BY <1>16 DEF H!TearRecord, H!files, H!lines
  <2>2. d.green \in BOOLEAN
    BY <1>14
  <2> HIDE DEF d
  <2>3. /\ LedgerOf(ledger') /\ unended' \in BOOLEAN /\ (unended' => ledger' # <<>>)
        /\ SettledOf(ledger, unended) \subseteq SettledOf(ledger', unended')
    <3>1. CASE UNCHANGED <<ledger, unended>>
      BY <1>0, <3>1 DEF LedgerInv
    <3>2. CASE ~UNCHANGED <<ledger, unended>>
      <4>1. PICK u \in BOOLEAN : unended' = u /\ (ledger' = H!Written(Torn) \/ ledger' = H!Written(d))
        BY <2>1, <3>2
      <4>2. CASE ledger' = H!Written(Torn)
        BY <1>13, <4>1, <4>2
      <4>3. CASE ledger' = H!Written(d)
        BY <1>13, <2>1, <2>2, <4>1, <4>3
      <4> QED BY <4>1, <4>2, <4>3
    <3> QED BY <3>1, <3>2
  <2>4. LedgerCosts'
    BY <1>0, <2>1, <2>3, FailureCosts
  <2>5. LedgerInv'
    BY <2>3, <2>4 DEF LedgerInv
  <2> QED BY <1>11, <2>1, <2>5
<1>17. ASSUME NEW v \in Validators, H!Restart(v) PROVE HoldInv'
  BY <1>17, IdleIs, LocalStep DEF H!Restart, H!files, H!lines, H!Unobserved, Still
<1> QED
  BY <1>1, <1>5, <1>6, <1>7, <1>8, <1>9, <1>10, <1>15, <1>16, <1>17 DEF H!Next

-----------------------------------------------------------------------------
(* Both sides together *)
RecordsInv == records \in {"facts", "verdicts", "ledger"} /\ (records # "facts" => HoldInv)

\* For any suite, deployments, trust stores, number of validators, runs, supermajority and
\* threshold, and however often the operator edits and a write fails: a record is in the ledger
\* once, and of those that were acknowledged at most one is lost per failed write; behind a green
\* verdict every high-priority scenario and the threshold's share of the normal ones ran without
\* failure; and every run that counted ran the descriptor its scenario pins, one of an
\* authoritative evaluation under rehearsal-only trust only if the descriptor names a trust store
\* that changed after preflight (evaluate_scenario, append_record, ServiceBackend.run).
THEOREM VerdictsAreDeserved == SpecRecords => []VerdictsHold
<1>1. InitRecords => RecordsInv
  BY HoldInvInit DEF InitRecords, RecordsInv
<1>2. RecordsInv /\ [NextRecords]_<<records, vars, holdout>> => RecordsInv'
  <2> SUFFICES ASSUME RecordsInv, [NextRecords]_<<records, vars, holdout>> PROVE RecordsInv'
    OBVIOUS
  <2>1. records' = records
    BY DEF NextRecords
  <2>2. records # "facts" => H!Next \/ UNCHANGED holdout
    BY DEF NextRecords, RecordsInv
  <2>3. HoldInv /\ UNCHANGED holdout => HoldInv'
    <3>1. UNCHANGED holdout => UNCHANGED <<suite, ledger, unended, run, counted, appended, crashes>>
      BY DEF holdout
    <3> QED BY <3>1, LedgerStays DEF HoldInv, H!CountedRunsArePinned
  <2> QED BY <2>1, <2>2, <2>3, HoldInvNext DEF RecordsInv
<1>3. RecordsInv => VerdictsHold
  BY VerdictsFollow DEF RecordsInv, VerdictsHold
<1> QED BY <1>1, <1>2, <1>3, PTL DEF SpecRecords
==============================================================================

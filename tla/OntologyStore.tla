---------------------------- MODULE OntologyStore ----------------------------
(* The authored-fact store of cbp/ontology_store.py: an append-only log of      *)
(* assertions is the truth; an SQLite index and a closure cache are derived     *)
(* from it.  Processes of the owner append, rebuild, verify, and cache at the   *)
(* same time; the ontology moves from version to version.                       *)
EXTENDS Ontology

CONSTANTS Torn, Garbled,      \* a last line cut short, and one another write was appended to
          Procs,              \* processes that share the store,
          Indexers, Closers,  \* those that publish and rebuild the index, and those that verify
                              \* it and cache closures
          Published,          \* the assertions a process publishes, in order
          Extra,              \* assertions any process may append
          Versions,           \* the ontology versions offered, in order
          Available,          \* the hashes imports resolve to
          Queries, Shapes,    \* asked of graphs and closures
          MaxTears, MaxRows   \* bounds: torn writes, rows of the cache

Facts == Extra \cup Range(Published)
Lines == Facts \cup {Torn, Garbled}

\* A line that cannot be read is no assertion.
ASSUME LinesOK ==
  /\ Published \in Seq(Facts) /\ Torn # Garbled /\ {Torn, Garbled} \cap Facts = {}
  /\ Indexers \cup Closers \subseteq Procs

VARIABLES
  log,      \* the log's lines: assertions, Torn or Garbled
  open,     \* the last line has no newline yet
  onto,     \* the version of the ontology in force
  index,    \* the assertions table: its rows and the graph they are tagged with
  cached,   \* closure_cache: rows [graph, onto, closure]; a closure is named by what it was computed from
  local,    \* per process: the graph, closure or position it works with
  \* observation variables
  acked,    \* assertions whose append returned
  answer,   \* the row the cache answers with in this step
  verified, \* the rows an index verification passes in this step
  tears
None == [none |-> TRUE]
vars == <<log, open, onto, index, cached, local, acked, answer, verified, tears>>
observed == <<acked, tears>>
Quiet == answer' = None /\ verified' = None

Idle == [pc |-> "idle", graph |-> {}, read |-> {}, onto |-> 1, next |-> 1]
Init ==
  /\ log = <<>> /\ open = FALSE /\ onto = 1 /\ index = [rows |-> {}, graph |-> {}]
  /\ cached = {} /\ local = [p \in Procs |-> Idle]
  /\ acked = {} /\ answer = None /\ verified = None /\ tears = 0

At(p, pc) == local[p].pc = pc
Rest(p) == local' = [local EXCEPT ![p] = [Idle EXCEPT !.next = local[p].next]]

-----------------------------------------------------------------------------
(* The log *)

\* assertions(): every line parses, or it raises.
Readable == {Torn, Garbled} \cap Range(log) = {}
Graph == Range(log)

\* append: under the file lock, an assertion that is there is not written again.  What is written
\* after a line without a newline becomes part of that line.
Write(line) == IF open THEN [log EXCEPT ![Len(log)] = line] ELSE Append(log, line)
AppendBlindly(a) ==
  /\ log' = Write(IF open THEN Garbled ELSE a) /\ open' = FALSE
  /\ acked' = acked \cup {a}
AppendAssertion(a) ==
  /\ IF a \in Range(log) THEN UNCHANGED <<log, open>>
     ELSE log' = Write(IF open THEN Garbled ELSE a) /\ open' = FALSE
  /\ acked' = acked \cup {a}

\* append_all: the publication, one append after another.
Publish(p) ==
  /\ At(p, "idle") /\ local[p].next <= Len(Published)
  /\ AppendAssertion(Published[local[p].next])
  /\ local' = [local EXCEPT ![p].next = @ + 1]
  /\ Quiet /\ UNCHANGED <<onto, index, cached, tears>>
AppendExtra(p, a) ==
  /\ At(p, "idle") /\ AppendAssertion(a)
  /\ Quiet /\ UNCHANGED <<onto, index, cached, local, tears>>

\* The write stops half way: within the line, or before its newline.
Tear(p, a) ==
  /\ At(p, "idle") /\ tears < MaxTears /\ tears' = tears + 1 /\ a \notin Range(log)
  /\ \E written \in {Torn, a} : log' = Write(IF open THEN Torn ELSE written)
  /\ open' = TRUE
  /\ Quiet /\ UNCHANGED <<onto, index, cached, local, acked>>

-----------------------------------------------------------------------------
(* The index *)

\* index: the graph's hash is taken, then the log is read again for the rows, which replace the
\* table's in one transaction.  (graph() reads the log twice itself; its hash names both readings
\* and differs from that of any log if they do, so that nothing compared with it passes.)
StartIndex(p) ==
  /\ At(p, "idle") /\ Readable
  /\ local' = [local EXCEPT ![p].pc = "index", ![p].graph = Graph]
  /\ Quiet /\ UNCHANGED <<log, open, onto, index, cached, observed>>
FinishIndex(p) ==
  /\ At(p, "index")
  /\ index' = IF Readable THEN [rows |-> Graph, graph |-> local[p].graph] ELSE index
  /\ Rest(p)
  /\ Quiet /\ UNCHANGED <<log, open, onto, cached, observed>>

\* verify_index: the same two readings of the log, then the table is compared with them.
StartVerify(p) ==
  /\ At(p, "idle") /\ Readable
  /\ local' = [local EXCEPT ![p].pc = "verify", ![p].graph = Graph]
  /\ Quiet /\ UNCHANGED <<log, open, onto, index, cached, observed>>
ReadRows(p) ==
  /\ At(p, "verify")
  /\ IF Readable THEN local' = [local EXCEPT ![p].pc = "compare", ![p].read = Graph]
     ELSE Rest(p)
  /\ Quiet /\ UNCHANGED <<log, open, onto, index, cached, observed>>
Passed(p) == [rows |-> index.rows, read |-> local[p].read, began |-> local[p].graph]
CompareTags(p) ==
  /\ At(p, "compare")
  /\ verified' = IF index.graph = local[p].graph THEN Passed(p) ELSE None
  /\ Rest(p)
  /\ answer' = None /\ UNCHANGED <<log, open, onto, index, cached, observed>>
CompareRows(p) ==
  /\ At(p, "compare")
  /\ verified' = IF index = [rows |-> local[p].read, graph |-> local[p].graph]
                 THEN Passed(p) ELSE None
  /\ Rest(p)
  /\ answer' = None /\ UNCHANGED <<log, open, onto, index, cached, observed>>

-----------------------------------------------------------------------------
(* The closure cache *)

\* closure
ClosureOf(graph, v) == ComputeClosure(graph, Versions[v])
Close(p) ==
  /\ At(p, "idle") /\ Readable /\ ClosureOf(Graph, onto).ok
  /\ local' = [local EXCEPT ![p].pc = "closed", ![p].graph = Graph, ![p].onto = onto]
  /\ Quiet /\ UNCHANGED <<log, open, onto, index, cached, observed>>

\* cache_closure: refused unless the log's graph is still the closure's; else the row is replaced.
Replace(graph, p) ==
  /\ cached' = {r \in cached : ~(r.graph = graph /\ r.onto = local[p].onto)}
               \cup {[graph |-> graph, onto |-> local[p].onto, closure |-> <<local[p].graph, local[p].onto>>]}
  /\ Cardinality(cached') <= MaxRows
CacheUnchecked(p) ==
  /\ At(p, "closed") /\ Rest(p)
  /\ IF Readable THEN Replace(Graph, p) ELSE UNCHANGED cached
  /\ Quiet /\ UNCHANGED <<log, open, onto, index, observed>>
CacheClosure(p) ==
  /\ At(p, "closed") /\ Rest(p)
  /\ IF Readable /\ Graph = local[p].graph THEN Replace(Graph, p) ELSE UNCHANGED cached
  /\ Quiet /\ UNCHANGED <<log, open, onto, index, observed>>

\* cached_closure_hash: the row of the log's graph, the ontology and its profile.
Lookup(p) ==
  /\ At(p, "idle") /\ Readable
  /\ answer' \in {r \in cached : r.graph = Graph /\ r.onto = onto}
  /\ verified' = None /\ UNCHANGED <<log, open, onto, index, cached, local, observed>>

-----------------------------------------------------------------------------
\* A new version replaces the ontology if it is well formed, additive and its imports resolve.
Upgrades(v, w) ==
  /\ v # w /\ Additive(Versions[w], Versions[v])
  /\ OntologyOk(Versions[w]) /\ ImportsResolved(Versions[w], Available)
Upgrade ==
  /\ \E v \in DOMAIN Versions : Upgrades(onto, v) /\ onto' = v
  /\ Quiet /\ UNCHANGED <<log, open, index, cached, local, observed>>

Next ==
  \/ Upgrade
  \/ \E p \in Procs :
       \/ \E a \in Extra : AppendExtra(p, a) \/ Tear(p, a)
  \/ \E p \in Indexers : Publish(p) \/ StartIndex(p) \/ FinishIndex(p)
  \/ \E p \in Closers :
       \/ StartVerify(p) \/ ReadRows(p) \/ CompareRows(p)
       \/ Close(p) \/ CacheClosure(p) \/ Lookup(p)
Spec == Init /\ [][Next]_vars

-----------------------------------------------------------------------------
TypeOK ==
  /\ log \in Seq(Lines) /\ open \in BOOLEAN /\ (open => log # <<>>)
  /\ onto \in {1} \cup DOMAIN Versions
  /\ local \in [Procs -> [pc : {"idle", "index", "verify", "compare", "closed"},
                         graph : SUBSET Lines, read : SUBSET Lines,
                         onto : {1} \cup DOMAIN Versions, next : Nat \ {0}]]
  /\ acked \subseteq Facts /\ IsFiniteSet(acked) /\ tears \in Nat

\* No assertion is in the log twice ("Idempotent ... a retried publish never duplicates facts"), only
\* the last line is torn, and of what append acknowledged -- because it wrote it, or found it there --
\* a write that stops half way costs at most two: the line it left without a newline, which a retry
\* finds and acknowledges, and the one that is later written behind it (append).
LogKeepsFacts ==
  /\ TypeOK
  /\ \A i, j \in DOMAIN log : log[i] = log[j] /\ log[i] \in Facts => i = j
  /\ \A i \in DOMAIN log : log[i] = Torn => i = Len(log) /\ open
  /\ Cardinality(acked \ Graph) <= 2 * tears

\* "Fail closed if the derived assertion index disagrees with the canonical log": rows that pass are
\* the log's, as it was read during the verification, however appends and rebuilds interleave with
\* the two readings: no row is missing that was in the log when the verification began, and, unless
\* the log has become unreadable, none is there that the log has not (verify_index).
VerifiedRowsAreLogs ==
  verified # None => /\ verified.rows = verified.read /\ verified.began \subseteq verified.rows
                     /\ Readable => verified.rows \subseteq Graph

\* A closure the cache answers with is the closure of the log and the ontology it was asked for,
\* although others appended between its computation and its caching (cache_closure).
Answered == ClosureOf(answer.closure[1], answer.closure[2]).facts
CachedClosureIsRight ==
  answer # None => Answered = ClosureOf(answer.graph, answer.onto).facts

\* "Positive Datalog + stratified negation": a closure is closed under its rules, and every derived
\* fact has a rule instance whose negated atoms are absent from the FINAL closure, not only from
\* the snapshot it was derived from (compute_closure, _stratify).
ClosureIsSupported ==
  answer # None =>
    Answered = answer.graph \cup OntologyFacts(Versions[answer.onto])
               \cup Derived(Versions[answer.onto].rules, Answered)

\* What is discovered in the authored graph is discovered in its closure, under this version and
\* every later additive one; and what violates a shape there still does, except that derived
\* facts may be the ones that were too few (discover, validate_shape, assert_additive).
ClosureKeepsAnswers ==
  answer # None =>
    LET found(facts, v) == [q \in Queries |-> Discover(facts, Versions[v], q)]
        violated(facts) == UNION {Violations(facts, Versions[answer.onto], shape) : shape \in Shapes}
        authored == found(answer.graph, answer.onto)
    IN /\ \A q \in Queries : authored[q] \subseteq found(Answered, answer.onto)[q]
       /\ \A q \in Queries, v \in DOMAIN Versions :
            Upgrades(answer.onto, v) => authored[q] \subseteq found(answer.graph, v)[q]
       /\ {x \in violated(answer.graph) : x[3] # "too-few"} \subseteq violated(Answered)
\* All that a cached closure promises.
CachedClosure == CachedClosureIsRight /\ ClosureIsSupported /\ ClosureKeepsAnswers
=============================================================================

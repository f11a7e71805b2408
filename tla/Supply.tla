------------------------------- MODULE Supply -------------------------------
(* The component supply chain: a design is pinned to a lock (cbp/lockfile.py),  *)
(* and a process boots the lock: it resolves every component from its source    *)
(* through the content-addressed cache (resolver.py, cache.py), walks the graph *)
(* of references depth first (component_graph.py), materializes state           *)
(* (component_state.py) and resolves entries (component_boot.py,                *)
(* component_runtime.py, component_process.py).  Sources, cache files and state *)
(* files are shared, and change under a boot.  A digest is modelled by the      *)
(* content it is taken of.                                                      *)
EXTENDS Naturals, FiniteSets, Sequences, SequencesExt

CONSTANTS None,          \* no file, no value
          Corrupt,       \* a state file whose content is no longer what was written
          Rotten,        \* what is read from a cache file that decayed: no bundle of Bundles
          Booters,       \* processes that boot
          Names,         \* component names
          Bundles,       \* what a source may hold: bundles, as records (see Manifest)
          Contracts,     \* the lock's harness_contracts
          Requested,     \* the components of the design, the first of them the root
          Allowlist,     \* entry points that resolve in process
          AllowSubprocess,
          MaxEdits, MaxWrites, MaxDepth   \* bounds

VARIABLES
  source,   \* per component, the bundle its source holds now
  lock,     \* None, or the lock: per component, the pinned bundle
  cache,    \* per bundle, what the cache file of its digest holds
  state,    \* per component, its state file: None, Corrupt, or how many rows it holds
  boot,     \* per booter, the locals of boot_from_lock
  \* observation variables
  answers,  \* per component with state, how many of its runs were answered
  edits
vars == <<source, lock, cache, state, boot, answers, edits>>

-----------------------------------------------------------------------------
(* Bundles and manifests *)

\* ComponentManifest (contracts/component.py) as far as pinning and booting look at it: its name,
\* kind, contracts, references in order of target, embedded children, entry, and whether it
\* declares state; `signed` is whether its signature verifies, `good` whether the bundle has a
\* component.json that parses.
Manifest(b) ==
  /\ b.good /\ b.implements # {}
  /\ b.kind \in {"atomic", "composite", "model"}
  /\ (b.refs # <<>> \/ b.embeds # {}) => b.kind = "composite"

\* _embedded_manifest: an embedded child is in the bundle, has a manifest, and is no composite.
EmbedsOk(b) == \A e \in b.embeds : e = "leaf"

\* pin_design: every requested component has a source, whose manifest carries its name, pinned
\* contracts and a signature.
Pinnable(n) ==
  /\ source[n] # None /\ Manifest(source[n]) /\ source[n].name = n
  /\ source[n].implements \subseteq Contracts /\ source[n].signature

PinDesign ==
  /\ lock = None /\ \A k \in DOMAIN Requested : Pinnable(Requested[k])
  /\ lock' = [root |-> Requested[1],
              entries |-> [n \in Range(Requested) |-> source[n]]]
  /\ UNCHANGED <<source, cache, state, boot, answers, edits>>

-----------------------------------------------------------------------------
(* The cache *)

\* put: a file that holds the content already is left alone, any other is replaced atomically.
Put(b) == [cache EXCEPT ![b] = b]

\* get: None, the content, or CacheError when the file does not hash to its name.
Get(b) == IF cache[b] = None THEN "missing" ELSE IF cache[b] = b THEN "ok" ELSE "corrupt"

-----------------------------------------------------------------------------
(* Booting *)

Idle == [pc |-> "idle", stack |-> <<>>, next |-> None, nodes |-> <<>>, left |-> <<>>, tree |-> <<>>]

Init ==
  /\ source \in [Names -> Bundles \cup {None}] /\ lock = None
  /\ cache = [b \in Bundles |-> None] /\ state = [n \in Names |-> None]
  /\ boot = [p \in Booters |-> Idle] /\ edits = 0
  /\ answers = [n \in Names |-> 0]

At(p, pc) == boot[p].pc = pc
Fail(p) == boot' = [boot EXCEPT ![p] = [Idle EXCEPT !.pc = "failed"]]
OnStack(p, n) == \E k \in DOMAIN boot[p].stack : boot[p].stack[k].name = n
Resolved(p) == {boot[p].nodes[k].name : k \in DOMAIN boot[p].nodes}

\* boot_from_lock, from the lock to the graph; its signature and log checks are in Release.
Boot(p) ==
  /\ At(p, "idle") /\ lock # None
  /\ boot' = [boot EXCEPT ![p].pc = "visit", ![p].next = lock.root]
  /\ UNCHANGED <<source, lock, cache, state, answers, edits>>

\* _visit: a name being visited is a cycle, one already resolved is done, any other is resolved.
Visit(p) ==
  /\ At(p, "visit")
  /\ IF OnStack(p, boot[p].next) THEN Fail(p)
     ELSE IF boot[p].next \in Resolved(p) THEN boot' = [boot EXCEPT ![p].pc = "descend"]
     ELSE boot' = [boot EXCEPT ![p].pc = "resolve"]
  /\ UNCHANGED <<source, lock, cache, state, answers, edits>>

\* Resolver.resolve: the component is in the lock, its source holds the pinned bundle, its
\* contracts are known and its signature verifies; then it is put into the cache.
Resolve(p) ==
  /\ At(p, "resolve")
  /\ LET n == boot[p].next
     IN IF /\ n \in DOMAIN lock.entries /\ source[n] = lock.entries[n]
           /\ lock.entries[n].implements \subseteq Contracts /\ lock.entries[n].verifies
        THEN /\ cache' = Put(source[n])
             /\ boot' = [boot EXCEPT ![p].pc = "load"]
        ELSE Fail(p) /\ UNCHANGED cache
  /\ UNCHANGED <<source, lock, state, answers, edits>>

\* _resolve_node, second half: the bundle is read back from the cache, its manifest parsed, its
\* references looked up in the lock and its embedded children checked.  The node waits on the
\* stack until its references are resolved.
LoadNode(p) ==
  /\ At(p, "load") /\ Len(boot[p].stack) < MaxDepth
  /\ LET n == boot[p].next
         b == lock.entries[n]
     IN IF /\ Get(b) = "ok" /\ Manifest(b) /\ EmbedsOk(b)
           /\ \A k \in DOMAIN b.refs : b.refs[k] \in DOMAIN lock.entries
        THEN boot' = [boot EXCEPT ![p].pc = "descend", ![p].stack =
                        Append(@, [name |-> n, rest |-> b.refs, content |-> cache[b]])]
        ELSE Fail(p)
  /\ UNCHANGED <<source, lock, cache, state, answers, edits>>

\* The next reference of the node on top is visited; a node without any is resolved.
Descend(p) ==
  /\ At(p, "descend") /\ boot[p].stack # <<>>
  /\ LET top == Last(boot[p].stack)
         below == Front(boot[p].stack)
         nodes == Append(boot[p].nodes, [name |-> top.name, content |-> top.content])
     IN IF top.rest # <<>>
        THEN boot' = [boot EXCEPT ![p].pc = "visit", ![p].next = Head(top.rest),
                        ![p].stack = Append(below, [top EXCEPT !.rest = Tail(@)])]
        ELSE boot' = [boot EXCEPT ![p].nodes = nodes, ![p].stack = below, ![p].left = nodes,
                        ![p].pc = IF below = <<>> THEN "assemble" ELSE "descend"]
  /\ UNCHANGED <<source, lock, cache, state, answers, edits>>

\* _check_conformance: the manifest carries the node's name and declares only what the lock pins.
Conforms(node) == node.content.name = node.name /\ node.content.implements \subseteq Contracts

\* The next node of the graph: its conformance, and whether its state is there already.
\* materialize_state verifies a state file that exists and keeps it.
Assemble(p) ==
  /\ At(p, "assemble") /\ boot[p].left # <<>>
  /\ LET node == Head(boot[p].left)
     IN IF ~Conforms(node) \/ (node.content.state /\ state[node.name] = Corrupt) THEN Fail(p)
        ELSE boot' = [boot EXCEPT ![p].pc =
                        IF node.content.state /\ state[node.name] = None THEN "publish" ELSE "entry"]
  /\ UNCHANGED <<source, lock, cache, state, answers, edits>>

\* _create_wal_database and os.replace: the empty database takes the place of whatever is there.
PublishState(p) ==
  /\ At(p, "publish")
  /\ state' = [state EXCEPT ![Head(boot[p].left).name] = 0]
  /\ boot' = [boot EXCEPT ![p].pc = "entry"]
  /\ UNCHANGED <<source, lock, cache, answers, edits>>

\* _resolve_entry: an allowlisted entry runs in process, any other as a subprocess of the
\* bundle, which is taken from the cache again.
ResolveEntry(p) ==
  /\ At(p, "entry")
  /\ LET node == Head(boot[p].left)
         how == IF node.content.entry \in Allowlist THEN "process"
                ELSE IF AllowSubprocess /\ Get(lock.entries[node.name]) = "ok" THEN "subprocess"
                ELSE None
     IN IF how = None THEN Fail(p)
        ELSE LET tree == Append(boot[p].tree, [name |-> node.name, content |-> node.content, entry |-> how])
                 left == Tail(boot[p].left)
             IN boot' = [boot EXCEPT ![p].tree = tree, ![p].left = left,
                           ![p].pc = IF left = <<>> THEN "booted" ELSE "assemble"]
  /\ UNCHANGED <<source, lock, cache, state, answers, edits>>

\* _component_runner.main: how the child process of a component ends.
Runner(protocol, importable, raises) == IF ~protocol \/ ~importable \/ raises THEN "error" ELSE "zero"

\* run_component: a result only from a child that ended in time with exit code 0 and a response
\* that is bounded and parses; ComponentProcessError otherwise, also after the child did its work.
RunComponent(exit, inTime, readable) == inTime /\ exit = "zero" /\ readable

\* An entry of the booted tree runs (BootedTree.run): it may write to its state before it raises,
\* or is stopped, and has written when it returns.
Run(p) ==
  /\ At(p, "booted")
  /\ \E k \in DOMAIN boot[p].tree, raises, inTime, readable, wrote \in BOOLEAN :
       LET n == boot[p].tree[k].name
           answered == IF boot[p].tree[k].entry = "process" THEN ~raises
                       ELSE RunComponent(Runner(TRUE, TRUE, raises), inTime, readable)
       IN /\ boot[p].tree[k].content.state /\ state[n] \in 0..MaxWrites - 1
          /\ answered => wrote
          /\ state' = IF wrote THEN [state EXCEPT ![n] = @ + 1] ELSE state
          /\ answers' = IF answered THEN [answers EXCEPT ![n] = @ + 1] ELSE answers
  /\ UNCHANGED <<source, lock, cache, boot, edits>>

\* The process ends.
Exit(p) ==
  /\ boot[p].pc \in {"booted", "failed"}
  /\ boot' = [boot EXCEPT ![p] = Idle]
  /\ UNCHANGED <<source, lock, cache, state, answers, edits>>

-----------------------------------------------------------------------------
(* The world *)
Edit == edits < MaxEdits /\ edits' = edits + 1 /\ UNCHANGED <<lock, boot, answers>>
SourceChanges ==
  Edit /\ (\E n \in Names, b \in Bundles \cup {None} : source' = [source EXCEPT ![n] = b])
  /\ UNCHANGED <<cache, state>>
CacheDecays == Edit /\ (\E b \in Bundles : cache[b] # None /\ cache' = [cache EXCEPT ![b] = Rotten])
               /\ UNCHANGED <<source, state>>
StateDecays == Edit /\ (\E n \in Names : state[n] # None /\ state' = [state EXCEPT ![n] = Corrupt])
               /\ UNCHANGED <<source, cache>>

Booting(p) == \/ Visit(p) \/ Resolve(p) \/ LoadNode(p) \/ Descend(p)
              \/ Assemble(p) \/ PublishState(p) \/ ResolveEntry(p)
Next ==
  \/ PinDesign \/ SourceChanges \/ CacheDecays \/ StateDecays
  \/ \E p \in Booters : Boot(p) \/ Booting(p) \/ Run(p) \/ Exit(p)
Spec == Init /\ [][Next]_vars /\ \A p \in Booters : WF_vars(Booting(p))

-----------------------------------------------------------------------------
\* Booters, cache files and state files are of their types.
TypeOK ==
  /\ \A b \in Bundles : cache[b] \in {None, Rotten, b}
  /\ \A n \in Names : state[n] \in {None, Corrupt} \cup 0..MaxWrites
  /\ \A p \in Booters : Len(boot[p].stack) <= Cardinality(Names)

\* What a booted tree holds is, for every component, the bundle the lock pins, signed and of that
\* name, however sources, cache files and other boots changed under it (resolve verifies before it
\* puts, get verifies what it reads).
BootedIsPinned ==
  \A p \in Booters : \A k \in DOMAIN boot[p].tree :
    LET c == boot[p].tree[k]
    IN c.content = lock.entries[c.name] /\ c.content.name = c.name /\ c.content.verifies

\* A component is started after everything it references, and once: a booted tree is a
\* topological order of the lock's references that ends with the root (resolve_graph).
ReferencesFirst ==
  \A p \in Booters : At(p, "booted") =>
    LET tree == boot[p].tree
        place(n) == CHOOSE k \in DOMAIN tree : tree[k].name = n
    IN /\ tree[Len(tree)].name = lock.root
       /\ \A j, k \in DOMAIN tree : tree[j].name = tree[k].name => j = k
       /\ \A k \in DOMAIN tree : \A r \in Range(tree[k].content.refs) :
            (\E j \in DOMAIN tree : tree[j].name = r) /\ place(r) < k

\* What a component wrote before it answered is in its state file, through exits, failed boots and
\* further boots, as long as one process boots at a time (materialize_state keeps a state file
\* that is there; a decayed one fails the boot).
AnsweredWritesKept == \A n \in Names : state[n] = Corrupt \/ answers[n] = 0 \/ state[n] >= answers[n]
=============================================================================

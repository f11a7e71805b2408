------------------------------ MODULE CbpAgent ------------------------------
(***************************************************************************)
(* One agent of the agent-centric CBP tree (cbp/agent.py), with the pieces *)
(* it owns: its registry, resource envelope (cbp/envelopes.py), durable    *)
(* state and trajectory stores (cbp/store.py), the idempotency cache and   *)
(* the links to the children it spawned.                                   *)
(*                                                                         *)
(* The parent is any speaker of the wire protocol: it may send any         *)
(* directive, repeat one, or reuse a correlation id for different work.    *)
(* A link is FIFO and reliable (the inproc transport), and an agent takes  *)
(* one parent directive per poll, so "the next directive is handled" is    *)
(* one step.  A child answers the runs forwarded to it in order, with any  *)
(* answer a run can have, or its own poll raises and the run is lost.      *)
(*                                                                         *)
(* A directive's fingerprint (correlation id, kind, canonical payload) is  *)
(* modelled by the directive itself: two directives have one fingerprint   *)
(* exactly when they are equal.                                            *)
(***************************************************************************)
EXTENDS Integers, Sequences, FiniteSets

CONSTANTS
    Cid,           \* correlation ids
    Name,          \* registry names, of tasks and of verifiers
    Value,         \* values a task returns or a state key holds
    Kid,           \* identities of children
    Key,           \* keys of the durable state store
    Path,          \* files a state grant may name
    RunPayload,    \* payloads of run directives
    Grant,         \* payloads of configure directives
    Size,          \* byte lengths a spawn payload may have
    Catalog,       \* the parent-provisioned catalog: Name -> entry
    Verdict,       \* what a verifier does with a value
    MaxDirectives, \* bound on the directives handled
    None           \* Python's None

VARIABLES
    alive,      \* _alive, and the parent socket is open
    registry,   \* _registry: name -> entry or None
    verifier,   \* _verifier: the configured default verifier
    guard,      \* _envelope_guard
    children,   \* _children and _child_agents: the spawned identities
    delegated,  \* _delegated: cid -> child awaited, or None
    down,       \* per child, the forwarded runs it has not answered yet
    results,    \* _results: run directive -> cached response or None
    usedKeys,   \* _used_keys
    store,      \* _state_store: the open handle or None
    files,      \* the state files: path -> rows, or None if there is none
    trajOpen,   \* _trajectory_store is not None
    traj,       \* the trajectory file: cid -> event or None
    received,   \* directives handled so far (bounds the model)
    answers,    \* history: every answer sent to the parent
    work,       \* history: runs executed and children born since the grant
    acked,      \* history: per file and key, the writes acknowledged
    lost        \* history: forwarded runs whose child raised

grants  == <<registry, verifier, guard, work>>
cache   == <<results, usedKeys>>
links   == <<children, delegated, down, lost>>
disk    == <<store, files, acked>>
vars    == <<alive, grants, links, cache, disk, trajOpen, traj, received,
             answers>>

-----------------------------------------------------------------------------
(* Data: records of the wire contract (message.py), the registry, the      *)
(* envelope and the two stores.                                             *)

Entry    == [callable : BOOLEAN, located : BOOLEAN]
Limit    == Nat \union {None}
Envelope == [step_limit : Limit, size_cap : Limit, child_limit : Limit,
             latency : BOOLEAN]
Guard    == [env : Envelope, steps : Nat, kids : Nat, late : BOOLEAN]

Response == [kind : {"ok", "result"}, verified : {TRUE},
             value : Value \union {None}]
            \union [kind : {"error"}, verified : {FALSE}, value : {None}]
Event    == [kind : {"ok", "result", "error", "relay"}, verified : BOOLEAN,
             value : Value \union {None}, parent : Kid \union {None}]
Answer   == [via : {"run", "relay", "other"}, cid : Cid, resp : Response]

RunDirective == [cid : Cid, payload : RunPayload]
Write        == [cid : Cid, key : Key, value : Value \union {None}]
Rows         == [Key -> Write \union {None}]
Handle       == [path : Path, read_only : BOOLEAN]

ASSUME ConstantsOK ==
    /\ RunPayload \subseteq [task : Name \union {None},
                             verifier : Name \union {None}, size : Nat]
    /\ Grant \subseteq [env : Envelope \union {None}, bad_env : BOOLEAN,
                        verifier : Name \union {None}, clear : BOOLEAN,
                        names : SUBSET Name, unknown : BOOLEAN,
                        state : Path \union {None}, read_only : BOOLEAN,
                        trajectory : BOOLEAN]
    /\ \A g \in Grant : \A n \in g.names : Catalog[n] # None
    /\ Size \subseteq Nat
    /\ MaxDirectives \in Nat
    /\ Catalog \in [Name -> Entry \union {None}]
    /\ Verdict \in [Name -> [Value -> {"accept", "refuse", "reject", "raise"}]]

ASSUME NoneIsNoData ==
    /\ None \notin Name /\ None \notin Value /\ None \notin Kid
    /\ None \notin Path /\ None \notin Nat
    /\ None \notin Entry /\ None \notin Envelope /\ None \notin Response
    /\ None \notin Event /\ None \notin Write /\ None \notin Handle
    /\ None \notin Rows

Ok        == [kind |-> "ok", verified |-> TRUE, value |-> None]
Err       == [kind |-> "error", verified |-> FALSE, value |-> None]
Result(v) == [kind |-> "result", verified |-> TRUE, value |-> v]

Unbounded == [step_limit |-> None, size_cap |-> None, child_limit |-> None,
              latency |-> FALSE]

-----------------------------------------------------------------------------
(* EnvelopeGuard.  An agent without a guard is one whose envelope has no    *)
(* limits: its counters are never read.                                     *)

NewGuard(env) == [env |-> env, steps |-> 0, kids |-> 0, late |-> FALSE]

Exceeds(n, limit) == limit # None /\ n > limit
AtLimit(n, limit) == limit # None /\ n >= limit

check_directive(g, kind, size) ==
    \/ g.late
    \/ Exceeds(size, g.env.size_cap)
    \/ AtLimit(g.steps, g.env.step_limit)
    \/ kind = "spawn" /\ AtLimit(g.kids, g.env.child_limit)

record_step(g, is_spawn) ==
    [env |-> g.env, steps |-> g.steps + 1,
     kids |-> IF is_spawn THEN g.kids + 1 ELSE g.kids, late |-> g.late]

(* Registry.resolve: the callable of a name, if it has one.                 *)
Callable(n) == registry[n] # None /\ registry[n].callable

(* _verify: the outcome of applying a named verifier.  "reject" is a raised *)
(* exception _dispatch turns into an error answer (ValueError, KeyError),   *)
(* "raise" one that leaves poll.                                            *)
_verify(v, n) ==
    IF n = None THEN "accept"
    ELSE IF ~Callable(n) THEN "refuse" ELSE Verdict[n][v]

(* TrajectoryStore.record with its StoreError suppressed: write-once.       *)
record(t, open, c, e) ==
    [t EXCEPT ![c] = IF open /\ @ = None THEN e ELSE @]

LocalEvent(r) ==
    [kind |-> r.kind, verified |-> r.verified, value |-> r.value,
     parent |-> None]
RelayEvent(r, k) ==
    [kind |-> "relay", verified |-> r.verified, value |-> r.value,
     parent |-> k]

-----------------------------------------------------------------------------
Init ==
    /\ alive = TRUE
    /\ registry = [n \in Name |-> None]
    /\ verifier = None
    /\ guard = NewGuard(Unbounded)
    /\ children = {}
    /\ delegated = [c \in Cid |-> None]
    /\ down = [k \in Kid |-> <<>>]
    /\ results = [d \in RunDirective |-> None]
    /\ usedKeys = {}
    /\ store = None
    /\ files = [p \in Path |-> None]
    /\ trajOpen = FALSE
    /\ traj = [c \in Cid |-> None]
    /\ received = 0
    /\ answers = {}
    /\ work = [ran |-> 0, born |-> 0]
    /\ acked = [p \in Path |-> [k \in Key |-> <<>>]]
    /\ lost = {}

(* The parent's next directive is taken from the link. *)
Receive ==
    /\ alive
    /\ received < MaxDirectives
    /\ received' = received + 1
    /\ UNCHANGED alive

(* _send: the answer goes up. *)
_send(via, c, r) ==
    answers' = answers \union {[via |-> via, cid |-> c, resp |-> r]}

(* _dispatch_inner's last three lines: send the answer, then record it in   *)
(* the trajectory that is open once the directive has been handled.         *)
Respond(via, c, r) ==
    /\ _send(via, c, r)
    /\ traj' = record(traj, trajOpen', c, LocalEvent(r))

(* _dispatch's except clause: an error answer that is not recorded. *)
Reject(via, c) ==
    /\ _send(via, c, Err)
    /\ UNCHANGED traj

(* An exception _dispatch does not catch leaves poll: no answer at all. *)
Abort == UNCHANGED <<answers, traj>>

-----------------------------------------------------------------------------
(* _run_task: a run directive that names no child.                          *)

(* The fingerprint is cached: the cached response, nothing executed. *)
RunCached(d) ==
    /\ Receive
    /\ results[d] # None
    /\ UNCHANGED <<grants, links, cache, disk, trajOpen>>
    /\ Respond("run", d.cid, results[d])

Fresh(d) == results[d] = None /\ d.cid \notin usedKeys

(* The checks that let a run execute, made before any work begins. *)
Permitted(d) ==
    /\ Fresh(d)
    /\ d.payload.task # None
    /\ ~check_directive(guard, "run", d.payload.size)
    /\ Callable(d.payload.task)

(* A reused correlation id, a missing or unknown task or an exhausted      *)
(* envelope: an explicit error, nothing executed.                           *)
RunRefused(d) ==
    /\ Receive
    /\ results[d] = None
    /\ ~Permitted(d)
    /\ UNCHANGED <<grants, links, cache, disk, trajOpen>>
    /\ Respond("run", d.cid, Err)

(* The task is called: the step is accounted for first. *)
Execute(d) ==
    /\ Receive
    /\ Permitted(d)
    /\ guard' = record_step(guard, FALSE)
    /\ work' = [work EXCEPT !.ran = @ + 1]
    /\ UNCHANGED <<registry, verifier, links, disk, trajOpen>>

(* The task raised: an error that is not cached, so a retry runs it again. *)
RunRaises(d) ==
    /\ Execute(d)
    /\ UNCHANGED cache
    /\ Respond("run", d.cid, Err)

verifier_name(d) ==
    IF d.payload.verifier # None THEN d.payload.verifier ELSE verifier

(* Mutant: the response is sent but not cached. *)
RunReturnsUncached(d, v) ==
    LET verdict == _verify(v, verifier_name(d))
    IN  /\ Execute(d)
        /\ verdict \in {"accept", "refuse"}
        /\ UNCHANGED cache
        /\ Respond("run", d.cid, IF verdict = "accept" THEN Result(v) ELSE Err)

(* The task returned v and its verifier gave a verdict: the response,       *)
(* verified or not, is cached under the fingerprint.                        *)
RunReturns(d, v) ==
    LET verdict == _verify(v, verifier_name(d))
        resp    == IF verdict = "accept" THEN Result(v) ELSE Err
    IN  /\ Execute(d)
        /\ verdict \in {"accept", "refuse"}
        /\ results' = [results EXCEPT ![d] = resp]
        /\ usedKeys' = usedKeys \union {d.cid}
        /\ Respond("run", d.cid, resp)

(* The task returned v and its verifier raised: nothing is cached. *)
RunVerifierRaises(d, v) ==
    LET verdict == _verify(v, verifier_name(d))
    IN  /\ Execute(d)
        /\ UNCHANGED cache
        /\ \/ verdict = "reject" /\ Reject("run", d.cid)
           \/ verdict = "raise" /\ Abort

Run(d) ==
    \/ RunCached(d)
    \/ RunRefused(d)
    \/ RunRaises(d)
    \/ \E v \in Value : RunReturns(d, v) \/ RunVerifierRaises(d, v)

-----------------------------------------------------------------------------
(* A run directive that names a child, and what comes back from it.         *)

(* delegate: the directive goes down the child's link. *)
delegate(c, k) == down' = [down EXCEPT ![k] = Append(@, c)]

(* Forwarded, and noted as awaited; neither the envelope, nor the cache,    *)
(* nor the used correlation ids are consulted.                              *)
Delegate(c, k) ==
    /\ Receive
    /\ k \in children
    /\ delegate(c, k)
    /\ delegated' = [delegated EXCEPT ![c] = k]
    /\ UNCHANGED <<children, lost, grants, cache, disk, trajOpen, traj,
                   answers>>

DelegateUnknown(c, k) ==
    /\ Receive
    /\ k \notin children
    /\ UNCHANGED <<grants, links, cache, disk, trajOpen>>
    /\ Respond("run", c, Err)

(* Mutant: the delegation is looked up and not popped. *)
DrainKeepsAwaiting(k) ==
    /\ alive
    /\ down[k] # <<>>
    /\ down' = [down EXCEPT ![k] = Tail(@)]
    /\ UNCHANGED <<alive, received, children, delegated, lost, grants, cache,
                   disk, trajOpen>>

(* A child's next message is drained; _delegated is popped by correlation   *)
(* id, whichever child the message came from.                               *)
Drain(k) ==
    /\ alive
    /\ down[k] # <<>>
    /\ down' = [down EXCEPT ![k] = Tail(@)]
    /\ delegated' = [delegated EXCEPT ![Head(down[k])] = None]
    /\ UNCHANGED <<alive, received, children, lost, grants, cache, disk,
                   trajOpen>>

Awaited(k) == delegated[Head(down[k])] # None

(* _relay_verified: recorded, then sent up. *)
Relay(k, r) ==
    /\ traj' = record(traj, trajOpen, Head(down[k]), RelayEvent(r, k))
    /\ _send("relay", Head(down[k]), r)

(* Nobody awaits this correlation id any more: drained, not relayed. *)
ChildUnsolicited(k) ==
    /\ Drain(k)
    /\ ~Awaited(k)
    /\ Abort

(* The child's error is relayed as it is. *)
ChildFailed(k) ==
    /\ Drain(k)
    /\ Awaited(k)
    /\ Relay(k, Err)

(* Mutant: the child's own verification is trusted. *)
ChildTrusted(k, v) ==
    /\ Drain(k)
    /\ Awaited(k)
    /\ Relay(k, Result(v))

(* The child's verified value is checked against this agent's own verifier: *)
(* relayed, demoted to an error, or the verifier's exception leaves poll.   *)
ChildVerified(k, v) ==
    LET verdict == _verify(v, verifier)
    IN  /\ Drain(k)
        /\ Awaited(k)
        /\ \/ verdict = "accept" /\ Relay(k, Result(v))
           \/ verdict = "refuse" /\ Relay(k, Err)
           \/ verdict \in {"reject", "raise"} /\ Abort

(* The child's poll raised on the forwarded run: it consumed the directive  *)
(* and answers nothing.                                                     *)
ChildRaises(k) ==
    /\ alive
    /\ down[k] # <<>>
    /\ down' = [down EXCEPT ![k] = Tail(@)]
    /\ lost' = lost \union {<<k, Head(down[k])>>}
    /\ UNCHANGED <<alive, received, children, delegated, grants, cache, disk,
                   trajOpen, traj, answers>>

ChildStep(k) ==
    \/ ChildUnsolicited(k)
    \/ ChildFailed(k)
    \/ \E v \in Value : ChildVerified(k, v)
    \/ ChildRaises(k)

-----------------------------------------------------------------------------
(* _configure.  g.names are the granted names up to the first one the       *)
(* catalog does not have (then g.unknown); the effects that precede an      *)
(* exception stay.                                                          *)

(* ResourceEnvelope.validate raises before the guard is replaced. *)
ConfigureBadEnvelope(c, g) ==
    /\ Receive
    /\ g.bad_env
    /\ UNCHANGED <<grants, links, cache, disk, trajOpen>>
    /\ Reject("other", c)

ApplyGrants(g) ==
    /\ ~g.bad_env
    /\ guard' = IF g.env = None THEN guard ELSE NewGuard(g.env)
    /\ work' = IF g.env = None THEN work ELSE [ran |-> 0, born |-> 0]
    /\ verifier' = IF g.clear THEN None
                   ELSE IF g.verifier # None THEN g.verifier ELSE verifier
    /\ registry' = [n \in Name |-> IF n \in g.names THEN Catalog[n]
                                   ELSE registry[n]]
    /\ UNCHANGED <<links, cache>>

(* An uncatalogued name: KeyError, answered and not recorded. *)
ConfigureUnknown(c, g) ==
    /\ Receive
    /\ g.unknown
    /\ ApplyGrants(g)
    /\ UNCHANGED <<disk, trajOpen>>
    /\ Reject("other", c)

(* A read-only grant of a file that does not exist: StoreError leaves poll. *)
CannotOpen(g) == g.state # None /\ g.read_only /\ files[g.state] = None

ConfigureCannotOpen(c, g) ==
    /\ Receive
    /\ ~g.unknown
    /\ CannotOpen(g)
    /\ ApplyGrants(g)
    /\ UNCHANGED <<disk, trajOpen>>
    /\ Abort

(* Mutant: the file is not created. *)
open_existing(g) ==
    /\ store' = IF g.state = None THEN store
                ELSE [path |-> g.state, read_only |-> g.read_only]
    /\ UNCHANGED files

(* open_state: a writable open creates the file. *)
open_state(g) ==
    IF g.state = None
      THEN UNCHANGED <<store, files>>
      ELSE /\ store' = [path |-> g.state, read_only |-> g.read_only]
           /\ files' = [files EXCEPT ![g.state] =
                            IF @ = None THEN [k \in Key |-> None] ELSE @]

Configure(c, g) ==
    /\ Receive
    /\ ~g.unknown
    /\ ~CannotOpen(g)
    /\ ApplyGrants(g)
    /\ open_state(g)
    /\ trajOpen' = (trajOpen \/ g.trajectory)
    /\ UNCHANGED acked
    /\ Respond("other", c, Ok)

-----------------------------------------------------------------------------
(* The passive catalog: _register_capability and _resolve_capability.  A    *)
(* registration replaces the entry, and a registered entry has no callable. *)
Register(c, n, located) ==
    /\ Receive
    /\ registry' = [registry EXCEPT ![n] =
                        [callable |-> FALSE, located |-> located]]
    /\ UNCHANGED <<verifier, guard, work, links, cache, disk, trajOpen>>
    /\ Respond("other", c, Ok)

(* The metadata answered is abstracted to None. *)
Resolve(c, n) ==
    /\ Receive
    /\ UNCHANGED <<grants, links, cache, disk, trajOpen>>
    /\ Respond("other", c, IF registry[n] # None /\ registry[n].located
                           THEN Result(None) ELSE Err)

-----------------------------------------------------------------------------
(* _spawn.  The outcome is "born"; "refused" when the kind is undeclared or *)
(* the endpoint fails the bind policy; "raised" when the bind itself        *)
(* raises, which leaves poll.                                               *)

SpawnRefused(c, size) ==
    /\ Receive
    /\ check_directive(guard, "spawn", size)
    /\ UNCHANGED <<grants, links, cache, disk, trajOpen>>
    /\ Respond("other", c, Err)

(* A replayed spawn reuses the child. *)
SpawnAgain(c, k, size) ==
    /\ Receive
    /\ ~check_directive(guard, "spawn", size)
    /\ k \in children
    /\ UNCHANGED <<grants, links, cache, disk, trajOpen>>
    /\ Respond("other", c, Ok)

(* The step is accounted for before the kind is looked at. *)
Spawn(c, k, size, outcome) ==
    /\ Receive
    /\ ~check_directive(guard, "spawn", size)
    /\ k \notin children
    /\ guard' = record_step(guard, TRUE)
    /\ children' = IF outcome = "born" THEN children \union {k} ELSE children
    /\ work' = IF outcome = "born" THEN [work EXCEPT !.born = @ + 1] ELSE work
    /\ UNCHANGED <<registry, verifier, delegated, down, lost, cache, disk,
                   trajOpen>>
    /\ \/ outcome = "born" /\ Respond("other", c, Ok)
       \/ outcome = "refused" /\ Respond("other", c, Err)
       \/ outcome = "raised" /\ Abort

-----------------------------------------------------------------------------
(* The durable state store: _state_set, _state_get.  _state_set's look into *)
(* _results never finds anything: only run directives are cached there.     *)

Writable == store # None /\ ~store.read_only

StateSetRefused(w) ==
    /\ Receive
    /\ ~Writable
    /\ UNCHANGED <<grants, links, cache, disk, trajOpen>>
    /\ Respond("other", w.cid, Err)

(* Mutant: an existing row is not replaced. *)
set_once(rows, w) == [rows EXCEPT ![w.key] = IF @ = None THEN w ELSE @]

(* StateStore.set: the row is written unless this very directive wrote it.  *)
set(rows, w) == [rows EXCEPT ![w.key] = IF @ = w THEN @ ELSE w]

StateSet(w) ==
    /\ Receive
    /\ Writable
    /\ files' = [files EXCEPT ![store.path] = set(@, w)]
    /\ acked' = [acked EXCEPT ![store.path][w.key] = Append(@, w)]
    /\ UNCHANGED <<store, grants, links, cache, trajOpen>>
    /\ Respond("other", w.cid, Ok)

(* A stored None reads as not found. *)
get(rows, k) == IF rows[k] = None THEN None ELSE rows[k].value

StateGet(c, k) ==
    LET v == IF store = None THEN None ELSE get(files[store.path], k)
    IN  /\ Receive
        /\ UNCHANGED <<grants, links, cache, disk, trajOpen>>
        /\ Respond("other", c, IF v = None THEN Err ELSE Result(v))

-----------------------------------------------------------------------------
(* _audit: the listing answered is abstracted to None. *)
Audit(c) ==
    /\ Receive
    /\ UNCHANGED <<grants, links, cache, disk, trajOpen>>
    /\ Respond("other", c, IF trajOpen THEN Result(None) ELSE Err)

Ping(c) ==
    /\ Receive
    /\ UNCHANGED <<grants, links, cache, disk, trajOpen>>
    /\ Respond("other", c, Ok)

(* A directive without a field its handler requires: an explicit error.     *)
Incomplete(c) ==
    /\ Receive
    /\ UNCHANGED <<grants, links, cache, disk, trajOpen>>
    /\ Respond("other", c, Err)

(* A message that is not a directive is answered with an error under the    *)
(* sentinel correlation id "malformed", which no directive carries.         *)
Malformed ==
    /\ Receive
    /\ UNCHANGED <<grants, links, cache, disk, trajOpen, traj, answers>>

(* kill tears everything down, the parent socket included: the answer that  *)
(* _handle returns can no longer be sent, and _send's RuntimeError leaves   *)
(* poll.                                                                    *)
Kill ==
    /\ alive
    /\ received < MaxDirectives
    /\ received' = received + 1
    /\ alive' = FALSE
    /\ children' = {}
    /\ down' = [k \in Kid |-> <<>>]
    /\ store' = None
    /\ trajOpen' = FALSE
    /\ UNCHANGED <<delegated, lost, grants, cache, files, acked, traj,
                   answers>>

(* The granted latency has passed since the grant. *)
Expire ==
    /\ alive
    /\ guard.env.latency
    /\ ~guard.late
    /\ guard' = [guard EXCEPT !.late = TRUE]
    /\ UNCHANGED <<alive, registry, verifier, work, links, cache, disk,
                   trajOpen, traj, received, answers>>

-----------------------------------------------------------------------------
Next ==
    \/ \E d \in RunDirective : Run(d)
    \/ \E c \in Cid, k \in Kid : Delegate(c, k) \/ DelegateUnknown(c, k)
    \/ \E k \in Kid : ChildStep(k)
    \/ \E c \in Cid, g \in Grant :
          \/ ConfigureBadEnvelope(c, g)
          \/ ConfigureUnknown(c, g)
          \/ ConfigureCannotOpen(c, g)
          \/ Configure(c, g)
    \/ \E c \in Cid, n \in Name :
          \/ \E located \in BOOLEAN : Register(c, n, located)
          \/ Resolve(c, n)
    \/ \E c \in Cid, size \in Size :
          \/ SpawnRefused(c, size)
          \/ \E k \in Kid :
                \/ SpawnAgain(c, k, size)
                \/ \E outcome \in {"born", "refused", "raised"} :
                      Spawn(c, k, size, outcome)
    \/ \E w \in Write : StateSetRefused(w) \/ StateSet(w)
    \/ \E c \in Cid, k \in Key : StateGet(c, k)
    \/ \E c \in Cid : Audit(c) \/ Ping(c) \/ Incomplete(c)
    \/ Malformed
    \/ Kill
    \/ Expire

Spec == Init /\ [][Next]_vars

(* Every poll of the tree polls the children before the parent, so a        *)
(* forwarded run is eventually taken up and its answer drained.             *)
FairSpec == Spec /\ \A k \in Kid : WF_vars(ChildStep(k))

-----------------------------------------------------------------------------
GrantsOK ==
    /\ registry \in [Name -> Entry \union {None}]
    /\ verifier \in Name \union {None}
    /\ guard \in Guard
    /\ work \in [ran : Nat, born : Nat]

LinksOK ==
    /\ children \subseteq Kid
    /\ delegated \in [Cid -> Kid \union {None}]
    /\ down \in [Kid -> Seq(Cid)]
    /\ lost \subseteq Kid \X Cid

CacheOK ==
    /\ results \in [RunDirective -> Response \union {None}]
    /\ usedKeys \subseteq Cid

DiskOK ==
    /\ store \in Handle \union {None}
    /\ files \in [Path -> Rows \union {None}]
    /\ store # None => files[store.path] # None
    /\ acked \in [Path -> [Key -> Seq(Write)]]

AnswersOK ==
    /\ alive \in BOOLEAN
    /\ trajOpen \in BOOLEAN
    /\ traj \in [Cid -> Event \union {None}]
    /\ received \in Nat
    /\ answers \subseteq Answer

(* Every variable keeps its type; an open state store has a file, and       *)
(* every response that is cached, recorded or sent has the shape            *)
(* validate_response requires.                                              *)
TypeOK == GrantsOK /\ LinksOK /\ CacheOK /\ DiskOK /\ AnswersOK

(* _results and _used_keys agree: a correlation id is used exactly when     *)
(* one fingerprint, and only one, has a cached response under it.           *)
CacheInv ==
    /\ usedKeys = {d.cid : d \in {e \in RunDirective : results[e] # None}}
    /\ \A d, e \in RunDirective :
          results[d] # None /\ results[e] # None /\ d.cid = e.cid => d = e

(* Whatever the parent repeats or reuses, two verified answers this agent   *)
(* gives to runs it executed itself under one correlation id are the same   *)
(* answer (_run_task's idempotency and fail-closed reuse).                  *)
OneVerifiedAnswer ==
    \A a, b \in answers :
        /\ a.via = "run" /\ b.via = "run" /\ a.cid = b.cid
        /\ a.resp.verified /\ b.resp.verified
        => a = b

(* A verified answer to a run is still the cached response of a directive   *)
(* with its correlation id.                                                 *)
AnswersCached ==
    \A a \in answers :
        a.via = "run" /\ a.resp.verified =>
            \E d \in RunDirective : d.cid = a.cid /\ results[d] = a.resp

Queued(k, c) == \E i \in DOMAIN down[k] : down[k][i] = c

(* A correlation id this agent still awaits is still on its way through the *)
(* child it was delegated to, unless that child's poll raised: no answer is *)
(* consumed without releasing the delegation it fulfils.                    *)
DelegationAccounted ==
    alive => \A c \in Cid :
        delegated[c] # None =>
            Queued(delegated[c], c) \/ <<delegated[c], c>> \in lost

(* The runs executed and the children born since an envelope was granted    *)
(* stay within it, also when tasks raise, verifiers raise, spawns fail or   *)
(* directives repeat.                                                       *)
EnvelopeBoundsWork ==
    /\ ~Exceeds(work.ran + work.born, guard.env.step_limit)
    /\ ~Exceeds(work.born, guard.env.child_limit)

(* The guard has accounted for all the work, and for no more than it may.   *)
GuardAccounts ==
    /\ work.ran + work.born <= guard.steps
    /\ work.born <= guard.kids
    /\ ~Exceeds(guard.steps, guard.env.step_limit)
    /\ ~Exceeds(guard.kids, guard.env.child_limit)

(* The trajectory never claims an outcome the parent was not told: each     *)
(* event is the record of an answer that was sent, relays included.         *)
AuditTruthful ==
    \A c \in Cid : traj[c] # None =>
        \E a \in answers :
            /\ a.cid = c
            /\ a.resp.verified = traj[c].verified
            /\ a.resp.value = traj[c].value
            /\ (a.via = "relay") = (traj[c].parent # None)

(* A state file's row is the last write that was acknowledged for its key,  *)
(* through every re-grant, read-only grant and kill.                        *)
AckedWriteStored ==
    \A p \in Path, k \in Key :
        acked[p][k] # <<>> =>
            files[p] # None /\ files[p][k] = acked[p][k][Len(acked[p][k])]

(* The agent's three records agree with what happened: the cache with the   *)
(* used correlation ids, the trajectory with what the parent was told, the  *)
(* state file with the writes acknowledged.                                 *)
RecordsTruthful == CacheInv /\ AuditTruthful /\ AckedWriteStored

(* No step sends up a child's verified value that the verifier in force     *)
(* does not accept (_relay_verified, the correctness spine).                *)
RelayedOnlyIfAccepted ==
    [][\A a \in answers' \ answers :
          a.via = "relay" /\ a.resp.verified =>
              _verify(a.resp.value, verifier) = "accept"]_vars

(* A delegation ends: the awaited answer is drained, or the child's poll    *)
(* raised, or the agent is killed.                                          *)
DelegationEnds ==
    \A c \in Cid :
        (delegated[c] # None) ~>
            (\/ delegated[c] = None \/ ~alive
             \/ \E k \in Kid : <<k, c>> \in lost)

-----------------------------------------------------------------------------
(* store.py promises that a write is applied once per key and fingerprint,  *)
(* so that retries and replay never double-apply: no step changes a row to  *)
(* a write that has been acknowledged before.                               *)
AppliedOncePerFingerprint ==
    [][\A p \in Path, k \in Key :
          files[p] # None /\ files'[p][k] # files[p][k] =>
              \A i \in DOMAIN acked[p][k] : acked[p][k][i] # files'[p][k]]_vars
=============================================================================

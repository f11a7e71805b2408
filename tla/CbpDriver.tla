------------------------------ MODULE CbpDriver ------------------------------
(***************************************************************************)
(* The synchronous driver (cbp/driver.py, CbpDriver) over a root agent and *)
(* the store children it spawned (cbp/store_agent.py): one directive at a  *)
(* time is sent to the root, sent again on every attempt, and the tree is  *)
(* polled - children first, then the root - until a response carries its   *)
(* correlation id.                                                         *)
(*                                                                         *)
(* The driver is one thread, so the only concurrency is the transport's.   *)
(* inproc delivers at once.  Over tcp and ipc a link comes up by itself:   *)
(* until it is linked a ROUTER drops what is sent over it, and until it is *)
(* settled a poll window may close before a message that was sent arrives. *)
(*                                                                         *)
(* Correlation ids are the driver's own sequence numbers.  Verification is *)
(* CbpAgent's subject; here a task returns a value or raises.              *)
(***************************************************************************)
EXTENDS Integers, Sequences

CONSTANTS
    KidSeq,     \* the spawned children, in spawn order
    Root,       \* the root agent
    Value,      \* what a task may return
    Path,       \* state files a child may be granted
    MaxCalls,   \* bound on the calls of the driver's API, per transport
    Attempts,   \* _settle_attempts
    Transports, \* the transports to consider
    None

VARIABLES
    transport,  \* "inproc" or "tcp" (ipc behaves as tcp)
    linked,     \* the agents whose link the sender's ROUTER knows
    settled,    \* what is sent is seen by the next poll
    ledger,     \* _ledger: call number -> [op, outcome]
    pc,         \* where _roundtrip is
    attempt,    \* its attempt
    todo,       \* the children this attempt has still to poll or drain
    got,        \* the responses the root's poll has returned so far
    toRoot,     \* driver -> root: directives not taken yet
    inbox,      \* root -> child
    up,         \* child -> root: responses not drained yet
    delegated,  \* the root's _delegated
    results,    \* per agent, its idempotency cache: call -> value or None
    granted,    \* per child, the path of its state store or None
    files       \* per path, the call whose write is stored, or None

links == <<transport, linked, settled>>
nodes == <<results, granted, files>>
wires == <<toRoot, inbox, up, delegated>>
vars  == <<links, nodes, wires, ledger, pc, attempt, todo, got>>

Kid  == {KidSeq[i] : i \in DOMAIN KidSeq}
Node == Kid \union {Root}
Op   == [to : Kid \union {None}, what : {"task", "set"}]

Call == UNION {1..MaxCalls[t] : t \in Transports}
\* A response: a returned value, "ok" for a stored write, or "error".
Outcome == Value \union {"ok", "error"}

DriverConstants ==
    /\ KidSeq \in Seq(Kid) /\ \A i, j \in DOMAIN KidSeq : KidSeq[i] = KidSeq[j] => i = j
    /\ MaxCalls \in [Transports -> Nat]
    /\ Attempts \in Nat \ {0, 1}     \* 5 in the code
    /\ Root \notin Kid /\ None \notin Kid \union Path \union Outcome
    /\ None \notin Nat
    /\ Transports \subseteq {"inproc", "tcp"}
    /\ {"ok", "error"} \intersect Value = {}

current == Len(ledger)
opOf(c) == ledger[c].op

-----------------------------------------------------------------------------
Init ==
    /\ transport \in Transports
    /\ settled = (transport = "inproc")
    /\ linked = IF transport = "inproc" THEN Node ELSE {}
    /\ ledger = <<>>
    /\ pc = "idle"
    /\ attempt = 0
    /\ todo = <<>>
    /\ got = <<>>
    /\ toRoot = <<>>
    /\ inbox = [k \in Kid |-> <<>>]
    /\ up = [k \in Kid |-> <<>>]
    /\ delegated = [c \in Call |-> None]
    /\ results = [c \in Call |-> None]
    /\ granted = [k \in Kid |-> None]
    /\ files = [p \in Path |-> None]

(* The transport: a peer registers with the ROUTER, and in the end messages *)
(* arrive within a poll window.                                             *)
Link(n) ==
    /\ n \notin linked
    /\ linked' = linked \union {n}
    /\ UNCHANGED <<transport, settled, nodes, wires, ledger, pc, attempt, todo,
                   got>>

Settle ==
    /\ ~settled
    /\ linked = Node
    /\ settled' = TRUE
    /\ UNCHANGED <<transport, linked, nodes, wires, ledger, pc, attempt, todo,
                   got>>

(* ROUTER.send_multipart to a peer: dropped while the peer is not linked.   *)
sent(queue, n, c) == IF n \in linked THEN Append(queue, c) ELSE queue

-----------------------------------------------------------------------------
(* The driver's API.                                                        *)

(* _roundtrip: a fresh correlation id, recorded in the ledger. *)
Begin(op) ==
    /\ pc = "idle"
    /\ current < MaxCalls[transport]
    /\ op.to = None => op.what = "task"
    /\ ledger' = Append(ledger, [op |-> op, outcome |-> None])
    /\ pc' = "send"
    /\ attempt' = 1
    /\ UNCHANGED <<links, nodes, wires, todo, got>>

(* configure_child: applied to the child object itself, at once.  A state   *)
(* file has a single writer, so no two children hold the same path.  Its    *)
(* ledger entry has a correlation id no directive is sent under, and no     *)
(* outcome: it is left out.                                                 *)
ConfigureChild(k, p) ==
    /\ pc = "idle"
    /\ \A j \in Kid : granted[j] # p
    /\ granted' = [granted EXCEPT ![k] = p]
    /\ UNCHANGED <<links, results, files, wires, ledger, pc, attempt,
                   todo, got>>

(* Mutant: the directive is sent twice in one attempt. *)
SendTwice ==
    /\ pc = "send"
    /\ toRoot' = sent(sent(toRoot, Root, current), Root, current)
    /\ pc' = "children"
    /\ todo' = KidSeq
    /\ got' = <<>>
    /\ UNCHANGED <<links, nodes, inbox, up, delegated, ledger, attempt>>

(* Mutant: only the child the directive is for is polled. *)
SendAndPollOne ==
    /\ pc = "send"
    /\ toRoot' = sent(toRoot, Root, current)
    /\ pc' = "children"
    /\ todo' = SelectSeq(KidSeq, LAMBDA k : k = opOf(current).to)
    /\ got' = <<>>
    /\ UNCHANGED <<links, nodes, inbox, up, delegated, ledger, attempt>>

(* One attempt starts: the directive goes out, again if need be. *)
Send ==
    /\ pc = "send"
    /\ toRoot' = sent(toRoot, Root, current)
    /\ pc' = "children"
    /\ todo' = KidSeq
    /\ got' = <<>>
    /\ UNCHANGED <<links, nodes, inbox, up, delegated, ledger, attempt>>

-----------------------------------------------------------------------------
(* An agent handles call c and answers o: _run_task with its cache, or      *)
(* StoreAgent._op_store_set, which keeps no cache.                          *)
Handles(n, c, o) ==
    \/ /\ opOf(c).what = "task"
       /\ \/ results[c] # None /\ o = results[c] /\ UNCHANGED results
          \/ /\ results[c] = None
             /\ o \in Value
             /\ results' = [results EXCEPT ![c] = o]
          \/ results[c] = None /\ o = "error" /\ UNCHANGED results
       /\ UNCHANGED <<granted, files>>
    \/ /\ opOf(c).what = "set"
       /\ \/ granted[n] = None /\ o = "error" /\ UNCHANGED files
          \/ /\ granted[n] # None /\ o = "ok"
             /\ files' = [files EXCEPT ![granted[n]] = c]
       /\ UNCHANGED <<results, granted>>

(* The children are visited in spawn order. *)
Turn(k) == todo # <<>> /\ Head(todo) = k

(* _poll_children: each child takes one directive, and answers it.          *)
ChildTakes(k, o) ==
    /\ pc = "children" /\ Turn(k)
    /\ inbox[k] # <<>>
    /\ Handles(k, Head(inbox[k]), o)
    /\ inbox' = [inbox EXCEPT ![k] = Tail(@)]
    /\ up' = [up EXCEPT ![k] = Append(@, [cid |-> Head(inbox[k]), resp |-> o])]
    /\ todo' = Tail(todo)
    /\ UNCHANGED <<links, toRoot, delegated, ledger, pc, attempt, got>>

(* Nothing there, or not yet visible when the window closes. *)
ChildMisses(k) ==
    /\ pc = "children" /\ Turn(k)
    /\ inbox[k] = <<>> \/ ~settled
    /\ todo' = Tail(todo)
    /\ UNCHANGED <<links, nodes, wires, ledger, pc, attempt, got>>

-----------------------------------------------------------------------------
(* Agent.poll of the root: at most one directive from the driver, then the  *)
(* children's sockets are drained.                                          *)

RootRuns(o) ==
    /\ pc = "children" /\ todo = <<>>
    /\ toRoot # <<>>
    /\ opOf(Head(toRoot)).to = None
    /\ Handles(Root, Head(toRoot), o)
    /\ got' = <<[cid |-> Head(toRoot), resp |-> o]>>
    /\ toRoot' = Tail(toRoot)
    /\ pc' = "drain"
    /\ todo' = KidSeq
    /\ UNCHANGED <<links, inbox, up, delegated, ledger, attempt>>

RootDelegates ==
    /\ pc = "children" /\ todo = <<>>
    /\ toRoot # <<>>
    /\ LET c == Head(toRoot)
           k == opOf(c).to
       IN  /\ k # None
           /\ inbox' = [inbox EXCEPT ![k] = sent(@, k, c)]
           /\ delegated' = [delegated EXCEPT ![c] = k]
    /\ toRoot' = Tail(toRoot)
    /\ pc' = "drain"
    /\ todo' = KidSeq
    /\ UNCHANGED <<links, nodes, up, ledger, attempt, got>>

RootMisses ==
    /\ pc = "children" /\ todo = <<>>
    /\ toRoot = <<>> \/ ~settled
    /\ pc' = "drain"
    /\ todo' = KidSeq
    /\ UNCHANGED <<links, nodes, wires, ledger, attempt, got>>

(* _drain_child: everything ready is returned, awaited or not. *)
DrainChild(k) ==
    /\ pc = "drain" /\ Turn(k)
    /\ up[k] # <<>>
    /\ got' = got \o up[k]
    /\ delegated' = [c \in Call |->
                        IF \E i \in DOMAIN up[k] : up[k][i].cid = c
                        THEN None ELSE delegated[c]]
    /\ up' = [up EXCEPT ![k] = <<>>]
    /\ todo' = Tail(todo)
    /\ UNCHANGED <<links, nodes, toRoot, inbox, ledger, pc, attempt>>

DrainMisses(k) ==
    /\ pc = "drain" /\ Turn(k)
    /\ up[k] = <<>> \/ ~settled
    /\ todo' = Tail(todo)
    /\ UNCHANGED <<links, nodes, wires, ledger, pc, attempt, got>>

-----------------------------------------------------------------------------
(* The rest of _roundtrip's attempt: the first response with the current    *)
(* correlation id is the outcome; else another attempt; else RuntimeError,  *)
(* and the ledger entry stays without an outcome.                           *)

Matches == {i \in DOMAIN got : got[i].cid = current}

Match ==
    /\ pc = "drain" /\ todo = <<>>
    /\ \E i \in Matches :
           /\ \A j \in Matches : i <= j
           /\ ledger' = [ledger EXCEPT ![current].outcome = got[i].resp]
    /\ pc' = "idle"
    /\ UNCHANGED <<links, nodes, wires, attempt, todo, got>>

Retry ==
    /\ pc = "drain" /\ todo = <<>>
    /\ Matches = {}
    /\ attempt < Attempts
    /\ attempt' = attempt + 1
    /\ pc' = "send"
    /\ UNCHANGED <<links, nodes, wires, ledger, todo, got>>

GiveUp ==
    /\ pc = "drain" /\ todo = <<>>
    /\ Matches = {}
    /\ attempt = Attempts
    /\ pc' = "raised"
    /\ UNCHANGED <<links, nodes, wires, ledger, attempt, todo, got>>

(* The caller has seen the RuntimeError and may go on. *)
Caught ==
    /\ pc = "raised"
    /\ pc' = "idle"
    /\ UNCHANGED <<links, nodes, wires, ledger, attempt, todo, got>>

-----------------------------------------------------------------------------
Next ==
    \/ \E n \in Node : Link(n)
    \/ Settle
    \/ \E op \in Op : Begin(op)
    \/ \E k \in Kid, p \in Path : ConfigureChild(k, p)
    \/ Send
    \/ \E k \in Kid, o \in Outcome : ChildTakes(k, o)
    \/ \E k \in Kid : ChildMisses(k)
    \/ \E o \in Outcome : RootRuns(o)
    \/ RootDelegates
    \/ RootMisses
    \/ \E k \in Kid : DrainChild(k) \/ DrainMisses(k)
    \/ Match
    \/ Retry
    \/ GiveUp
    \/ Caught

Spec == Init /\ [][Next]_vars

-----------------------------------------------------------------------------
Response == [cid : Call, resp : Outcome]

(* Every variable keeps its type, and only recorded calls are in flight.    *)
TypeOK ==
    /\ transport \in {"inproc", "tcp"}
    /\ linked \subseteq Node /\ settled \in BOOLEAN
    /\ ledger \in Seq([op : Op, outcome : Outcome \union {None}])
    /\ Len(ledger) <= MaxCalls[transport]
    /\ pc \in {"idle", "send", "children", "drain", "raised"}
    /\ attempt \in 0..Attempts
    /\ todo \in Seq(Kid)
    /\ got \in Seq(Response)
    /\ toRoot \in Seq(1..current)
    /\ inbox \in [Kid -> Seq(1..current)]
    /\ up \in [Kid -> Seq(Response)]
    /\ delegated \in [Call -> Kid \union {None}]
    /\ results \in [Call -> Value \union {None}]
    /\ granted \in [Kid -> Path \union {None}]
    /\ files \in [Path -> Call \union {None}]

(* Over inproc the retries always suffice: a call never ends in "no         *)
(* response", and its answer is there on the second attempt at the latest,  *)
(* whatever copies earlier calls have left behind.                          *)
InprocAnswersByTwo == transport = "inproc" => pc # "raised" /\ attempt <= 2

(* Over inproc the copies that re-sending leaves behind do not pile up:     *)
(* between calls nothing waits for the root, and each child has at most     *)
(* one directive left, a copy of the last call.                             *)
InprocLeftoverBounded ==
    transport = "inproc" /\ pc = "idle" =>
        /\ toRoot = <<>>
        /\ \A k \in Kid :
              /\ up[k] = <<>>
              /\ \/ inbox[k] = <<>>
                 \/ inbox[k] = <<current>> /\ opOf(current).to = k

(* An answer that reports a value is the value the executing agent holds in *)
(* its cache, however many copies of the directive were handled, over every *)
(* transport: a task that returned is never run again.                      *)
ReportedValueIsCached ==
    \A c \in 1..current :
        ledger[c].outcome \in Value => results[c] = ledger[c].outcome

(* A stored write is replaced only by a later call's to the same child, and *)
(* over inproc only by a later call's: the copies that re-sending leaves    *)
(* behind bring no older value back.  Between two children nothing orders   *)
(* the copies over tcp: one that is still on its way to a child is stored   *)
(* under the path the child holds when it arrives.                          *)
FilesOnlyMoveOn ==
    \A p \in Path :
        /\ files[p] # None /\ files'[p] # files[p]
        /\ transport = "inproc" \/ opOf(files'[p]).to = opOf(files[p]).to
        => files'[p] > files[p]
=============================================================================

------------------------------- MODULE Session -------------------------------
(* A driver's session, its directive ledgers and their replay, of cbp/driver.py  *)
(* and cbp/ledger.py: every directive is recorded before it is sent and its      *)
(* outcome after the answer; a process may end in between, and another one open  *)
(* the same durable ledger again.  A replay issues the recorded directives to a  *)
(* fresh tree whose stores are elsewhere, and compares the outcomes.  Artifacts  *)
(* run as plans, one recorded directive after another.                           *)
EXTENDS Orchestrate, SequencesExt, FiniteSetsExt, Functions

CONSTANTS Directives,   \* what the operator may issue
          Names,        \* the callables that may be registered
          Accepts,      \* per verifier: the argument values whose results it accepts
          Importable,   \* the callables a later process can import
          Artifacts,    \* what may be orchestrated
          Denied,       \* the directives PeerAuthz refuses
          Paths,        \* the store paths directives name
          MaxVersion, MaxLost, MaxKept, \* bounds: registrations of a name, rows without an answer, rows a process leaves
          MaxRows       \* bound: the directives of each process, and how many processes there are

Kinds == {"configure", "configure_child", "spawn", "run", "state-set"}
Opens(d) == d.kind \in {"configure", "configure_child"}   \* a directive that may name a store
ASSUME SessionConstants ==
  /\ \A d \in Directives : /\ d.kind \in Kinds
                           /\ Opens(d) => {"kind", "state"} \subseteq DOMAIN d /\ d.state \in Paths \cup {None}
  /\ \A a \in Artifacts : a.intent = "run" => a.steps \in Seq(Range(a.steps))
  /\ None \notin Kinds \X Nat
  /\ \A p \in Paths : <<"isolated", p>> \notin Paths   \* a replay's stores are in a directory of its own

VARIABLES
  catalog,   \* the live driver's catalog: name -> version of its code
  tree,      \* its agents: "root", and the spawned children
  seq,       \* its _seq
  ledger,    \* its in-memory ledger, in the order of insertion
  pending,   \* the directive that is recorded and not answered, or None
  plan,      \* the plan being run, or the last one
  durable,   \* the durable ledger: its directives
  manifest,  \*   and its callables
  stores,    \* what is in the stores, by path
  replay,    \* the replay under way, or None
  report,    \* what the last replay reported
  session,   \* the number of the process
  told       \* history: the answers the driver's callers got
vars == <<catalog, tree, seq, ledger, pending, plan, durable, manifest, stores, replay, report, session, told>>
live == <<catalog, tree, seq, ledger, pending, plan, session, told>>

-----------------------------------------------------------------------------
(* What a directive does to a tree.  An agent has the codes it resolved, its      *)
(* default verifier and the path of its store.                                    *)

NewAgent == [codes |-> <<>>, verifier |-> None, path |-> None]
Overlay(f, g) == [x \in DOMAIN f \cup DOMAIN g |-> IF x \in DOMAIN g THEN g[x] ELSE f[x]]
Set(f, x, v) == Overlay(f, [y \in {x} |-> v])

Out(terminal, value) == [terminal |-> terminal, value |-> value]
Ok == Out("ok", None)
Error == Out("error", None)
Done(t, s, out) == [tree |-> t, stores |-> s, out |-> out]

\* An uncatalogued name is met after the verifier is set and before the store is opened.
Configure(t, cat, s, d) ==
  LET a == IF d.child = None THEN "root" ELSE d.child
      ver == IF d.clear THEN None ELSE IF d.verifier # None THEN d.verifier ELSE t[a].verifier
      b == [t[a] EXCEPT !.verifier = ver]
      c == [b EXCEPT !.codes = Overlay(@, [n \in d.names |-> cat[n]]),
                     !.path = IF d.state = None THEN @ ELSE d.state]
  IN IF a \notin DOMAIN t THEN Done(t, s, Error)
     ELSE IF ~(d.names \subseteq DOMAIN cat) THEN Done(Set(t, a, b), s, Error)
     ELSE Done(Set(t, a, c), IF d.state = None \/ d.state \in DOMAIN s THEN s ELSE Set(s, d.state, None), Ok)

Spawn(t, s, d) == Done(IF d.child \in DOMAIN t THEN t ELSE Set(t, d.child, NewAgent), s, Ok)

Verified(agent, ver, v) == ver = None \/ (ver \in DOMAIN agent.codes /\ v \in Accepts[ver])
\* A task of the root, or one of a store child, whose answer the root verifies again.
Run(t, s, d) ==
  LET a == IF d.child = None THEN "root" ELSE d.child
      ver == IF d.verifier # None THEN d.verifier ELSE t["root"].verifier
      path == t[a].path
      put == Done(t, Set(s, path, d.args), IF Verified(t["root"], t["root"].verifier, None) THEN Ok ELSE Error)
      get == Done(t, s, IF Verified(t["root"], t["root"].verifier, s[path]) THEN Out("result", s[path]) ELSE Error)
      own == IF d.task \notin DOMAIN t[a].codes \/ ~Verified(t["root"], ver, d.args) THEN Error
             ELSE Out("result", <<t[a].codes[d.task], d.args>>)
  IN IF a \notin DOMAIN t THEN Done(t, s, Error)
     ELSE IF a = "root" THEN Done(t, s, own)
     ELSE IF path = None THEN Done(t, s, Error)
     ELSE IF d.task = "store_set" THEN put
     ELSE IF s[path] = None THEN Done(t, s, Error) ELSE get

StateSet(t, s, d) == LET path == t["root"].path
                     IN IF path = None THEN Done(t, s, Error) ELSE Done(t, Set(s, path, d.args), Ok)

Apply(t, cat, s, d) ==
  CASE d.kind \in {"configure", "configure_child"} -> Configure(t, cat, s, d)
    [] d.kind = "spawn" -> Spawn(t, s, d)
    [] d.kind = "run" -> Run(t, s, d)
    [] d.kind = "state-set" -> StateSet(t, s, d)

-----------------------------------------------------------------------------
(* The live session *)

NewTree == [a \in {"root"} |-> NewAgent]
Fresh ==
  /\ catalog' = <<>> /\ tree' = NewTree /\ seq' = 0 /\ ledger' = <<>>
  /\ pending' = None /\ plan' = None

Init ==
  /\ catalog = <<>> /\ tree = NewTree /\ seq = 0 /\ ledger = <<>> /\ pending = None /\ plan = None
  /\ durable = <<>> /\ manifest = {} /\ stores = <<>> /\ replay = None /\ report = None
  /\ session = 1 /\ told = {}

Planning == plan # None /\ plan.status = "running"
Free == pending = None /\ replay = None
\* What the last replay reported has been read.
Forget == report' = None

\* The durable ledger: a callable is recorded under its name, and all directives are read in order.
RecordCallable(n) == manifest' = manifest \cup {n}
AllRows == durable

\* register: the catalog, the root's own registry, and the manifest.
Register(n) ==
  /\ Free /\ ~Planning
  /\ LET version == IF n \in DOMAIN catalog THEN catalog[n] + 1 ELSE 1
     IN version <= MaxVersion /\ catalog' = Set(catalog, n, version)
        /\ tree' = [tree EXCEPT !["root"].codes = Set(@, n, version)]
  /\ RecordCallable(n)
  /\ Forget /\ UNCHANGED <<seq, ledger, pending, plan, durable, stores, replay, session, told>>

NoAnswer == Out("none", None)
Row(cid, d) == [cid |-> cid, d |-> d, out |-> NoAnswer]
Recorded(rows, cid) == \E i \in DOMAIN rows : rows[i].cid = cid
Finish(status) == plan' = IF Planning THEN [plan EXCEPT !.status = status] ELSE plan

IssueReplacing(d) ==
  LET cid == <<d.kind, seq + 1>> kept == SelectSeq(durable, LAMBDA r : r.cid # cid)
  IN /\ seq' = seq + 1 /\ ledger' = Append(ledger, Row(cid, d))
     /\ durable' = Append(kept, Row(cid, d)) /\ pending' = cid /\ plan' = plan
     /\ Forget /\ UNCHANGED <<catalog, tree, manifest, stores, replay, session, told>>
\* _roundtrip up to the send: refused by PeerAuthz, or by a durable ledger that has the id.
Issue(d) ==
  LET cid == <<d.kind, seq + 1>>
  IN /\ seq' = seq + 1
     /\ IF d \in Denied THEN UNCHANGED <<ledger, durable, pending>> /\ Finish("failed")
        ELSE /\ ledger' = Append(ledger, Row(cid, d))
             /\ IF Recorded(durable, cid) THEN UNCHANGED <<durable, pending>> /\ Finish("failed")
                ELSE durable' = Append(durable, Row(cid, d)) /\ pending' = cid /\ UNCHANGED plan
     /\ Forget /\ UNCHANGED <<catalog, tree, manifest, stores, replay, session, told>>

IssueDirective(d) == Free /\ ~Planning /\ seq < MaxRows[session] /\ Issue(d)

\* The root's answer: its outcome is recorded under the pending id, the plan goes on or stops.  A
\* child is configured by a call, whose outcome no ledger has.
Pending == Last(durable).d
WithOut(rows, out) ==
  [i \in DOMAIN rows |-> IF rows[i].cid # pending \/ rows[i].d.kind = "configure_child" THEN rows[i]
                         ELSE [rows[i] EXCEPT !.out = out]]
PlanOnAnyway(out) ==
  IF ~Planning THEN plan
  ELSE [plan EXCEPT !.next = @ + 1, !.status = IF plan.next = Len(plan.steps) THEN "ok" ELSE "running"]
PlanOn(out) ==
  IF ~Planning THEN plan
  ELSE IF out.terminal = "error" THEN [plan EXCEPT !.status = "failed"]
  ELSE [plan EXCEPT !.next = @ + 1, !.status = IF plan.next = Len(plan.steps) THEN "ok" ELSE "running"]
Answer ==
  /\ pending # None
  /\ LET r == Apply(tree, catalog, stores, Pending)
     IN /\ tree' = r.tree /\ stores' = r.stores
        /\ ledger' = WithOut(ledger, r.out) /\ durable' = WithOut(durable, r.out)
        /\ plan' = PlanOn(r.out)
        /\ told' = IF Pending.kind = "configure_child" THEN told
                   ELSE told \cup {<<session, pending, Pending, r.out>>}
  /\ pending' = None /\ Forget
  /\ UNCHANGED <<catalog, seq, manifest, replay, session>>

\* No answer came within the attempts, though the root may have acted.
GiveUp(acted) ==
  /\ pending # None /\ Pending.kind # "configure_child"
  /\ Cardinality({i \in DOMAIN durable : durable[i].out = NoAnswer}) <= MaxLost
  /\ LET r == Apply(tree, catalog, stores, Pending)
     IN IF acted THEN tree' = r.tree /\ stores' = r.stores ELSE UNCHANGED <<tree, stores>>
  /\ pending' = None /\ Finish("failed") /\ Forget
  /\ UNCHANGED <<catalog, seq, ledger, durable, manifest, replay, session, told>>

\* run_artifact_plan: the steps are issued one by one while each is verified.
RunDirective(step) == [kind |-> "run", task |-> step.task, args |-> step.args, verifier |-> step.verifier, child |-> step.child]
Orchestrate(artifact, verifier) ==
  /\ Free /\ ~Planning /\ seq < MaxRows[session]
  /\ LET steps == PlanFromSchema(artifact, verifier)
     IN plan' = IF steps = Refused THEN [steps |-> <<>>, next |-> 1, from |-> seq, status |-> "refused"]
                ELSE [steps |-> steps, next |-> 1, from |-> seq, status |-> "running"]
  /\ Forget /\ UNCHANGED <<catalog, tree, seq, ledger, pending, durable, manifest, stores, replay, session, told>>
PlanStep == Free /\ Planning /\ seq < MaxRows[session] + 1 /\ Issue(RunDirective(plan.steps[plan.next]))

\* The process ends, at any moment, and another opens the durable ledger.
Reopen ==
  /\ replay = None /\ session < Len(MaxRows) /\ Len(durable) <= MaxKept /\ session' = session + 1
  /\ Fresh /\ Forget
  /\ UNCHANGED <<durable, manifest, stores, replay, told>>

-----------------------------------------------------------------------------
(* Replay *)

Iso(path) == IF path = None THEN None ELSE <<"isolated", path>>
RemapNothing(d) == d
RemapStatePaths(d) == IF d.kind \in {"configure", "configure_child"} THEN [d EXCEPT !.state = Iso(@)] ELSE d

\* Rows replay by the number their correlation id ends with; the sort is stable.
Before(rows, i, j) == rows[i].cid[2] < rows[j].cid[2] \/ (rows[i].cid[2] = rows[j].cid[2] /\ i < j)

\* replay_session of this session's ledger, or replay_ledger of the durable one.
StartReplay(from) ==
  /\ Free /\ ~Planning
  /\ LET rows == IF from = "ledger" THEN ledger ELSE AllRows
     IN rows # <<>> /\ replay' = [from |-> from, rows |-> rows, todo |-> DOMAIN rows, failed |-> <<>>, tree |-> NewTree,
          catalog |-> IF from = "ledger" THEN catalog ELSE [n \in manifest \cap Importable |-> 1]]
  /\ Forget /\ UNCHANGED <<live, durable, manifest, stores>>

ReplayedSpawnless(d) == d.kind \in {"configure", "configure_child", "run"}
Replayed(d) == d.kind \in {"configure", "configure_child", "spawn", "run"}
\* configure_child does not take the envelope it recorded, and a call that fails ends the replay.
Raises(r, d) == d.kind = "configure_child" /\ (d.envelope \/ (d.child \in DOMAIN r.tree /\ ~(d.names \subseteq DOMAIN r.catalog)))

OffLive(s) == Restrict(s, DOMAIN s \cap Paths)
Reports(status) ==
  /\ report' = [from |-> replay.from, rows |-> replay.rows, status |-> status, failed |-> replay.failed]
  /\ replay' = None /\ stores' = OffLive(stores)
ReplayNext ==
  /\ replay # None
  /\ \/ replay.todo = {} /\ Reports("done")
     \/ \E i \in replay.todo :
          /\ \A j \in replay.todo \ {i} : Before(replay.rows, i, j)
          /\ LET row == replay.rows[i] rest == [replay EXCEPT !.todo = @ \ {i}]
                 r == Apply(replay.tree, replay.catalog, stores, RemapStatePaths(row.d))
             IN IF ~Replayed(row.d) THEN replay' = rest /\ UNCHANGED <<stores, report>>
                ELSE IF Raises(replay, row.d) THEN Reports("raised")
                ELSE /\ stores' = r.stores /\ UNCHANGED report
                     /\ replay' = [rest EXCEPT !.tree = r.tree,
                          !.failed = IF row.d.kind = "run" /\ row.out # r.out THEN Append(@, row.cid) ELSE @]
  /\ UNCHANGED <<live, durable, manifest>>

\* replay: one run, by a fresh tree that has the task, the verifiers, and the root's verifier of now.
ReplayOne(i) ==
  /\ Free /\ ~Planning /\ ledger[i].d.kind = "run"
  /\ LET d == ledger[i].d ver == tree["root"].verifier
         codes == Restrict(catalog, DOMAIN catalog \cap {d.task, ver, d.verifier})
         fresh == [a \in {"root"} |-> [NewAgent EXCEPT !.codes = codes, !.verifier = ver]]
         out == Run(fresh, <<>>, d).out
         passed == d.task \in DOMAIN catalog /\ ledger[i].out = out
     IN report' = [from |-> "one", rows |-> <<ledger[i]>>, status |-> "done",
                   failed |-> IF passed THEN <<>> ELSE <<ledger[i].cid>>]
  /\ UNCHANGED <<live, durable, manifest, stores, replay>>

Next ==
  \/ \E n \in Names : Register(n)
  \/ \E d \in Directives : IssueDirective(d)
  \/ Answer
  \/ \E acted \in BOOLEAN : GiveUp(acted)
  \/ \E a \in Artifacts : \E v \in {None} \cup DOMAIN Accepts : Orchestrate(a, v)
  \/ PlanStep \/ Reopen
  \/ \E from \in {"ledger", "durable"} : StartReplay(from)
  \/ ReplayNext
  \/ \E i \in DOMAIN ledger : ReplayOne(i)
Spec == Init /\ [][Next]_vars

-----------------------------------------------------------------------------
(* Properties *)

\* A replay leaves every store of the live session as it is (_isolate_state_path).
TouchesNothing == replay # None => OffLive(stores') = OffLive(stores)
ReplayTouchesNothing == [][TouchesNothing]_vars

\* Rows that a fresh tree can run by themselves: all of them answered, every callable configured
\* before it is used, child configures without an envelope or callables, no direct store writes.
ConfiguredBefore(rows, i) == UNION {rows[j].d.names : j \in {k \in 1..(i - 1) : rows[k].d.kind = "configure"}}
SelfContained(rows) ==
  \A i \in DOMAIN rows :
    LET d == rows[i].d known == {None} \cup ConfiguredBefore(rows, i)
    IN CASE d.kind = "configure" -> rows[i].out = Ok /\ d.verifier \in known \cup d.names
         [] d.kind = "configure_child" -> ~d.envelope /\ d.names = {} /\ d.verifier = None
         [] d.kind = "run" -> rows[i].out # NoAnswer /\ d.verifier \in known /\ (d.child = None => d.task \in known)
         [] d.kind = "spawn" -> rows[i].out = Ok
         [] OTHER -> FALSE
\* The replay of a session whose rows are self-contained, and whose callables are still what they
\* were, reproduces every outcome, whatever the runs did to the stores (replay_session).
FaithfulReplay ==
  report # None /\ report.from # "one" /\ session = 1 /\ SelfContained(report.rows)
    /\ (\A n \in DOMAIN catalog : catalog[n] = 1) /\ (report.from = "durable" => DOMAIN catalog \subseteq Importable)
  => report.status = "done" /\ report.failed = <<>>

\* Every answer a caller got is in the durable ledger, with its directive and its outcome, for good:
\* no later process overwrites the row by issuing under the same correlation id again, and the row an
\* outcome is written to is the only one with its id.
AnsweredIsRecorded ==
  /\ \A i, j \in DOMAIN durable : durable[i].cid = durable[j].cid => i = j
  /\ \A t \in told : \E i \in DOMAIN durable : durable[i] = [cid |-> t[2], d |-> t[3], out |-> t[4]]

\* A plan is ok when each of its steps, and no other directive, was recorded in its order and
\* answered by a verified outcome (run_plan stops at the first unverified step).
PlanVerdict ==
  plan # None /\ plan.status = "ok" =>
    \A k \in DOMAIN plan.steps : \E i \in DOMAIN ledger :
      /\ ledger[i].cid = <<"run", plan.from + k>> /\ ledger[i].d = RunDirective(plan.steps[k])
      /\ ledger[i].out.terminal \in {"ok", "result"}

\* A replay issues the recorded directives in the order they were issued in (replay_session's
\* docstring; it sorts by the number of the correlation id, which restarts in every process).
ReplaysInIssueOrder ==
  replay # None => \A i \in replay.todo : i..Len(replay.rows) \subseteq replay.todo
=============================================================================

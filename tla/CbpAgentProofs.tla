--------------------------- MODULE CbpAgentProofs ---------------------------
(***************************************************************************)
(* Proofs about CbpAgent, for every set of correlation ids, names, values, *)
(* children, keys, paths and payloads.                                     *)
(*                                                                         *)
(* TypeOK is inductive on its own; the cache, the guard, the delegations,  *)
(* the stored rows and the audit are each shown inductive relative to it,  *)
(* one step per action of the agent.                                       *)
(***************************************************************************)
EXTENDS CbpAgent, TLAPS

-----------------------------------------------------------------------------
(* What the constructors and the two recording helpers return.             *)

(* Every response the agent builds has the shape validate_response asks.   *)
LEMMA ResponseTypes ==
  /\ Ok \in Response
  /\ Err \in Response
  /\ \A v \in Value \union {None} : Result(v) \in Response
  BY DEF Ok, Err, Result, Response

(* Local and relayed responses become well-formed trajectory events.       *)
LEMMA EventTypes ==
  ASSUME NEW r \in Response
  PROVE  /\ LocalEvent(r) \in Event
         /\ \A k \in Kid : RelayEvent(r, k) \in Event
  BY DEF LocalEvent, RelayEvent, Response, Event

(* TrajectoryStore.record keeps the trajectory well-formed.                *)
LEMMA RecordType ==
  ASSUME AnswersOK, NEW c \in Cid, NEW e \in Event, NEW open \in BOOLEAN
  PROVE  record(traj, open, c, e) \in [Cid -> Event \union {None}]
  BY DEF AnswersOK, record

(* A handled directive that is answered and recorded (_dispatch_inner).    *)
LEMMA RespondType ==
  ASSUME AnswersOK, Receive, trajOpen' \in BOOLEAN,
         NEW via \in {"run", "relay", "other"}, NEW c \in Cid,
         NEW r \in Response, Respond(via, c, r)
  PROVE  AnswersOK'
<1>1. traj' \in [Cid -> Event \union {None}]
  BY RecordType, EventTypes DEF Respond
<1>2. answers' \subseteq Answer
  BY DEF AnswersOK, Respond, _send, Answer
<1> QED  BY <1>1, <1>2 DEF AnswersOK, Receive

(* A rejected directive is answered and not recorded (_dispatch).          *)
LEMMA RejectType ==
  ASSUME AnswersOK, Receive, trajOpen' \in BOOLEAN,
         NEW via \in {"run", "relay", "other"}, NEW c \in Cid, Reject(via, c)
  PROVE  AnswersOK'
  BY ResponseTypes DEF AnswersOK, Reject, _send, Answer, Receive

(* A directive whose exception leaves poll changes no answer.              *)
LEMMA AbortType ==
  ASSUME AnswersOK, Receive, trajOpen' \in BOOLEAN, Abort
  PROVE  AnswersOK'
  BY DEF AnswersOK, Abort, Receive

(* Most directives change nothing but the answers and the trajectory.      *)
Idle == UNCHANGED <<grants, links, cache, disk, trajOpen>>

(* For them, well-typed answers are all there is to show.                  *)
LEMMA IdleType ==
  ASSUME TypeOK, Idle, AnswersOK'
  PROVE  TypeOK'
  BY DEF TypeOK, Idle, GrantsOK, LinksOK, CacheOK, DiskOK, grants, links,
         cache, disk

-----------------------------------------------------------------------------
(* Type correctness.                                                       *)

(* A newly initialised agent is well typed.                                *)
LEMMA InitTypeOK == Init => TypeOK
<1> SUFFICES ASSUME Init PROVE TypeOK
  OBVIOUS
<1>1. GrantsOK
  BY DEF Init, GrantsOK, NewGuard, Unbounded, Guard, Envelope, Limit
<1>2. LinksOK
  BY DEF Init, LinksOK
<1>3. CacheOK
  BY DEF Init, CacheOK
<1>4. DiskOK
  BY DEF Init, DiskOK
<1>5. AnswersOK
  BY DEF Init, AnswersOK
<1> QED  BY <1>1, <1>2, <1>3, <1>4, <1>5 DEF TypeOK

(* EnvelopeGuard.record_step: one more step, one more child for a spawn.   *)
LEMMA RecordStepType ==
  ASSUME NEW g \in Guard, NEW is_spawn \in BOOLEAN
  PROVE  /\ record_step(g, is_spawn) \in Guard
         /\ record_step(g, is_spawn).env = g.env
         /\ record_step(g, is_spawn).steps = g.steps + 1
         /\ record_step(g, is_spawn).kids =
               IF is_spawn THEN g.kids + 1 ELSE g.kids
<1>1. CASE is_spawn = TRUE
  BY <1>1 DEF record_step, Guard
<1>2. CASE is_spawn = FALSE
  BY <1>2 DEF record_step, Guard
<1> QED  BY <1>1, <1>2

(* A run executes: the guard and the work counters keep their types.       *)
LEMMA ExecuteType ==
  ASSUME TypeOK, NEW d \in RunDirective, Execute(d)
  PROVE  GrantsOK' /\ LinksOK' /\ DiskOK' /\ trajOpen' \in BOOLEAN
<1>1. guard' \in Guard
  BY RecordStepType DEF TypeOK, GrantsOK, Execute
<1>2. work' \in [ran : Nat, born : Nat]
  BY DEF TypeOK, GrantsOK, Execute
<1>3. registry' = registry /\ verifier' = verifier
  BY DEF Execute
<1>4. LinksOK' /\ DiskOK' /\ trajOpen' \in BOOLEAN
  BY DEF TypeOK, LinksOK, DiskOK, AnswersOK, Execute, links, disk
<1> QED  BY <1>1, <1>2, <1>3, <1>4 DEF TypeOK, GrantsOK

(* A grant is applied: so do they after a configure.                       *)
LEMMA ApplyGrantsType ==
  ASSUME TypeOK, NEW g \in Grant, ApplyGrants(g)
  PROVE  GrantsOK' /\ LinksOK' /\ CacheOK'
<1>1. guard' \in Guard
  BY ConstantsOK DEF TypeOK, GrantsOK, ApplyGrants, NewGuard, Guard
<1>2. work' \in [ran : Nat, born : Nat]
  BY DEF TypeOK, GrantsOK, ApplyGrants
<1>3. verifier' \in Name \union {None}
  BY ConstantsOK DEF TypeOK, GrantsOK, ApplyGrants
<1>4. registry' \in [Name -> Entry \union {None}]
  BY ConstantsOK DEF TypeOK, GrantsOK, ApplyGrants
<1>5. LinksOK' /\ CacheOK'
  BY DEF TypeOK, LinksOK, CacheOK, ApplyGrants, links, cache
<1> QED  BY <1>1, <1>2, <1>3, <1>4, <1>5 DEF GrantsOK

(* A child's message is consumed: the links keep their types.              *)
LEMMA DrainType ==
  ASSUME TypeOK, NEW k \in Kid, Drain(k)
  PROVE  /\ Head(down[k]) \in Cid
         /\ GrantsOK' /\ LinksOK' /\ CacheOK' /\ DiskOK'
         /\ trajOpen' \in BOOLEAN /\ trajOpen' = trajOpen
         /\ alive' = alive /\ received' = received
<1>1. Head(down[k]) \in Cid /\ Tail(down[k]) \in Seq(Cid)
  BY DEF TypeOK, LinksOK, Drain
<1>2. LinksOK'
  BY <1>1 DEF TypeOK, LinksOK, Drain
<1>3. GrantsOK' /\ CacheOK' /\ DiskOK'
  BY DEF TypeOK, GrantsOK, CacheOK, DiskOK, Drain, grants, cache, disk
<1> QED  BY <1>1, <1>2, <1>3 DEF TypeOK, AnswersOK, Drain

(* A relayed response is recorded and sent with its type.                  *)
LEMMA RelayType ==
  ASSUME TypeOK, NEW k \in Kid, Drain(k), NEW r \in Response, Relay(k, r)
  PROVE  AnswersOK'
<1>1. Head(down[k]) \in Cid /\ trajOpen' = trajOpen /\ alive' = alive
      /\ received' = received
  BY DrainType
<1>2. traj' \in [Cid -> Event \union {None}]
  BY <1>1, RecordType, EventTypes DEF Relay, TypeOK, AnswersOK
<1>3. answers' \subseteq Answer
  BY <1>1 DEF TypeOK, AnswersOK, Relay, _send, Answer
<1> QED  BY <1>1, <1>2, <1>3 DEF TypeOK, AnswersOK

(* Every action keeps every variable in its type.                          *)
LEMMA NextTypeOK == TypeOK /\ [Next]_vars => TypeOK'
<1> SUFFICES ASSUME TypeOK, [Next]_vars PROVE TypeOK'
  OBVIOUS
<1> USE ResponseTypes
<1>a. AnswersOK
  BY DEF TypeOK
<1>b. Idle => trajOpen' \in BOOLEAN
  BY DEF Idle, TypeOK, AnswersOK
<1>1. ASSUME NEW d \in RunDirective, RunCached(d) PROVE TypeOK'
  <2>1. results[d] \in Response /\ d.cid \in Cid
    BY <1>1 DEF TypeOK, CacheOK, RunCached, RunDirective
  <2> QED  BY <1>1, <1>a, <1>b, <2>1, RespondType, IdleType DEF RunCached, Idle
<1>2. ASSUME NEW d \in RunDirective, RunRefused(d) PROVE TypeOK'
  BY <1>2, <1>a, <1>b, RespondType, IdleType DEF RunRefused, Idle, RunDirective
<1>3. ASSUME NEW d \in RunDirective, RunRaises(d) PROVE TypeOK'
  <2>1. AnswersOK'
    BY <1>3, <1>a, ExecuteType, RespondType
       DEF RunRaises, Execute, RunDirective
  <2>2. CacheOK'
    BY <1>3 DEF RunRaises, TypeOK, CacheOK, cache
  <2> QED  BY <1>3, <2>1, <2>2, ExecuteType DEF RunRaises, TypeOK
<1>4. ASSUME NEW d \in RunDirective, NEW v \in Value, RunReturns(d, v)
      PROVE  TypeOK'
  <2> DEFINE verdict == _verify(v, verifier_name(d))
             resp    == IF verdict = "accept" THEN Result(v) ELSE Err
  <2>1. resp \in Response /\ d.cid \in Cid
    BY DEF RunDirective
  <2>2. Execute(d) /\ Respond("run", d.cid, resp)
        /\ results' = [results EXCEPT ![d] = resp]
        /\ usedKeys' = usedKeys \union {d.cid}
    BY <1>4 DEF RunReturns
  <2> HIDE DEF resp
  <2>3. CacheOK'
    BY <2>1, <2>2 DEF TypeOK, CacheOK
  <2>4. AnswersOK'
    BY <2>1, <2>2, <1>a, ExecuteType, RespondType DEF Execute
  <2> QED  BY <2>2, <2>3, <2>4, ExecuteType DEF TypeOK
<1>5. ASSUME NEW d \in RunDirective, NEW v \in Value, RunVerifierRaises(d, v)
      PROVE  TypeOK'
  <2>1. AnswersOK'
    BY <1>5, <1>a, ExecuteType, RejectType, AbortType
       DEF RunVerifierRaises, Execute, RunDirective
  <2>2. CacheOK'
    BY <1>5 DEF RunVerifierRaises, TypeOK, CacheOK, cache
  <2> QED  BY <1>5, <2>1, <2>2, ExecuteType DEF RunVerifierRaises, TypeOK
<1>6. ASSUME NEW c \in Cid, NEW k \in Kid, Delegate(c, k) PROVE TypeOK'
  <2>1. LinksOK'
    BY <1>6 DEF Delegate, delegate, TypeOK, LinksOK
  <2>2. GrantsOK' /\ CacheOK' /\ DiskOK'
    BY <1>6 DEF Delegate, delegate, TypeOK, GrantsOK, CacheOK, DiskOK, grants, cache,
                disk
  <2>3. AnswersOK'
    BY <1>6 DEF Delegate, delegate, Receive, TypeOK, AnswersOK
  <2> QED  BY <2>1, <2>2, <2>3 DEF TypeOK
<1>7. ASSUME NEW c \in Cid, NEW k \in Kid, DelegateUnknown(c, k)
      PROVE  TypeOK'
  BY <1>7, <1>a, <1>b, RespondType, IdleType DEF DelegateUnknown, Idle
<1>8. ASSUME NEW k \in Kid, ChildUnsolicited(k) PROVE TypeOK'
  BY <1>8, DrainType DEF ChildUnsolicited, Abort, TypeOK, AnswersOK
<1>9. ASSUME NEW k \in Kid, ChildFailed(k) PROVE TypeOK'
  BY <1>9, DrainType, RelayType DEF ChildFailed, TypeOK
<1>10. ASSUME NEW k \in Kid, NEW v \in Value, ChildVerified(k, v)
       PROVE  TypeOK'
  <2>1. AnswersOK'
    BY <1>10, DrainType, RelayType DEF ChildVerified, Abort, TypeOK, AnswersOK
  <2> QED  BY <1>10, <2>1, DrainType DEF ChildVerified, TypeOK
<1>11. ASSUME NEW k \in Kid, ChildRaises(k) PROVE TypeOK'
  <2>1. Head(down[k]) \in Cid /\ Tail(down[k]) \in Seq(Cid)
    BY <1>11 DEF ChildRaises, TypeOK, LinksOK
  <2>2. LinksOK'
    BY <1>11, <2>1 DEF ChildRaises, TypeOK, LinksOK
  <2>3. GrantsOK' /\ CacheOK' /\ DiskOK' /\ AnswersOK'
    BY <1>11 DEF ChildRaises, TypeOK, GrantsOK, CacheOK, DiskOK, AnswersOK,
                 grants, cache, disk
  <2> QED  BY <2>2, <2>3 DEF TypeOK
<1>12. ASSUME NEW c \in Cid, NEW g \in Grant, ConfigureBadEnvelope(c, g)
       PROVE  TypeOK'
  BY <1>12, <1>a, <1>b, RejectType, IdleType DEF ConfigureBadEnvelope, Idle
<1>13. ASSUME NEW c \in Cid, NEW g \in Grant, ConfigureUnknown(c, g)
       PROVE  TypeOK'
  <2>1. DiskOK' /\ AnswersOK'
    BY <1>13, RejectType DEF ConfigureUnknown, TypeOK, DiskOK, AnswersOK, disk
  <2> QED  BY <1>13, <2>1, ApplyGrantsType DEF ConfigureUnknown, TypeOK
<1>14. ASSUME NEW c \in Cid, NEW g \in Grant, ConfigureCannotOpen(c, g)
       PROVE  TypeOK'
  <2>1. DiskOK' /\ AnswersOK'
    BY <1>14, AbortType
       DEF ConfigureCannotOpen, TypeOK, DiskOK, AnswersOK, disk
  <2> QED  BY <1>14, <2>1, ApplyGrantsType DEF ConfigureCannotOpen, TypeOK
<1>15. ASSUME NEW c \in Cid, NEW g \in Grant, Configure(c, g) PROVE TypeOK'
  <2>1. trajOpen' \in BOOLEAN
    BY <1>15, Zenon DEF Configure
  <2>2. AnswersOK'
    BY <1>15, <1>a, <2>1, RespondType DEF Configure
  <2>3. DiskOK'
    <3>1. CASE g.state = None
      BY <1>15, <3>1 DEF Configure, open_state, TypeOK, DiskOK
    <3>2. CASE g.state # None
      <4>1. g.state \in Path /\ g.read_only \in BOOLEAN
        BY <3>2, ConstantsOK
      <4>2. store' = [path |-> g.state, read_only |-> g.read_only]
            /\ files' = [files EXCEPT ![g.state] =
                             IF files[g.state] = None
                             THEN [k \in Key |-> None] ELSE files[g.state]]
            /\ acked' = acked
        BY <1>15, <3>2 DEF Configure, open_state
      <4>3. [k \in Key |-> None] \in Rows
        BY DEF Rows
      <4>4. files' \in [Path -> Rows \union {None}] /\ files'[g.state] # None
        BY <4>1, <4>2, <4>3, NoneIsNoData DEF TypeOK, DiskOK
      <4>5. store' \in Handle /\ store'.path = g.state
        BY <4>1, <4>2 DEF Handle
      <4> QED  BY <4>2, <4>4, <4>5 DEF TypeOK, DiskOK
    <3> QED  BY <3>1, <3>2
  <2> QED  BY <1>15, <2>2, <2>3, ApplyGrantsType DEF Configure, TypeOK
<1>16. ASSUME NEW c \in Cid, NEW n \in Name, NEW located \in BOOLEAN,
              Register(c, n, located)
       PROVE  TypeOK'
  <2>1. [callable |-> FALSE, located |-> located] \in Entry
    BY DEF Entry
  <2>2. GrantsOK'
    BY <1>16, <2>1 DEF Register, TypeOK, GrantsOK
  <2>3. LinksOK' /\ CacheOK' /\ DiskOK' /\ trajOpen' \in BOOLEAN
    BY <1>16 DEF Register, TypeOK, LinksOK, CacheOK, DiskOK, AnswersOK, links,
                 cache, disk
  <2>4. AnswersOK'
    BY <1>16, <1>a, <2>3, RespondType DEF Register
  <2> QED  BY <2>2, <2>3, <2>4 DEF TypeOK
<1>17. ASSUME NEW c \in Cid, NEW n \in Name, Resolve(c, n) PROVE TypeOK'
  BY <1>17, <1>a, <1>b, RespondType, IdleType DEF Resolve, Idle
<1>18. ASSUME NEW c \in Cid, NEW size \in Size, SpawnRefused(c, size)
       PROVE  TypeOK'
  BY <1>18, <1>a, <1>b, RespondType, IdleType DEF SpawnRefused, Idle
<1>19. ASSUME NEW c \in Cid, NEW k \in Kid, NEW size \in Size,
              SpawnAgain(c, k, size)
       PROVE  TypeOK'
  BY <1>19, <1>a, <1>b, RespondType, IdleType DEF SpawnAgain, Idle
<1>20. ASSUME NEW c \in Cid, NEW k \in Kid, NEW size \in Size,
              NEW outcome \in {"born", "refused", "raised"},
             Spawn(c, k, size, outcome)
       PROVE  TypeOK'
  <2>1. guard' \in Guard
    BY <1>20, RecordStepType DEF Spawn, TypeOK, GrantsOK
  <2>2. work' \in [ran : Nat, born : Nat]
    BY <1>20 DEF Spawn, TypeOK, GrantsOK
  <2>3. GrantsOK'
    BY <1>20, <2>1, <2>2 DEF Spawn, TypeOK, GrantsOK
  <2>4. LinksOK' /\ CacheOK' /\ DiskOK' /\ trajOpen' \in BOOLEAN
    BY <1>20 DEF Spawn, TypeOK, LinksOK, CacheOK, DiskOK, AnswersOK, cache,
                 disk
  <2>5. AnswersOK'
    BY <1>20, <1>a, <2>4, RespondType, AbortType DEF Spawn
  <2> QED  BY <2>3, <2>4, <2>5 DEF TypeOK
<1>21. ASSUME NEW w \in Write, StateSetRefused(w) PROVE TypeOK'
  BY <1>21, <1>a, <1>b, RespondType, IdleType DEF StateSetRefused, Idle, Write
<1>22. ASSUME NEW w \in Write, StateSet(w) PROVE TypeOK'
  <2>1. store \in Handle /\ store.path \in Path /\ w.key \in Key
        /\ w.cid \in Cid
    BY <1>22 DEF StateSet, Writable, TypeOK, DiskOK, Handle, Write
  <2>2. files[store.path] \in Rows
    BY <1>22, <2>1 DEF StateSet, Writable, TypeOK, DiskOK
  <2>3. set(files[store.path], w) \in Rows
    BY <2>1, <2>2 DEF set, Rows
  <2>4. files' \in [Path -> Rows \union {None}] /\ files'[store.path] # None
    BY <1>22, <2>1, <2>3, NoneIsNoData DEF StateSet, TypeOK, DiskOK
  <2>5. acked' \in [Path -> [Key -> Seq(Write)]]
    BY <1>22, <2>1 DEF StateSet, TypeOK, DiskOK
  <2>6. DiskOK'
    BY <1>22, <2>4, <2>5 DEF StateSet, TypeOK, DiskOK
  <2>7. GrantsOK' /\ LinksOK' /\ CacheOK' /\ trajOpen' \in BOOLEAN
    BY <1>22 DEF StateSet, TypeOK, GrantsOK, LinksOK, CacheOK, AnswersOK,
                 grants, links, cache
  <2>8. AnswersOK'
    BY <1>22, <1>a, <2>1, <2>7, RespondType DEF StateSet
  <2> QED  BY <2>6, <2>7, <2>8 DEF TypeOK
<1>23. ASSUME NEW c \in Cid, NEW k \in Key, StateGet(c, k) PROVE TypeOK'
  <2> DEFINE v == IF store = None THEN None ELSE get(files[store.path], k)
             r == IF v = None THEN Err ELSE Result(v)
  <2>1. v \in Value \union {None}
    <3>1. CASE store = None
      BY <3>1
    <3>2. CASE store # None
      <4>1. files[store.path] \in Rows
        BY <3>2 DEF TypeOK, DiskOK, Handle
      <4> QED  BY <3>2, <4>1 DEF get, Rows, Write
    <3> QED  BY <3>1, <3>2
  <2>2. Receive /\ Idle /\ Respond("other", c, r)
    BY <1>23 DEF StateGet, Idle
  <2>3. r \in Response
    BY <2>1
  <2> HIDE DEF v, r
  <2> QED  BY <1>a, <1>b, <2>2, <2>3, RespondType, IdleType
<1>24. ASSUME NEW c \in Cid, Audit(c) PROVE TypeOK'
  BY <1>24, <1>a, <1>b, RespondType, IdleType DEF Audit, Idle
<1>25. ASSUME NEW c \in Cid, Ping(c) PROVE TypeOK'
  BY <1>25, <1>a, <1>b, RespondType, IdleType DEF Ping, Idle
<1>26. ASSUME NEW c \in Cid, Incomplete(c) PROVE TypeOK'
  BY <1>26, <1>a, <1>b, RespondType, IdleType DEF Incomplete, Idle
<1>27. CASE Malformed
  BY <1>27, <1>a, <1>b, AbortType, IdleType DEF Malformed, Idle, Abort
<1>28. CASE Kill
  <2>1. LinksOK'
    BY <1>28 DEF Kill, TypeOK, LinksOK
  <2>2. DiskOK'
    BY <1>28 DEF Kill, TypeOK, DiskOK
  <2>3. AnswersOK'
    <3>1. alive' \in BOOLEAN /\ trajOpen' \in BOOLEAN
      BY <1>28, Zenon DEF Kill
    <3>2. received' \in Nat /\ traj' = traj /\ answers' = answers
      BY <1>28 DEF Kill, TypeOK, AnswersOK
    <3> QED  BY <3>1, <3>2 DEF TypeOK, AnswersOK
  <2>4. GrantsOK' /\ CacheOK'
    BY <1>28 DEF Kill, TypeOK, GrantsOK, CacheOK, grants, cache
  <2> QED  BY <2>1, <2>2, <2>3, <2>4 DEF TypeOK
<1>29. CASE Expire
  <2>1. guard' \in Guard
    BY <1>29 DEF Expire, TypeOK, GrantsOK, Guard
  <2>3. GrantsOK'
    BY <1>29, <2>1 DEF Expire, TypeOK, GrantsOK
  <2>2. LinksOK' /\ CacheOK' /\ DiskOK' /\ AnswersOK'
    BY <1>29 DEF Expire, TypeOK, LinksOK, CacheOK, DiskOK, AnswersOK, links,
                 cache, disk
  <2> QED  BY <2>3, <2>2 DEF TypeOK
<1>30. CASE UNCHANGED vars
  BY <1>30 DEF vars, TypeOK, GrantsOK, LinksOK, CacheOK, DiskOK, AnswersOK,
               grants, links, cache, disk
<1> QED
  BY <1>1, <1>2, <1>3, <1>4, <1>5, <1>6, <1>7, <1>8, <1>9, <1>10, <1>11,
     <1>12, <1>13, <1>14, <1>15, <1>16, <1>17, <1>18, <1>19, <1>20, <1>21,
     <1>22, <1>23, <1>24, <1>25, <1>27, <1>28, <1>29, <1>30, <1>26
     DEF Next, Run, ChildStep

(* In every reachable state of the agent every variable has its type: an   *)
(* open state store has its file, and every response cached, recorded or   *)
(* sent is one validate_response accepts.                                  *)
THEOREM TypeCorrect == Spec => []TypeOK
  BY InitTypeOK, NextTypeOK, PTL DEF Spec

-----------------------------------------------------------------------------
(* Which actions touch which part of the state.                            *)

(* Only a run whose verifier gave a verdict writes the idempotency cache.  *)
LEMMA CacheSteps ==
  [Next]_vars =>
      \/ UNCHANGED cache
      \/ \E d \in RunDirective, v \in Value : RunReturns(d, v)
  BY DEF Next, Run, RunCached, RunRefused, RunRaises, RunVerifierRaises,
         Delegate, DelegateUnknown, ChildStep, ChildUnsolicited, ChildFailed,
         ChildVerified, ChildRaises, Drain, ConfigureBadEnvelope,
         ConfigureUnknown, ConfigureCannotOpen, Configure, ApplyGrants,
         Register, Resolve, SpawnRefused, SpawnAgain, Spawn, StateSetRefused,
         StateSet, StateGet, Audit, Ping, Incomplete, Malformed, Kill, Expire, vars

(* Only executing a run, configuring, spawning and the passing of time     *)
(* touch the guard.                                                        *)
LEMMA GuardSteps ==
  [Next]_vars =>
      \/ UNCHANGED <<guard, work>>
      \/ \E d \in RunDirective : Execute(d)
      \/ \E g \in Grant : ApplyGrants(g)
      \/ \E c \in Cid, k \in Kid, size \in Size :
            \E outcome \in {"born", "refused", "raised"} :
               Spawn(c, k, size, outcome)
      \/ Expire
  BY DEF Next, Run, RunCached, RunRefused, RunRaises, RunReturns,
         RunVerifierRaises, Delegate, DelegateUnknown, ChildStep,
         ChildUnsolicited, ChildFailed, ChildVerified, ChildRaises, Drain,
         ConfigureBadEnvelope, ConfigureUnknown, ConfigureCannotOpen,
         Configure, Register, Resolve, SpawnRefused, SpawnAgain,
         StateSetRefused, StateSet, StateGet, Audit, Ping, Incomplete, Malformed, Kill,
         vars, grants

(* Only delegating, a child's message and kill touch the links.            *)
LEMMA LinkSteps ==
  [Next]_vars =>
      \/ alive' = alive /\ UNCHANGED <<delegated, down, lost>>
      \/ \E c \in Cid, k \in Kid : Delegate(c, k)
      \/ \E k \in Kid : Drain(k)
      \/ \E k \in Kid : ChildRaises(k)
      \/ Kill
  BY DEF Next, Run, RunCached, RunRefused, RunRaises, RunReturns, Execute,
         RunVerifierRaises, DelegateUnknown, ChildStep,
         ChildUnsolicited, ChildFailed, ChildVerified,
         ConfigureBadEnvelope, ConfigureUnknown, ConfigureCannotOpen,
         Configure, ApplyGrants, Register, Resolve, SpawnRefused, SpawnAgain,
         Spawn, StateSetRefused, StateSet, StateGet, Audit, Ping, Incomplete, Malformed,
         Expire, Receive, vars, links

(* No answer is sent, or one that is no verified answer to a run.          *)
NoRunAnswer ==
  \/ answers' = answers
  \/ \E x : /\ answers' = answers \union {x}
            /\ x.via # "run" \/ ~x.resp.verified

(* Every action but RunCached and RunReturns sends no verified run answer. *)
LEMMA OtherAnswers ==
  [Next]_vars =>
      \/ \E d \in RunDirective : RunCached(d)
      \/ \E d \in RunDirective, v \in Value : RunReturns(d, v)
      \/ NoRunAnswer
<1>1. ASSUME NEW c, NEW r, Respond("other", c, r) PROVE NoRunAnswer
  BY <1>1 DEF Respond, _send, NoRunAnswer
<1>e. Err.verified = FALSE
  BY DEF Err
<1>2. ASSUME NEW c, Respond("run", c, Err) PROVE NoRunAnswer
  <2>1. [via |-> "run", cid |-> c, resp |-> Err].resp.verified = FALSE
    BY <1>e
  <2> QED  BY <1>2, <2>1, Zenon DEF Respond, _send, NoRunAnswer
<1>3. ASSUME NEW via, NEW c, Reject(via, c) PROVE NoRunAnswer
  <2>1. [via |-> via, cid |-> c, resp |-> Err].resp.verified = FALSE
    BY <1>e
  <2> QED  BY <1>3, <2>1, Zenon DEF Reject, _send, NoRunAnswer
<1>4. ASSUME NEW k, NEW r, Relay(k, r) PROVE NoRunAnswer
  BY <1>4 DEF Relay, _send, NoRunAnswer
<1>5. ASSUME UNCHANGED answers PROVE NoRunAnswer
  BY <1>5 DEF NoRunAnswer
<1> QED
  BY <1>1, <1>2, <1>3, <1>4, <1>5
     DEF Next, Run, RunRefused, RunRaises, RunVerifierRaises, Delegate,
         DelegateUnknown, ChildStep, ChildUnsolicited, ChildFailed,
         ChildVerified, ChildRaises, ConfigureBadEnvelope, ConfigureUnknown,
         ConfigureCannotOpen, Configure, Register, Resolve, SpawnRefused,
         SpawnAgain, Spawn, StateSetRefused, StateSet, StateGet, Audit, Ping,
         Incomplete, Malformed, Kill, Expire, Abort, vars

-----------------------------------------------------------------------------
(* The idempotency cache.                                                  *)

(* _results and _used_keys stay in step: a response is cached only under a *)
(* correlation id that has none.                                           *)
LEMMA NextCacheInv == TypeOK /\ CacheInv /\ [Next]_vars => CacheInv'
<1> SUFFICES ASSUME TypeOK, CacheInv, [Next]_vars PROVE CacheInv'
  OBVIOUS
<1>1. CASE UNCHANGED cache
  BY <1>1 DEF CacheInv, cache
<1>2. ASSUME NEW d \in RunDirective, NEW v \in Value, RunReturns(d, v)
      PROVE  CacheInv'
  <2>1. PICK r \in Response : results' = [results EXCEPT ![d] = r]
    BY <1>2, ResponseTypes DEF RunReturns
  <2>2. r # None
    BY NoneIsNoData
  <2>3. Fresh(d) /\ usedKeys' = usedKeys \union {d.cid}
    BY <1>2 DEF RunReturns, Execute, Permitted
  <2>4. \A e \in RunDirective :
            results'[e] = IF e = d THEN r ELSE results[e]
    BY <2>1 DEF TypeOK, CacheOK
  <2>5. \A e \in RunDirective : results[e] # None => e.cid # d.cid
    BY <2>3 DEF CacheInv, Fresh
  <2> QED  BY <2>2, <2>3, <2>4, <2>5 DEF CacheInv
<1> QED  BY <1>1, <1>2, CacheSteps

(* A cached response is never dropped or replaced.                         *)
LEMMA CachedStays ==
  ASSUME TypeOK, [Next]_vars, NEW d \in RunDirective, results[d] # None
  PROVE  results'[d] = results[d]
<1>1. CASE UNCHANGED cache
  BY <1>1 DEF cache
<1>2. ASSUME NEW e \in RunDirective, NEW v \in Value, RunReturns(e, v)
      PROVE  results'[d] = results[d]
  <2>1. Fresh(e)
    BY <1>2 DEF RunReturns, Execute, Permitted
  <2> QED  BY <1>2, <2>1 DEF RunReturns, Fresh, TypeOK, CacheOK
<1> QED  BY <1>1, <1>2, CacheSteps

(* Every verified answer to a run remains the cached response of its       *)
(* correlation id.                                                         *)
LEMMA NextAnswersCached ==
  TypeOK /\ AnswersCached /\ [Next]_vars => AnswersCached'
<1> SUFFICES ASSUME TypeOK, AnswersCached, [Next]_vars,
                    NEW a \in answers', a.via = "run", a.resp.verified
             PROVE  \E d \in RunDirective :
                        d.cid = a.cid /\ results'[d] = a.resp
  BY DEF AnswersCached
<1>1. CASE a \in answers
  <2>1. PICK d \in RunDirective : d.cid = a.cid /\ results[d] = a.resp
    BY <1>1 DEF AnswersCached
  <2>2. a.resp # None
    BY <1>1, NoneIsNoData DEF TypeOK, AnswersOK, Answer
  <2> QED  BY <2>1, <2>2, CachedStays
<1>2. ASSUME a \notin answers, NEW d \in RunDirective, RunCached(d)
      PROVE  d.cid = a.cid /\ results'[d] = a.resp
  BY <1>2, CachedStays DEF RunCached, Respond, _send
<1>3. ASSUME a \notin answers, NEW d \in RunDirective, NEW v \in Value,
             RunReturns(d, v)
      PROVE  d.cid = a.cid /\ results'[d] = a.resp
  BY <1>3 DEF RunReturns, Respond, _send, TypeOK, CacheOK
<1>4. CASE NoRunAnswer /\ a \notin answers
  BY <1>4 DEF NoRunAnswer
<1> QED  BY <1>1, <1>2, <1>3, <1>4, OtherAnswers

(* However often directives are repeated and whatever correlation ids are  *)
(* reused, the verified answers to runs this agent executed itself under   *)
(* one correlation id are all the same answer.                             *)
THEOREM IdempotentRuns == Spec => []OneVerifiedAnswer
<1>1. Init => TypeOK /\ CacheInv /\ AnswersCached
  <2>1. Init => CacheInv /\ AnswersCached
    BY DEF Init, CacheInv, AnswersCached
  <2> QED  BY <2>1, InitTypeOK
<1>2. TypeOK /\ CacheInv /\ AnswersCached /\ [Next]_vars
      => (TypeOK /\ CacheInv /\ AnswersCached)'
  BY NextTypeOK, NextCacheInv, NextAnswersCached
<1>3. TypeOK /\ CacheInv /\ AnswersCached => OneVerifiedAnswer
  <2> SUFFICES ASSUME TypeOK, CacheInv, AnswersCached,
                      NEW a \in answers, NEW b \in answers,
                      a.via = "run", b.via = "run", a.cid = b.cid,
                      a.resp.verified, b.resp.verified
               PROVE  a = b
    BY DEF OneVerifiedAnswer
  <2>1. a \in Answer /\ b \in Answer
    BY DEF TypeOK, AnswersOK
  <2>2. PICK d \in RunDirective : d.cid = a.cid /\ results[d] = a.resp
    BY DEF AnswersCached
  <2>3. PICK e \in RunDirective : e.cid = b.cid /\ results[e] = b.resp
    BY DEF AnswersCached
  <2>4. a.resp # None /\ b.resp # None
    BY <2>1, NoneIsNoData DEF Answer
  <2>5. d = e
    BY <2>2, <2>3, <2>4 DEF CacheInv
  <2> QED  BY <2>1, <2>2, <2>3, <2>5 DEF Answer
<1> QED  BY <1>1, <1>2, <1>3, PTL DEF Spec

-----------------------------------------------------------------------------
(* The resource envelope.                                                  *)

(* A step the guard lets through keeps its counters within the limits.     *)
LEMMA GuardStepBounded ==
  ASSUME NEW g \in Guard, NEW is_spawn \in BOOLEAN, NEW size,
         ~check_directive(g, IF is_spawn THEN "spawn" ELSE "run", size),
         ~Exceeds(g.steps, g.env.step_limit),
         ~Exceeds(g.kids, g.env.child_limit)
  PROVE  /\ ~Exceeds(g.steps + 1, g.env.step_limit)
         /\ is_spawn => ~Exceeds(g.kids + 1, g.env.child_limit)
<1>1. /\ g.steps \in Nat /\ g.kids \in Nat
      /\ g.env.step_limit \in Nat \union {None}
      /\ g.env.child_limit \in Nat \union {None}
  BY DEF Guard, Envelope, Limit
<1>2. ~AtLimit(g.steps, g.env.step_limit)
  BY DEF check_directive
<1>3. is_spawn => ~AtLimit(g.kids, g.env.child_limit)
  BY DEF check_directive
<1>4. ~Exceeds(g.steps + 1, g.env.step_limit)
  BY <1>1, <1>2 DEF Exceeds, AtLimit
<1>5. is_spawn => ~Exceeds(g.kids + 1, g.env.child_limit)
  BY <1>1, <1>3 DEF Exceeds, AtLimit
<1> QED  BY <1>4, <1>5

(* Every action that does work has the guard account for it first.         *)
LEMMA NextGuardAccounts ==
  TypeOK /\ GuardAccounts /\ [Next]_vars => GuardAccounts'
<1> SUFFICES ASSUME TypeOK, GuardAccounts, [Next]_vars PROVE GuardAccounts'
  OBVIOUS
<1>a. guard \in Guard /\ work.ran \in Nat /\ work.born \in Nat
      /\ work = [ran |-> work.ran, born |-> work.born]
      /\ guard.steps \in Nat /\ guard.kids \in Nat
  BY DEF TypeOK, GrantsOK, Guard
<1>1. CASE UNCHANGED <<guard, work>>
  BY <1>1 DEF GuardAccounts
<1>2. ASSUME NEW d \in RunDirective, Execute(d) PROVE GuardAccounts'
  <2>1. /\ guard'.env = guard.env /\ guard'.steps = guard.steps + 1
        /\ guard'.kids = guard.kids
    BY <1>2, <1>a, RecordStepType DEF Execute
  <2>2. work'.ran = work.ran + 1 /\ work'.born = work.born
    BY <1>2, <1>a DEF Execute
  <2>3. ~check_directive(guard, "run", d.payload.size)
    BY <1>2 DEF Execute, Permitted
  <2>4. ~Exceeds(guard.steps + 1, guard.env.step_limit)
    BY <1>a, <2>3, GuardStepBounded DEF GuardAccounts
  <2> QED  BY <1>a, <2>1, <2>2, <2>4 DEF GuardAccounts
<1>3. ASSUME NEW g \in Grant, ApplyGrants(g) PROVE GuardAccounts'
  <2>1. CASE g.env = None
    BY <1>3, <2>1 DEF ApplyGrants, GuardAccounts
  <2>2. CASE g.env # None
    <3>1. g.env \in Envelope
      BY <2>2, ConstantsOK
    <3>2. /\ g.env.step_limit \in Nat \union {None}
          /\ g.env.child_limit \in Nat \union {None}
      BY <3>1 DEF Envelope, Limit
    <3>3. guard' = NewGuard(g.env) /\ work' = [ran |-> 0, born |-> 0]
      BY <1>3, <2>2 DEF ApplyGrants
    <3> QED  BY <3>2, <3>3 DEF NewGuard, GuardAccounts, Exceeds
  <2> QED  BY <2>1, <2>2
<1>4. ASSUME NEW c \in Cid, NEW k \in Kid, NEW size \in Size,
             NEW outcome \in {"born", "refused", "raised"},
             Spawn(c, k, size, outcome)
      PROVE  GuardAccounts'
  <2>1. /\ guard'.env = guard.env /\ guard'.steps = guard.steps + 1
        /\ guard'.kids = guard.kids + 1
    BY <1>4, <1>a, RecordStepType DEF Spawn
  <2>2. work'.ran = work.ran /\ work'.born <= work.born + 1
        /\ work'.born \in Nat
    BY <1>4, <1>a DEF Spawn
  <2>3. ~check_directive(guard, "spawn", size)
    BY <1>4 DEF Spawn
  <2>4. /\ ~Exceeds(guard.steps + 1, guard.env.step_limit)
        /\ ~Exceeds(guard.kids + 1, guard.env.child_limit)
    BY <1>a, <2>3, GuardStepBounded DEF GuardAccounts
  <2> QED  BY <1>a, <2>1, <2>2, <2>4 DEF GuardAccounts
<1>5. CASE Expire
  <2>1. /\ guard'.env = guard.env /\ guard'.steps = guard.steps
        /\ guard'.kids = guard.kids /\ work' = work
    BY <1>5, <1>a DEF Expire, Guard
  <2> QED  BY <2>1 DEF GuardAccounts
<1> QED  BY <1>1, <1>2, <1>3, <1>4, <1>5, GuardSteps

(* The runs an agent executes itself and the children it spawns never      *)
(* exceed the envelope in force, whatever raises, repeats or fails.        *)
THEOREM EnvelopeEnforced == Spec => []EnvelopeBoundsWork
<1>1. Init => TypeOK /\ GuardAccounts
  <2>1. Init => GuardAccounts
    BY DEF Init, GuardAccounts, NewGuard, Unbounded, Exceeds
  <2> QED  BY <2>1, InitTypeOK
<1>2. TypeOK /\ GuardAccounts /\ [Next]_vars => (TypeOK /\ GuardAccounts)'
  BY NextTypeOK, NextGuardAccounts
<1>3. TypeOK /\ GuardAccounts => EnvelopeBoundsWork
  <2> SUFFICES ASSUME TypeOK, GuardAccounts PROVE EnvelopeBoundsWork
    OBVIOUS
  <2>1. /\ guard.steps \in Nat /\ guard.kids \in Nat
        /\ guard.env.step_limit \in Nat \union {None}
        /\ guard.env.child_limit \in Nat \union {None}
        /\ work.ran \in Nat /\ work.born \in Nat
    BY DEF TypeOK, GrantsOK, Guard, Envelope, Limit
  <2> QED  BY <2>1 DEF GuardAccounts, EnvelopeBoundsWork, Exceeds
<1> QED  BY <1>1, <1>2, <1>3, PTL DEF Spec

-----------------------------------------------------------------------------
(* Delegation.                                                             *)

(* Taking the head off a queue leaves everything else in it.               *)
LEMMA TailKeeps ==
  ASSUME NEW s \in Seq(Cid), s # <<>>, NEW i \in DOMAIN s,
         s[i] # Head(s)
  PROVE  \E j \in DOMAIN Tail(s) : Tail(s)[j] = s[i]
<1>1. i \in 2..Len(s)
  OBVIOUS
<1>2. i - 1 \in DOMAIN Tail(s) /\ Tail(s)[i - 1] = s[i]
  BY <1>1
<1> QED  BY <1>2

(* Appending to a queue leaves everything in it.                           *)
LEMMA AppendKeeps ==
  ASSUME NEW s \in Seq(Cid), NEW c \in Cid
  PROVE  /\ \E j \in DOMAIN Append(s, c) : Append(s, c)[j] = c
         /\ \A i \in DOMAIN s :
               i \in DOMAIN Append(s, c) /\ Append(s, c)[i] = s[i]
<1>1. Len(s) + 1 \in DOMAIN Append(s, c) /\ Append(s, c)[Len(s) + 1] = c
  OBVIOUS
<1>2. \A i \in DOMAIN s : i \in DOMAIN Append(s, c) /\ Append(s, c)[i] = s[i]
  OBVIOUS
<1> QED  BY <1>1, <1>2

(* Whatever takes a run off a child's queue also releases the delegation   *)
(* that awaits it, or leaves it among the lost.                            *)
LEMMA NextDelegationAccounted ==
  TypeOK /\ DelegationAccounted /\ [Next]_vars => DelegationAccounted'
<1> SUFFICES ASSUME TypeOK, DelegationAccounted, [Next]_vars, alive',
                    NEW c \in Cid, delegated'[c] # None
             PROVE  Queued(delegated[c], c)' \/ <<delegated'[c], c>> \in lost'
  BY DEF DelegationAccounted
<1>1. CASE alive' = alive /\ UNCHANGED <<delegated, down, lost>>
  BY <1>1 DEF DelegationAccounted, Queued
<1>2. ASSUME NEW e \in Cid, NEW k \in Kid, Delegate(e, k)
      PROVE  Queued(delegated[c], c)' \/ <<delegated'[c], c>> \in lost'
  <2>1. /\ alive /\ lost' = lost
        /\ delegated' = [delegated EXCEPT ![e] = k]
        /\ down' = [down EXCEPT ![k] = Append(down[k], e)]
    BY <1>2 DEF Delegate, delegate, Receive
  <2>2. CASE c = e
    <3>1. delegated'[c] = k /\ down'[k] = Append(down[k], c)
      BY <2>1, <2>2 DEF TypeOK, LinksOK
    <3>2. down[k] \in Seq(Cid)
      BY DEF TypeOK, LinksOK
    <3> QED  BY <3>1, <3>2, AppendKeeps DEF Queued
  <2>3. CASE c # e
    <3> DEFINE m == delegated[c]
    <3>1. delegated'[c] = m /\ m \in Kid /\ m # None
      BY <2>1, <2>3 DEF TypeOK, LinksOK
    <3>2. down[k] \in Seq(Cid) /\ down[m] \in Seq(Cid)
      BY <3>1 DEF TypeOK, LinksOK
    <3>3. down'[m] = IF m = k THEN Append(down[m], e) ELSE down[m]
      BY <2>1, <3>1 DEF TypeOK, LinksOK
    <3>4. Queued(m, c) \/ <<m, c>> \in lost
      BY <2>1, <3>1 DEF DelegationAccounted
    <3> HIDE DEF m
    <3>5. Queued(m, c) => \E i \in DOMAIN down'[m] : down'[m][i] = c
      BY <3>2, <3>3, AppendKeeps DEF Queued
    <3> QED  BY <2>1, <3>1, <3>4, <3>5 DEF Queued
  <2> QED  BY <2>2, <2>3
<1>3. ASSUME NEW k \in Kid, Drain(k)
      PROVE  Queued(delegated[c], c)' \/ <<delegated'[c], c>> \in lost'
  <2> DEFINE m == delegated[c]
  <2>1. /\ alive /\ lost' = lost /\ down[k] # <<>>
        /\ delegated' = [delegated EXCEPT ![Head(down[k])] = None]
        /\ down' = [down EXCEPT ![k] = Tail(down[k])]
    BY <1>3 DEF Drain
  <2>2. c # Head(down[k]) /\ delegated'[c] = m /\ m \in Kid /\ m # None
    BY <2>1 DEF TypeOK, LinksOK
  <2>3. down'[m] = IF m = k THEN Tail(down[m]) ELSE down[m]
    BY <2>1, <2>2 DEF TypeOK, LinksOK
  <2>4. Queued(m, c) \/ <<m, c>> \in lost
    BY <2>1, <2>2 DEF DelegationAccounted
  <2>5. down[m] \in Seq(Cid)
    BY <2>2 DEF TypeOK, LinksOK
  <2> HIDE DEF m
  <2>6. Queued(m, c) => \E i \in DOMAIN down'[m] : down'[m][i] = c
    BY <2>1, <2>2, <2>3, <2>5, TailKeeps DEF Queued
  <2> QED  BY <2>1, <2>2, <2>4, <2>6 DEF Queued
<1>4. ASSUME NEW k \in Kid, ChildRaises(k)
      PROVE  Queued(delegated[c], c)' \/ <<delegated'[c], c>> \in lost'
  <2> DEFINE m == delegated[c]
  <2>1. /\ alive /\ delegated' = delegated /\ down[k] # <<>>
        /\ lost' = lost \union {<<k, Head(down[k])>>}
        /\ down' = [down EXCEPT ![k] = Tail(down[k])]
    BY <1>4 DEF ChildRaises
  <2>2. delegated'[c] = m /\ m \in Kid /\ m # None
    BY <2>1 DEF TypeOK, LinksOK
  <2>3. down'[m] = IF m = k THEN Tail(down[m]) ELSE down[m]
    BY <2>1, <2>2 DEF TypeOK, LinksOK
  <2>4. Queued(m, c) \/ <<m, c>> \in lost
    BY <2>1, <2>2 DEF DelegationAccounted
  <2>5. down[m] \in Seq(Cid)
    BY <2>2 DEF TypeOK, LinksOK
  <2> HIDE DEF m
  <2>6. CASE m = k /\ c = Head(down[k])
    BY <2>1, <2>2, <2>6
  <2>7. CASE ~(m = k /\ c = Head(down[k]))
    <3>1. Queued(m, c) => \E i \in DOMAIN down'[m] : down'[m][i] = c
      BY <2>1, <2>3, <2>5, <2>7, TailKeeps DEF Queued
    <3> QED  BY <2>1, <2>2, <2>4, <3>1 DEF Queued
  <2> QED  BY <2>6, <2>7
<1>5. CASE Kill
  BY <1>5 DEF Kill
<1> QED  BY <1>1, <1>2, <1>3, <1>4, <1>5, LinkSteps

(* An agent never forgets a delegated run: while it awaits an answer, the  *)
(* run is queued at the child it was sent to, or that child's poll raised. *)
THEOREM DelegationsKept == Spec => []DelegationAccounted
<1>1. Init => TypeOK /\ DelegationAccounted
  <2>1. Init => DelegationAccounted
    BY DEF Init, DelegationAccounted
  <2> QED  BY <2>1, InitTypeOK
<1>2. TypeOK /\ DelegationAccounted /\ [Next]_vars
      => (TypeOK /\ DelegationAccounted)'
  BY NextTypeOK, NextDelegationAccounted
<1> QED  BY <1>1, <1>2, PTL DEF Spec

-----------------------------------------------------------------------------
(* What is sent up, and what is recorded.                                  *)

(* Every step answers and records a directive, answers one without         *)
(* recording it, says nothing, or drains a child and relays: an error, or  *)
(* a value the verifier in force accepts.                                  *)
LEMMA AnswerSteps ==
  TypeOK /\ [Next]_vars =>
      \/ \E via \in {"run", "other"}, c \in Cid, r \in Response :
            Respond(via, c, r)
      \/ \E via \in {"run", "other"}, c \in Cid : Reject(via, c)
      \/ Abort
      \/ \E k \in Kid, r \in Response :
            /\ Drain(k)
            /\ Relay(k, r)
            /\ r.verified => _verify(r.value, verifier) = "accept"
<1> SUFFICES ASSUME TypeOK, [Next]_vars
             PROVE  \/ \E via \in {"run", "other"}, c \in Cid, r \in Response :
                          Respond(via, c, r)
                    \/ \E via \in {"run", "other"}, c \in Cid : Reject(via, c)
                    \/ Abort
                    \/ \E k \in Kid, r \in Response :
                          /\ Drain(k)
                          /\ Relay(k, r)
                          /\ r.verified => _verify(r.value, verifier) = "accept"
  OBVIOUS
<1> DEFINE Responds == \E via \in {"run", "other"}, c \in Cid, r \in Response :
                          Respond(via, c, r)
           Rejects  == \E via \in {"run", "other"}, c \in Cid : Reject(via, c)
           Relays   == \E k \in Kid, r \in Response :
                          /\ Drain(k)
                          /\ Relay(k, r)
                          /\ r.verified => _verify(r.value, verifier) = "accept"
<1> USE ResponseTypes
<1>1. ASSUME NEW d \in RunDirective, Run(d) PROVE Responds \/ Rejects \/ Abort
  <2>1. d.cid \in Cid
    BY DEF RunDirective
  <2>2. CASE RunCached(d)
    <3>1. results[d] \in Response
      BY <2>2 DEF RunCached, TypeOK, CacheOK
    <3> QED  BY <2>1, <2>2, <3>1 DEF RunCached
  <2>3. CASE RunRefused(d)
    BY <2>1, <2>3 DEF RunRefused
  <2>4. CASE RunRaises(d)
    BY <2>1, <2>4 DEF RunRaises
  <2>5. ASSUME NEW v \in Value, RunReturns(d, v) PROVE Responds
    <3>1. \E r \in Response : Respond("run", d.cid, r)
      BY <2>5 DEF RunReturns
    <3> QED  BY <2>1, <3>1
  <2>6. ASSUME NEW v \in Value, RunVerifierRaises(d, v) PROVE Rejects \/ Abort
    BY <2>1, <2>6 DEF RunVerifierRaises
  <2> QED  BY <1>1, <2>2, <2>3, <2>4, <2>5, <2>6 DEF Run
<1>2. ASSUME NEW c \in Cid, NEW k \in Kid,
             Delegate(c, k) \/ DelegateUnknown(c, k)
      PROVE  Responds \/ Abort
  BY <1>2 DEF Delegate, DelegateUnknown, Abort
<1>3. ASSUME NEW k \in Kid, ChildStep(k) PROVE Relays \/ Abort
  <2>1. CASE ChildUnsolicited(k) \/ ChildRaises(k)
    BY <2>1 DEF ChildUnsolicited, ChildRaises, Abort
  <2>2. CASE ChildFailed(k)
    <3>1. ~Err.verified
      BY DEF Err
    <3> QED  BY <2>2, <3>1 DEF ChildFailed
  <2>3. ASSUME NEW v \in Value, ChildVerified(k, v) PROVE Relays \/ Abort
    <3>1. Result(v).value = v /\ ~Err.verified /\ Result(v) \in Response
      BY DEF Result, Err
    <3>2. CASE _verify(v, verifier) = "accept" /\ Relay(k, Result(v))
      BY <2>3, <3>1, <3>2 DEF ChildVerified
    <3>3. CASE Relay(k, Err)
      BY <2>3, <3>1, <3>3 DEF ChildVerified
    <3> QED  BY <2>3, <3>2, <3>3 DEF ChildVerified
  <2> QED  BY <1>3, <2>1, <2>2, <2>3 DEF ChildStep
<1>4. ASSUME NEW c \in Cid, NEW g \in Grant,
             \/ ConfigureBadEnvelope(c, g)
             \/ ConfigureUnknown(c, g)
             \/ ConfigureCannotOpen(c, g)
             \/ Configure(c, g)
      PROVE  Responds \/ Rejects \/ Abort
  BY <1>4 DEF ConfigureBadEnvelope, ConfigureUnknown, ConfigureCannotOpen,
              Configure
<1>5. ASSUME NEW c \in Cid, NEW n \in Name,
             \/ \E located \in BOOLEAN : Register(c, n, located)
             \/ Resolve(c, n)
      PROVE  Responds
  BY <1>5 DEF Register, Resolve
<1>6. ASSUME NEW c \in Cid, NEW size \in Size,
             \/ SpawnRefused(c, size)
             \/ \E k \in Kid :
                   \/ SpawnAgain(c, k, size)
                   \/ \E outcome \in {"born", "refused", "raised"} :
                         Spawn(c, k, size, outcome)
      PROVE  Responds \/ Abort
  BY <1>6 DEF SpawnRefused, SpawnAgain, Spawn
<1>7. ASSUME NEW w \in Write, StateSetRefused(w) \/ StateSet(w)
      PROVE  Responds
  BY <1>7 DEF StateSetRefused, StateSet, Write
<1>8. ASSUME NEW c \in Cid, NEW k \in Key, StateGet(c, k) PROVE Responds
  <2> DEFINE v == IF store = None THEN None ELSE get(files[store.path], k)
             r == IF v = None THEN Err ELSE Result(v)
  <2>1. v \in Value \union {None}
    <3>1. CASE store = None
      BY <3>1
    <3>2. CASE store # None
      <4>1. files[store.path] \in Rows
        BY <3>2 DEF TypeOK, DiskOK, Handle
      <4> QED  BY <3>2, <4>1 DEF get, Rows, Write
    <3> QED  BY <3>1, <3>2
  <2>2. r \in Response /\ Respond("other", c, r)
    BY <1>8, <2>1 DEF StateGet
  <2> QED  BY <2>2
<1>9. ASSUME NEW c \in Cid, Audit(c) \/ Ping(c) \/ Incomplete(c)
      PROVE  Responds
  BY <1>9 DEF Audit, Ping, Incomplete
<1>10. CASE Malformed \/ Kill \/ Expire \/ UNCHANGED vars
  BY <1>10 DEF Malformed, Kill, Expire, vars, Abort
<1> QED
  BY <1>1, <1>2, <1>3, <1>4, <1>5, <1>6, <1>7, <1>8, <1>9, <1>10 DEF Next

(* TrajectoryStore.record writes one free entry at most.                   *)
LEMMA RecordEffect ==
  ASSUME TypeOK, NEW open, NEW c \in Cid, NEW e, NEW b \in Cid
  PROVE  \/ record(traj, open, c, e)[b] = traj[b]
         \/ b = c /\ record(traj, open, c, e)[b] = e
  BY DEF TypeOK, AnswersOK, record

(* An answer that is recorded: the event says what was sent.               *)
LEMMA RespondAudited ==
  ASSUME TypeOK, AuditTruthful, NEW via \in {"run", "other"}, NEW c \in Cid,
         NEW r \in Response, Respond(via, c, r)
  PROVE  AuditTruthful'
<1> SUFFICES ASSUME NEW b \in Cid, traj'[b] # None
             PROVE  \E a \in answers' :
                       /\ a.cid = b
                       /\ a.resp.verified = traj'[b].verified
                       /\ a.resp.value = traj'[b].value
                       /\ (a.via = "relay") = (traj'[b].parent # None)
  BY DEF AuditTruthful
<1>1. CASE traj'[b] = traj[b]
  BY <1>1 DEF AuditTruthful, Respond, _send
<1>2. CASE b = c /\ traj'[b] = LocalEvent(r)
  <2> DEFINE a == [via |-> via, cid |-> c, resp |-> r]
  <2>1. a \in answers' /\ a.cid = b /\ a.via # "relay"
    BY <1>2 DEF Respond, _send
  <2>2. /\ traj'[b].verified = r.verified /\ traj'[b].value = r.value
        /\ traj'[b].parent = None
    BY <1>2 DEF LocalEvent
  <2> QED  BY <2>1, <2>2
<1> QED  BY <1>1, <1>2, RecordEffect DEF Respond

(* A relay that is recorded: the event says what was sent, and from whom.  *)
LEMMA RelayAudited ==
  ASSUME TypeOK, AuditTruthful, NEW k \in Kid, NEW r \in Response, Drain(k),
         Relay(k, r)
  PROVE  AuditTruthful'
<1> DEFINE c == Head(down[k])
<1>c. c \in Cid
  BY DrainType
<1> HIDE DEF c
<1>r. /\ traj' = record(traj, trajOpen, c, RelayEvent(r, k))
      /\ answers' = answers \union {[via |-> "relay", cid |-> c, resp |-> r]}
  BY DEF Relay, _send, c
<1> SUFFICES ASSUME NEW b \in Cid, traj'[b] # None
             PROVE  \E a \in answers' :
                       /\ a.cid = b
                       /\ a.resp.verified = traj'[b].verified
                       /\ a.resp.value = traj'[b].value
                       /\ (a.via = "relay") = (traj'[b].parent # None)
  BY DEF AuditTruthful
<1>1. CASE traj'[b] = traj[b]
  BY <1>r, <1>1 DEF AuditTruthful
<1>2. CASE b = c /\ traj'[b] = RelayEvent(r, k)
  <2> DEFINE a == [via |-> "relay", cid |-> c, resp |-> r]
  <2>1. a \in answers' /\ a.cid = b /\ a.via = "relay"
    BY <1>r, <1>2
  <2>2. /\ traj'[b].verified = r.verified /\ traj'[b].value = r.value
        /\ traj'[b].parent = k /\ k # None
    BY <1>2, NoneIsNoData DEF RelayEvent
  <2> QED  BY <2>1, <2>2
<1> QED  BY <1>c, <1>r, <1>1, <1>2, RecordEffect

(* The audit stays truthful: answers are never taken back, and the only    *)
(* new event is that of the answer just sent.                              *)
LEMMA NextAuditTruthful ==
  TypeOK /\ AuditTruthful /\ [Next]_vars => AuditTruthful'
<1> SUFFICES ASSUME TypeOK, AuditTruthful, [Next]_vars PROVE AuditTruthful'
  OBVIOUS
<1>1. ASSUME NEW via \in {"run", "other"}, NEW c \in Cid, Reject(via, c)
      PROVE  AuditTruthful'
  BY <1>1 DEF Reject, _send, AuditTruthful
<1>2. CASE Abort
  BY <1>2 DEF Abort, AuditTruthful
<1> QED  BY <1>1, <1>2, AnswerSteps, RespondAudited, RelayAudited

(* Only a grant that opens a state file and a state write touch the rows.  *)
LEMMA DiskSteps ==
  [Next]_vars =>
      \/ UNCHANGED <<files, acked>>
      \/ \E c \in Cid, g \in Grant : Configure(c, g)
      \/ \E w \in Write : StateSet(w)
  BY DEF Next, Run, RunCached, RunRefused, RunRaises, RunReturns, Execute,
         RunVerifierRaises, Delegate, DelegateUnknown, ChildStep,
         ChildUnsolicited, ChildFailed, ChildVerified, ChildRaises, Drain,
         ConfigureBadEnvelope, ConfigureUnknown, ConfigureCannotOpen,
         Register, Resolve, SpawnRefused, SpawnAgain, Spawn, StateSetRefused,
         StateGet, Audit, Ping, Incomplete, Malformed, Kill, Expire, vars, disk

(* StateStore.set leaves the directive's own write in the row.             *)
LEMMA SetStores ==
  ASSUME NEW rows \in Rows, NEW w \in Write
  PROVE  /\ set(rows, w)[w.key] = w
         /\ \A k \in Key \ {w.key} : set(rows, w)[k] = rows[k]
  BY DEF set, Rows, Write

(* A write is acknowledged when its row is stored, and re-opening a file   *)
(* never loses a row.                                                      *)
LEMMA NextAckedWriteStored ==
  TypeOK /\ AckedWriteStored /\ [Next]_vars => AckedWriteStored'
<1> SUFFICES ASSUME TypeOK, AckedWriteStored, [Next]_vars,
                    NEW f \in Path, NEW k \in Key, acked'[f][k] # <<>>
             PROVE  /\ files'[f] # None
                    /\ files'[f][k] = acked'[f][k][Len(acked'[f][k])]
  BY DEF AckedWriteStored
<1>1. CASE UNCHANGED <<files, acked>>
  BY <1>1 DEF AckedWriteStored
<1>2. ASSUME NEW c \in Cid, NEW g \in Grant, Configure(c, g)
      PROVE  /\ files'[f] # None
             /\ files'[f][k] = acked'[f][k][Len(acked'[f][k])]
  <2>1. acked' = acked /\ open_state(g)
    BY <1>2 DEF Configure
  <2>2. files[f] # None /\ files[f][k] = acked[f][k][Len(acked[f][k])]
    BY <2>1 DEF AckedWriteStored
  <2>3. files'[f] = files[f]
    BY <2>1, <2>2 DEF open_state, TypeOK, DiskOK
  <2> QED  BY <2>1, <2>2, <2>3
<1>3. ASSUME NEW w \in Write, StateSet(w)
      PROVE  /\ files'[f] # None
             /\ files'[f][k] = acked'[f][k][Len(acked'[f][k])]
  <2> DEFINE q == store.path
  <2>1. q \in Path /\ w.key \in Key
    BY <1>3 DEF StateSet, Writable, TypeOK, DiskOK, Handle, Write
  <2>2. files[q] \in Rows
    BY <1>3, <2>1 DEF StateSet, Writable, TypeOK, DiskOK
  <2>3. /\ files' = [files EXCEPT ![q] = set(files[q], w)]
        /\ acked' = [acked EXCEPT ![q][w.key] = Append(acked[q][w.key], w)]
    BY <1>3 DEF StateSet
  <2>4. acked[q] \in [Key -> Seq(Write)] /\ acked[q][w.key] \in Seq(Write)
    BY <2>1 DEF TypeOK, DiskOK
  <2>d. files \in [Path -> Rows \union {None}]
        /\ acked \in [Path -> [Key -> Seq(Write)]]
    BY DEF TypeOK, DiskOK
  <2>n. set(files[q], w) \in Rows /\ None \notin Rows
    BY <2>1, <2>2, NoneIsNoData DEF set, Rows
  <2> HIDE DEF q
  <2>5. CASE f = q /\ k = w.key
    <3>1. acked'[f][k] = Append(acked[q][k], w)
      BY <2>1, <2>3, <2>5, <2>d
    <3>2. acked'[f][k][Len(acked'[f][k])] = w
      BY <2>4, <2>5, <3>1
    <3>3. files'[f] = set(files[q], w)
      BY <2>3, <2>5, <2>d
    <3>4. files'[f][k] = w
      BY <2>2, <2>5, <3>3, SetStores
    <3> QED  BY <2>n, <3>2, <3>3, <3>4
  <2>6. CASE f = q /\ k # w.key
    <3>1. acked'[f][k] = acked[q][k] /\ files'[f] = set(files[q], w)
      BY <2>1, <2>3, <2>6, <2>d
    <3>2. files'[f][k] = files[q][k]
      BY <2>2, <2>6, <3>1, SetStores
    <3> QED  BY <2>6, <2>n, <3>1, <3>2 DEF AckedWriteStored
  <2>7. CASE f # q
    <3>1. acked'[f] = acked[f] /\ files'[f] = files[f]
      BY <2>1, <2>3, <2>7, <2>d
    <3> QED  BY <3>1 DEF AckedWriteStored
  <2> QED  BY <2>5, <2>6, <2>7
<1> QED  BY <1>1, <1>2, <1>3, DiskSteps

(* The agent's three records never say more than what happened: the cache  *)
(* and the used correlation ids agree, the trajectory holds only outcomes  *)
(* the parent was told, and an acknowledged write is the row on disk,      *)
(* through re-grants, read-only grants, raising tasks and kill.            *)
THEOREM RecordsAreTruthful == Spec => []RecordsTruthful
<1>1. Init => TypeOK /\ RecordsTruthful
  <2>1. Init => CacheInv /\ AuditTruthful /\ AckedWriteStored
    BY DEF Init, CacheInv, AuditTruthful, AckedWriteStored
  <2> QED  BY <2>1, InitTypeOK DEF RecordsTruthful
<1>2. TypeOK /\ RecordsTruthful /\ [Next]_vars => (TypeOK /\ RecordsTruthful)'
  BY NextTypeOK, NextCacheInv, NextAuditTruthful, NextAckedWriteStored
     DEF RecordsTruthful
<1> QED  BY <1>1, <1>2, PTL DEF Spec

(* The correctness spine: whatever a child claims, no step of the agent    *)
(* sends a verified value up that its own verifier does not accept.        *)
THEOREM RelaysAreVerified == Spec => RelayedOnlyIfAccepted
<1>1. TypeOK /\ [Next]_vars =>
        [\A a \in answers' \ answers :
            a.via = "relay" /\ a.resp.verified =>
                _verify(a.resp.value, verifier) = "accept"]_vars
  <2> SUFFICES ASSUME TypeOK, [Next]_vars, NEW a \in answers' \ answers,
                      a.via = "relay", a.resp.verified
               PROVE  _verify(a.resp.value, verifier) = "accept"
    OBVIOUS
  <2>1. ASSUME NEW via \in {"run", "other"}, NEW c \in Cid,
               NEW r \in Response, _send(via, c, r)
        PROVE  FALSE
    BY <2>1 DEF _send
  <2>2. ~Abort
    BY DEF Abort
  <2>3. PICK k \in Kid, r \in Response :
            Relay(k, r) /\ (r.verified => _verify(r.value, verifier) = "accept")
    BY <2>1, <2>2, AnswerSteps, ResponseTypes DEF Respond, Reject
  <2> QED  BY <2>3 DEF Relay, _send
<1> QED  BY <1>1, InitTypeOK, NextTypeOK, PTL DEF Spec, RelayedOnlyIfAccepted
=============================================================================

# Specifications of agent-centric

agent-centric runs tasks through a tree of agents that talk over ZeroMQ, verify
what their children answer, and record what they did. This directory holds TLA+
models of the parts of it that carry its promises, the TLC runs that check them,
and TLAPS proofs about fifteen of them. All paths below are relative to
`src/src/agent_centric/`.

## The system

Two layers live in the repository. `cbp/` is the active one: a tree of agents
driven by one synchronous driver, with engines on top that run networks of
components, a supply chain that brings pinned components up, and append-only
files that keep the evidence. `control_plane/` is the earlier, frozen one: a
Manager that drives one agent generator at a time, in process or in a child
process. `contracts/` holds the immutable records both use.

| component | state it keeps | operations | interacts with |
|---|---|---|---|
| agent (`cbp/agent.py`) | registry, default verifier, envelope guard, children, awaited delegations, result cache and used ids, open stores | ping, configure, run, delegate, spawn, register, resolve, state set and get, audit, kill; drain of children | parent and children by messages; owns its stores |
| envelopes (`cbp/envelopes.py`) | granted limits, steps and children counted, start time | check, record | called by the agent for every directive |
| stores (`cbp/store.py`, `store_agent.py`) | SQLite rows: key, value, fingerprint; trajectory events by correlation id | open, set, get, record; store_set and store_get of a child | called by agents |
| driver (`cbp/driver.py`, `ledger.py`) | ledger of directives and outcomes, callables, sequence counter, sockets | one round trip per API call, with re-sending; polling of the tree; plans; replay of a ledger or a session | root agent by messages; children polled directly |
| driver host (`cbp/driverhost.py`) | worker thread, command queue, driver | start, submit, close | threads of the ACP and MCP servers |
| web server (`cbp/web.py`, `activity.py`, `cli.py`) | conversation, networks, feed in memory and in granted files; a reply's queue | requests, streamed replies, restart by a reloading parent | browser, model worker thread, files |
| network, flow, stream (`cbp/network.py`, `flow.py`, `stream.py`) | document; bounded buffers; suspended emitters; budgets | validate, order, compile, activate, send, receive | run each component through the driver |
| work items (`contracts/work.py`, `cbp/work_runtime.py`, `work_boot.py`, `boot_network.py`) | recipes, bindings of names in one driver's catalog | compile, gate, bind, run | owners; booted trees share the catalog |
| supply chain (`cbp/lockfile.py`, `resolver.py`, `cache.py`, `component_*.py`) | lock, content-addressed cache, state files | pin, resolve, verify, boot, run | sources of others, files |
| provider runtime (`cbp/provider_runtime.py`) | evidence ledger, remembered healthy state | observe, plan, apply, health, roll back, escalate | an injected adapter |
| evidence files: review queue, chat history (`cbp/review.py`, `chatstore.py`), transparency log, trust, threshold (`cbp/transparency.py`, `trust.py`, `threshold.py`) | append-only files, keys with windows | open, append, resolve, verify, sign, combine | several processes |
| bills (`cbp/bills_agent.py`, `bills.py`, `intake.py`) | drafts, bills, rules in one state file | intake, accept, rules, marks, calendar | a store child |
| ontology (`contracts/ontology.py`, `cbp/ontology_*.py`) | log of assertions, index, closure cache, versions | assert, index, verify, close, discover, publish | several processes |
| hold-out (`cbp/holdout.py`) | suite, lock, ledger of verdicts | load, verify, probe, decide, append | operator edits the files; other validators |
| critical path (`cbp/critical_path.py`, `control_plane/critical_path.py`) | none | analyse | pure |
| Manager (`control_plane/manager.py`) | envelope clock, run counter, workers | run, mediate tools, cancel, verify | trajectory store, sessions |
| execution (`control_plane/execution.py`, `worker.py`) | generator or child process and its pipes | start, send, receive, cancel, close | child process by JSON lines |
| trajectories (`control_plane/trajectory_store.py`, `summary.py`, `replay.py`) | JSON-lines files | begin, append, outcome; summarise; compare | Manager |
| bills registry (`control_plane/bills_registry.py`, `intake.py`) | one JSON file | tools of tasks, verifier | overlapping tasks |

The behaviours that are hard: messages sent again and handled late; correlation
ids reused; answers of several children in any order; grants and bindings that
fail half way; threads without a lock; producers suspended inside a fan-out;
several processes on one file with stale snapshots and counters; crashes between
an effect and its record; replays of records that several processes wrote; files
that change under a reader. `PROJECT.json` lists them, each at its line, under
"hazards".

## Modules

Definitions keep the names of the code. An operator whose comment begins with
"Mutant:" is a plausible mistake in the definition that follows it; it is not part
of the model, and `PROJECT.json` says which property notices it. The theorems
about a module `M` are in `MProofs`; those about the parts of a composition `MCM`
are together in the `MProofs` that extends it. A module whose name begins with `MC` gives
the constants of others their values. Most of them hold several parts: each part
is a component with its own variables, a behaviour of the module is a behaviour of
one part while the variables of the others stay at a dummy value, and a property
named after what the parts have in common is a conjunction or a case over them.

### Agent, driver and hosts

`CbpAgent`: one agent with its registry, envelope guard, stores, result cache and
children. A handled directive is one step, because an agent takes one directive
per poll and handles it to the end on its one thread. The parent may send
anything: any kind, repeated, with a reused correlation id. A child is seen from
the agent: it answers the runs forwarded to it in order with any answer a run can
have, or its poll raises and the run is lost. A fingerprint is the directive
itself. `_run_task` is split by its outcomes, `_configure` by where it stops,
each keeping what was already applied.

`CbpDriver`: `_roundtrip` and `_poll_tree_bounded` over a root and store children,
message by message: `Send` on every attempt, one poll of each child, one of the
root, the drain, then `Match`, `Retry` or `GiveUp`. inproc delivers at once; over
tcp a ROUTER drops what it cannot route yet (`Link`), and a poll window may close
before a message arrives until the link has settled (`Settle`). Those two actions
and the queues are ZeroMQ, modelled from how the driver uses it.

`Session` (with `Orchestrate`, from an artifact to the steps of a plan): what a
driver records and replays. A directive is recorded before it is sent and its
outcome after the answer; the answer may be lost, the process may end in between,
and a second process opens the same durable ledger with its counter at 0.
`replay_ledger` and `replay_session` issue the rows to a fresh tree whose stores
are elsewhere, through the same handlers as the live session. `run_plan` is a
sequence of recorded directives that stops at the first failure.

`DriverHost`: threads in `submit`, `start` and `close`, and the workers they
create, one step for each read or write of a shared attribute: the host holds no
lock. `WebServer`: one request after another, each a list of effects on memory
and files; between two effects the process may die, be interrupted or meet a
storage error; a streamed reply comes from a worker thread through a queue of one
place, and the client may leave.

`MCDrivers` composes `Session` (instance `MCSession`) and `CbpDriver`; `MCHosts`
the two hosts.

### Networks and components

`Stream`: the whole of `run_stream` and `_Emitter`. One step is an activation, or
one `step()` of one emitter in a sweep. A suspended emitter keeps its element and
the connections it has still to go to, as the code does. `Network`: validation of
documents, composites and their flattening, types, order, and one run of
`run_network` over `flow.py`, as operators. `Work` extends it: owners compile
recipes, pass or fail the gates of a load, bind names in one shared catalog, and
run networks component by component next to booted trees; a binding may fail half
way, and a file of the cache may decay: a bundle is overwritten, another file
removed, since to every reader both are the same. `Supply`: a lock is pinned, its
sources, cache and state files change, and a process boots it: resolution through
the cache, the depth-first walk over references, entries, answers that write state. `Provider`: a reconcile observes,
plans, applies step by step, checks health, rolls back and escalates; each call's
evidence is appended after the call; drift and a crash may come between any two
steps. The steps of a plan go in the order of the resources' names.
`CriticalPath`: `analyse_cpm` and `analyse_critical_path` as functions over
networks and plans, with durations that round to `Bits` significant bits.
`MCComponents` composes `Stream`, `Work`, `Supply`, `Provider` and `CriticalPath`,
over the networks of `MCStream`, `MCWork` and `MCCriticalPath`.

### Evidence and records

`SqlStores`: review queue, directive ledger and chat history as connections to
one file, with snapshots, the write lock, counters read at open, and a
transaction that stays open after an error. `ReviewQueue` is the abstract queue:
one entry per content; a resolution is one of (item, resolution, resolver), each
entered once, so an item may be resolved differently by several reviewers and the
queue keeps them all (`cbp/review.py:167`). `SqlStores` implements it under a
refinement mapping. `Release`: keys that rotate, signatures, the hash-chained log
whose append reads and writes in two steps, damage to the file, the check against
a pinned head. `ThresholdSig`: shares, bundles and their acceptance. `Bills` (with
`Intake`): two processes over one state file, key by key, with restarts. Nothing
keeps a draft from having the id `__rules`, under which the rules are stored: its
bill replaces them, and they it; the run has such a source.
`Registry`: the legacy tools over one JSON file that is truncated and written.
`MCStores` composes these five.

`Ontology`: hierarchies, additive versions, projection, rules and closures as
operators. `OntologyStore` extends it with the log, the index and the closure
cache under concurrent processes, torn writes and new versions. A line is an
assertion, torn or garbled: a write that stops half way leaves part of its line,
or the whole line without its newline (`open`), and the line appended next joins
what is there. Building, verifying and closing read the log twice, as the code
does. `Holdout`:
validators with a suite, a lock, pinned deployments and a shared ledger, while an
operator edits the files. A deployment names its trust inline or as a trust store,
a file of its own that no digest covers and that preflight and every run read
again. What is written behind a ledger line without its newline joins that line
and is lost with it; the record after it is whole again. A failed write leaves
nothing, a part of its line, the line without its newline, or all of it. That
Python may still write the rest of a failed write when the file is closed is left
out. `MCRecords` composes them.

### Legacy control plane

`Manager`: `AgentManager.run` with the file trajectory store. `pc` follows
`_run_single`, `_run_pipeline` and `_run_parallel`; `wpc` follows `_execute_agent`
for each branch. An agent is what `next_step` may answer, a verifier what it may
say, a deadline may have passed at any check. Every write takes a fault: none,
refused, or an error of the operating system that leaves nothing, half a line, or
the whole line behind. The handlers differ by place and the model keeps them
apart. A crash restarts the process with `_run_seq` at 0 over the files that are
there. `Execution`: both kinds of session and the child process, exchanging lines
over pipes; deadline and grace periods pass at any time; the agent may yield,
return, raise, print, hang or die. When the start message cannot be encoded or the
child is gone, the constructor raises (`unborn`), and a child that is alive then
waits for its start for ever. `Trajectories`: two recorded runs of a task, line by
line, then the summary and the replay verdict. A run may end before any branch
(an agent that does not resolve), and a pipeline between two stages: the output of
one does not fit the schemas it is handed on under, or the next agent does not
resolve. `MCManager` composes the three, over the tasks of `MCTrajectories`.

In `Manager`, `record_outcome` is one step, as if check and write could not be
parted. The code takes no lock there (`control_plane/trajectory_store.py:265`), but
two branches meet in it only after `append_step` has raised a
`TrajectoryStoreError`, and the file store raises none there, only `OSError`. A
check that two workers have passed before either writes is therefore not modelled,
and no property speaks of it.

## Runs

| run | bounds | shows |
|---|---|---|
| `agent` | 4 directives, 2 correlation ids, a task with two payloads, 2 children, 1 key, 6 grants | idempotent runs, envelope, records that say what happened, verified relays, ends of delegations |
| `session` | two processes with 3 rows and 1 row, 7 directives, 4 artifacts, 1 lost answer, 1 kept callable; below it a root, 2 children, 2 files, 3 calls over inproc or 2 over tcp, 2 attempts | a replay of what was answered repeats it, leaves live stores alone; answers are in the ledger; a plan's verdict is its steps'; re-sending is enough over inproc and brings back no older write |
| `hosts` | 2 threads with 2 calls each; 3 requests, 1 storage failure, 2 stops, replies of 0 to 2 chunks | each command and each chunk is handed on once; acknowledged state is on disk and is shown after a restart; calls return |
| `components` | 6 streamed networks; 2 owners with 4 loads and 7 networks, a booted tree with 3, 2 runs, 1 fault; a lock over 6 bundles, 1 edit, 2 writes; 2 resources, 2 digests, 2 reconciles, 1 drift, 1 crash; all networks of three activities, many of four | packets conserved, no false deadlock without joins, only gated and pinned code runs, verdicts about the whole network, converged means converged, evidence lags by one call, critical paths are longest chains, every run ends |
| `stores` | 2 processes, an item with 2 resolutions, 3 ledger contents, 3 commits; 3 log entries, 2 keys, 1 damage; 2 locks, 3 keys, threshold 2; 2 writes over 3 sources; 3 tasks over 11 payloads | the queue implements `ReviewQueue`; a pinned head pins its history; quorum; no bill that nobody let in, and complete calendars (`BillsHold`); the legacy registry holds what was accepted (`RegistryHolds`) |
| `records` | 2 validators, 2 files, 1 trust store of real keys, 1 edit, 1 failed write, 2 repetitions; again over 1 file with 2 failed writes and 2 validators run anew; 2 processes on one log, 4 versions, 2 torn writes | no assertion twice and at most two lost for a torn write; verified rows and cached closures are the log's; verdicts are unique, at most one is lost for a failed write, green is earned and runs are pinned, their trust only as far as the code pins it |
| `manager` | 9 tasks, 2 failing writes, 2 runs with a crash between or within; 3 sends and 1 noise line to an agent of each backend; 245 pairs of recorded runs of one to three branches | results complete and whole, outcomes agree with the file, sessions reaped, budgets, records kept, replays and summaries read what was recorded, runs end |
| `agent_state_replay` | as `agent` | violation: a repeated write reverts a later one |
| `host_close` | 2 threads, 2 calls each | violation: a submit that races close never returns |
| `session_order` | as `session`, 2 kept callables | violation: a second process's directives replay before the first one's |
| `summary_counts` | the tasks of `manager`'s recorded runs | violation: a failing tool call is not counted as failed |
| `cpm_rounding` | durations up to 4, 2 significant bits | violation: a project without a critical path |

Why the bounds are enough. Four directives are grant, work, re-grant and repeat,
the longest chain any of the agent's properties needs; two ids and two payloads
make reuse of an id possible; an envelope of one step and one child is exhausted
and exceeded. Two attempts stand for the driver's five: a property that needs more
attempts than copies left by an earlier call is met with two. Two threads with two
calls each reach every order of start, submit and close. Two processes are the
fewest that meet in a file, and a third one adds no kind of interleaving to
operations that each read once and write once. Three contents let a burnt number
be used late; one damage or crash each may fall at any moment, and two torn writes
meet each other. Of the hold-out ledger, two failed writes and two validators run
anew are enough for a retry to join an unended line and for a whole line behind it.
A walk over three components has a shared reference and a cycle.
The networks of `components` hold a fan-out with different capacities, a join
behind a filter, a join of unequal streams, two edges into one port, a clash of
types, a cycle, nested composites, a child, an unbound name, and exhausted
budgets. The first of two reconciles leaves a healthy state behind and the second
rolls back to it; between its two states one resource is created and one updated.
The tasks of `manager` are each kind of composition with two branches, an unknown
agent in each place where the code looks for one, a granted and an ungranted tool
and each policy; one hands over from a group to an agent with a smaller limit; two
failing writes let a failure meet the handler of another. Two
bits are the fewest for which a sum of small durations rounds as one of floats
does at 53.

### Disagreements found

With a run:

- `cbp/store.py:173` compares a write with the row's last writer only, so the
  promise "applied once per (key, fingerprint)" fails when another write came
  between (`AppliedOncePerFingerprint`).
- `cbp/driverhost.py:199`: a submit that races `close` waits forever
  (`SubmitReturns`).
- `cbp/driver.py:664`: `replay_session` sorts by numbers that restart in every
  process, so the directives of two processes do not replay "in issue order"
  (`ReplaysInIssueOrder`).
- `control_plane/summary.py:236`: a failing tool call is recorded under another
  text than the one looked for, and counts as no execution, or as a success of a
  later call (`SummaryCountsExecutions`).
- `cbp/critical_path.py:156`: `slack == 0` of sums of floats; with durations 0.1,
  0.2, 0.3 no activity is critical (`EveryProjectHasACriticalPath`).

Met while modelling, kept in the models as the code has them, without a run of
their own:

- `cbp/agent.py:861` suppresses the write-once conflict, so a verified retry after
  an error is not in the trajectory; `RecordsTruthful` therefore asks only that
  what is recorded is true.
- `cbp/driver.py:347`: copies are handled after the call's outcome was reported;
  errors and store writes are not cached. `TripsBounded` speaks of values of
  tasks, `WritesMoveOn` of the order of writes. That a write is replaced by a
  later call's only holds over inproc; over tcp, when three calls grant one file
  to two children in turn, a copy left with one child is stored after a later
  write of the other. `WritesMoveOn` asks it over tcp of calls to one child.
- `cbp/driver.py:598`: a replay asks the verifier as it is now; a child's configure with
  an envelope raises `TypeError` on replay (683-685 against 827), and a task that
  was registered and never configured replays as failed (674-675).
  `FaithfulReplay` is about sessions without these.
- `cbp/stream.py:325`: a partial fan-out counts as no progress, so a network with
  a join can be failed as deadlocked while a component is ready; `NoJoinNoDeadlock`
  is about networks without joins.
- `cbp/transparency.py:168`: two appenders chain to one head, and the log does not
  verify again. The model remembers it in `raced`; `ReleaseTrustHolds` asks that
  what was pinned before stays pinned and that other logs verify.
- `cbp/ontology_store.py:121` appends behind whatever the file ends with. A line
  without its newline and the next one become one line that is no JSON: an
  acknowledged assertion is lost with it, and so may be the one the torn line
  held. `LogKeepsFacts` therefore asks what a torn write may cost, and not that it
  costs nothing.
- `cbp/bills_agent.py:290`: a bill that was paid and is accepted again is due again.
- `cbp/bills_agent.py:298`: a draft with the id `__rules` is accepted like any other
  and replaces the stored rules. `BillsHold` holds nevertheless: a value that is no
  list is no rule, and the rules in memory stay.
- `cbp/holdout.py:425` writes behind whatever the ledger ends with. "An acknowledged
  record is durable", says the docstring of `append_record`; the first record
  acknowledged after a failed write may be lost on the unended line, and so may one
  that was whole but for its newline and was acknowledged as already there. `VerdictsHold`
  asks that a failed write costs at most one acknowledged record.
- `cbp/holdout.py:852` loads the deployment again for every run, and with it the trust
  store it names, which the pinned digest does not cover and whose algorithms only
  preflight compares with what an authoritative run allows. A store edited after
  preflight lets a run of an enforced evaluation count under `offline-test` trust.
  `VerdictsHold` asks that this happens only so: the descriptor that ran is the
  pinned one, preflight saw no offline trust, and the descriptor names a store that
  has changed since.
- `control_plane/manager.py:877`: the cancel event is set only when a worker
  raised, so the siblings of a failed branch run on. `manager.py:1457` turns only
  `TrajectoryStoreError` into a failure, and the file store raises `OSError`, so
  `run` may raise; `OutcomeAgrees` is about runs that return.
- `control_plane/replay.py:159` pairs a request with the next result of its tool,
  whoever asked, or with the next step described as "model call failed", whatever
  tool was asked for (165): a replay of a parallel group may diverge whose branches
  share a failing tool, or where one fails a call and another gives up on one.
  `SameRunPasses` leaves such groups out.
- `control_plane/summary.py:132` tells the last stage that began by how the run ended.
  A stage the verifier accepted is "failed" when its output is refused at the
  hand-off (`manager.py:1005`) or the next stage's agent is unknown (537).
  `StagesTold` asks for "completed" exactly where a stage was accepted and handed on.
- `control_plane/execution.py:339`: a constructor that raises leaves its child behind;
  nobody has a session to close. `ClosedIsReaped` is about sessions that were opened.
- `control_plane/execution.py:455` records "completed" for every child that is
  already gone at `close`, a crashed one included; line 332 says "produced a
  result and exited". `ClosedIsReaped` asks that the child is gone and
  that "forced" means it was signalled.

### Fairness

`agent`: weak fairness of each child's step, since every poll of the tree polls
the children before the root (`cbp/driver.py:384`). `hosts`: the operating system
schedules every thread and a command ends (a round trip has a bounded number of
attempts); the server's one thread goes on with the request it serves, unless the
process dies. `components`: the one thread of the streaming engine, of a run over
bound work, of a boot and of a reconcile goes on; nothing is assumed of drift,
crashes or answers. `manager`: the threads are scheduled and `next_step`, tools
and verifiers return; of a session, that the caller's thread and the clock go on,
and nothing of the child, whose read has a deadline (`execution.py:384`). An agent
in the Manager's own process that never yields is outside the promise. `session`,
`stores` and `records` check safety only and assume none.

### Refinement

`stores` checks `Queue!Spec`, the abstract review queue, under the mapping in
`SqlStores`, and `QueueImplemented` proves it: an abstract item is the hash of a
committed row of the items table, a resolution one of the resolutions table, and
what a process was told is the same variable on both sides. Opening, stale
snapshots, lock conflicts, burnt numbers, failed inserts and a transaction left
open map to stutters; the commit is the abstract step. A part other than `sql`
maps to an empty queue.

## Proofs

`MProofs` extends the component's module `M`, and its theorems hold for every value
of the constants that meets `M`'s named assumptions: any number of processes,
threads, branches, failures and torn writes, any networks, tasks and directives;
the bounds of the runs are such constants, too. The assumptions say of the inputs
what the code's types and checks do, and TLC evaluates them in the runs. A theorem
marked * states a property that a run checks under the same name.

`CbpAgentProofs`, under `ConstantsOK` and `NoneIsNoData` (what payloads, grants and
catalogs are; the mark of nothing is none of them):

- `TypeCorrect`*: `Spec => []TypeOK`.
- `IdempotentRuns`*: `OneVerifiedAnswer`. The property speaks of answers sent; it
  is inductive only together with `CacheInv` (a used id has exactly one cached
  fingerprint) and `AnswersCached` (a verified answer is still in the cache),
  since a new answer is compared with the cache and not with old answers.
- `EnvelopeEnforced`*: `EnvelopeBoundsWork`, from `GuardAccounts`: the guard has
  counted at least the work done and never more than it allows. A failed spawn
  counts without a birth, so the two are not equal.
- `DelegationsKept`*: `DelegationAccounted`, from the type invariant and what
  `Head`, `Tail` and `Append` do to the queue of a child.
- `RecordsAreTruthful`*: `RecordsTruthful`; each row of the trajectory is traced
  to the answer that wrote it.
- `RelaysAreVerified`*: the action property `RelayedOnlyIfAccepted`.

`HostsProofs`, under `HostConstants` (finitely many threads; the marks are no
threads) and the web server's `ConstantsOK`:

- `CommandsInOnePlace`*: `CommandsHold`. The property counts; `InOnePlace` says
  for one thread that its command is in the queue at one position, or held by one
  worker, or answered, and is what every step keeps. The host takes no lock, and
  the proof needs none: a step of the queue moves one entry.
- `ReplyStreamedOnce`*: `StreamedOnce`. `StreamFollows` lays the reply out: what
  the client has, the chunk in the handler's hand, the one in the queue of one
  place, what the worker has yet to put, one behind the other.
- `DiskHoldsState`*: `DiskKeepsState`, for every kill, interrupt and failed write.
  A handler is a list of effects between any two of which the process may end, so
  the invariant is about what is left of the list: an acknowledgement stands right
  behind its save, or the save is on disk (`AckAfterSave`); no file is ahead of the
  memory, and none behind what was acknowledged (`Versions`); and as long as no
  write failed the two are equal (`Agree`).

`DriversProofs`, under `SessionConstants` (the shape of directives; a replay's
stores are in a directory of its own) and `DriverConstants` (the children
polled in a sweep are different ones; a call is sent at least twice, five times in
the code):

- `AnswersStayRecorded`*: `AnsweredIsRecorded`, from `LedgerInv`: the ids of a process
  are numbered up to its counter, no two rows share one, and the row that waits for
  its outcome is the last one of both ledgers.
- `PlansAreTheirSteps`*: `PlanVerdict`, from `PlanInv`: while a plan runs, the
  steps before the next one are done, and nothing else was issued since it began.
- `ReplaysAreIsolated`*: the action property `ReplayTouchesNothing`, from
  `ReplayInv`: no agent of the tree a replay builds has a live store.
- `RoundTripsBounded`*: `TripsBounded`. What is under way over inproc is told
  message by message (`Inproc`): which copy of the call each queue may hold at each
  point of a sweep, so that the second attempt always finds the way clear.
  `ValuesCached` says that a value reported, or on its way, is the one the agent
  that ran it keeps.
- `StoresMoveOn`*: the action property `WritesMoveOn`, from `InOrder`: what
  waits anywhere on the way to one child is in the order of the calls, and none of
  it is older than what that child has written.

`StreamProofs`, under `NetworksOK` (what validation and ordering guarantee of a
network: numbered edges that lead from earlier to later components, capacities of
at least 1, answers on declared ports):

- `PacketsAreConsumed`*: `PacketsConsumed`. `PacketsConserved` says where each
  packet is; that "ok" means all were consumed needs `Counted` (a component ran
  once for each packet of each of its connections) and `AtEnd` (what the loop
  leaves behind).
- `TreesNeverDeadlock`*: `NoJoinNoDeadlock`. `InSweep` says that the producers
  found blocked in a sweep come before those still to step, and that a connection
  of the latter that holds a packet leads to a producer; so the last one is never
  blocked.

`ManagerProofs`, under `ManagerConstants` and `NoneIsNothing`:

- `StoreIsAppendOnly`*: the action property `RecordsKept`.
- `ResultsAreEarned`*: `ResultsHold`. Results depend on how a run got there, so the
  invariant follows it: as long as no failure is known the file is the steps in
  memory (`Clean`), and a branch whose write failed cannot end without a failure
  (`Doomed`, in `BranchesInv`); `EarlierAccepted` keeps the verdicts of the stages
  that are over.
- `SessionsAreReleased`*: `SessionsHold`, with `ExecutionConstants`. Of the Manager
  (`LimitInv`): an open session is one its branch is still in the loop with, unless the
  store refused a record or a verifier raised (`OpenInv`); a branch asks its agent
  only below its limit and is never more than one past it (`UsageInv`); the records
  of a composition and those still to come of the branches past the check
  (`Pending`, at most two each) fit its budget together, and once it is used up a
  branch has met the check or stopped (`BudgetInv`). The proof corrected the property: the count of a branch was once
  bounded by the limit of the current stage, which is false between two stages.
  Of a session (`SessionInv`): what is in the pipe to a child that can still read
  is its start line, the values it has not taken, in order, and the request to
  close (`Waits`); the queue back holds at most one answer, and only to the value
  sent last (`AnswerInv`), whatever else the agent prints. That is why items need
  no number of their own.

`StoresProofs`, under `ConstantsOK` and `SharedFiles`, which says of the log, the
bundles and the bills that publishers, holders, rules and the clock are what they
should be:

- `StoresKeepRows`*: `RowsHold`, from `CountersAhead`: a row that was written
  stays, and the counter of an open connection is past its process's rows.
- `QueueImplemented`*: `ImplementsReviewQueue`, the refinement above. Every step
  maps to one of `ReviewQueue` or to a stutter; this needs
  `SnapshotsGrow` (what a stale connection saw is still there) and `ResolvesKnown`
  (who is about to resolve an item saw it queued).
- `ReleasesAreTrusted`*: `ReleaseTrustHolds`. An entry holds its predecessor, so a
  head has one history; `ReleaseInv` says that every head is an entry that was made
  and every line garbage or such an entry, perhaps with another lock, and that while publishers take turns and nothing is damaged the
  entry in flight fits the log (`InTurn`). The history is a recursive function,
  whose equations are proved from a least counterexample. `QuorumInv` counts the
  eligible holders behind an accepted bundle.
- `BillsAreLetIn`*: `BillsHold`. `BillsInv` traces each bill of the state file and
  each one a process is about to write to a draft and to whoever or whatever let it
  in; a rule is one that matched and was stored when it did, and what lies under the
  key of the rules is a list of rules or a bill that was let in like any other. A calendar that is
  read key by key has seen every bill of its window that nobody wrote meanwhile
  and that it does not still have to read.

`RecordsProofs`, under `LinesOK` (the marks of unreadable lines are no
assertions) and `HoldoutConstants`:

- `LogKeeps`*: `LogKeepsFacts`. `Costs` makes the bound inductive: a line without
  its newline may still cost itself and the next, which its torn write pays for in
  advance. An earlier form, that no two lines are equal, held with one torn write
  and is false with two, which leave two equal lines that cannot be read.
- `VerifiedIsLog`*: `VerifiedRowsAreLogs`, from `Reads`: both readings of the log
  are in it as long as it can be read.
- `CacheIsRight`: `CachedClosureIsRight`, the part of the runs' `CachedClosure` that
  is about the cache; what a closure is stays with TLC.
- `VerdictsAreDeserved`*: `VerdictsHold`, for any threshold. `LocalOf` says of each
  validator what it holds at each point of an evaluation while others edit the
  files: scenarios it loaded, trust it checked, a document that says what its runs
  decide; `LedgerOf` that no record is in the shared ledger twice, `LedgerCosts` that the
  acknowledged records missing from it, with the one an unended line may still
  cost, are no more than the failed writes. `CountedRunsArePinned` follows the last
  step: the run that counted had the pinned descriptor, and its trust was the one
  preflight checked unless the descriptor names a store that was edited.

`ProviderProofs`, under the hypothesis `ConstantsOK` of each theorem, which
`MCComponents` assumes of its instance:

- `ConvergedMeansDesired`: `ConvergedIsDesired` and `UnapprovedOnlyRollsBack`, the
  runs' `ConvergedIsDesired` of `MCComponents`. `Reached` says that the world is as
  desired except for the steps still to be sent or not known to have succeeded,
  and `Backed` that a plan applied without approval needs none or leads back.
- `EvidenceIsKept`: `EvidenceLagsByOne`, the provider's part of `NothingForgotten`.
  `Evidence` does not count the call in flight, so a crash turns it into the one
  that is lost.

Only model-checked, because the prover cannot reach it:

- liveness under fairness (`DelegationEnds`, `CallsReturn`, `EveryRunEnds`,
  `EveryRunReturns`): `ENABLED`;
- what modules with RECURSIVE operators compute: `Network` and what extends it,
  `Work` and `MCComponents` (`OnlyPinnedCode`, `VerdictsWhole`, `LastEdgeArrives`,
  and the parts of `ConvergedIsDesired` and `NothingForgotten` that are not the
  provider's). The theorems about `Stream` and `Provider`, which it composes, are
  stated of those modules;
- what a recursive definition or a fold computes for every input, an induction over
  data: closures (`ClosureIsSupported`, `ClosureKeepsAnswers`, and with them the
  rest of `CachedClosure`), the passes of `CriticalPath` (`ChainSpansProject`), the
  walks of `Supply`, the accepted ids of the legacy registry (`RegistryHolds`), and
  the bags and pairings that a replay and a summary compute from interleaved
  records (`ReadAsRecorded`).

Only model-checked so far: `FaithfulReplay`, which needs a simulation of the live
tree by the replayed one.

## Not modelled

Sockets, the CURVE handshake, JSON, SQLite's own commit, git, archives, gpg and
minisign are libraries or I/O; their failures are outcomes of the actions that
use them. Tasks, tools, agents and verifiers are what they may return.
Formatting, HTML, command lines, prompts and text extraction have no state that
a property here is about. Whole components left out:

- the model agent and its records: calls of an external model, with a dictionary
  of recorded answers by fingerprint;
- experts, provisioning and the import adapters: validation of one document each;
- `cbp/acp.py` and `mcp.py`: requests parsed and handed to threads over
  `DriverHost`; `settlement.py` and `training_plan.py`: a check of one document
  and a document;
- of the supply chain, the catalog's listing and archive formats; of the
  ontology, the RDF text; of the provider, the local file layout;
- of summaries, the model, policy and accounting figures; of `Trajectories`, groups
  inside pipelines and policy records (`Manager` runs both);
- `InMemoryTrajectoryStore`, which keeps what the file store does in a dictionary
  that neither tears nor outlives the process.

A float is modelled by rounding to `Bits` significant bits, not by IEEE 754.
`PROJECT.json` gives for each component what is left out and why.

## Plan

1. `FaithfulReplay`: a simulation relation between the live tree and the one a
   replay builds, kept by every pair of answered directives.
2. `Network` without RECURSIVE operators, as `Intake` is now, to bring the work
   items and `OnlyPinnedCode` within reach.
3. `Trajectories`: that the interleavings of one group have one bag of records,
   once the bag is a variable of its own.

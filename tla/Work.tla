--------------------------------- MODULE Work ---------------------------------
(* Work items on a driver, of contracts/work.py, cbp/work_runtime.py and         *)
(* cbp/work_boot.py, next to trees booted from a lock (cbp/boot_network.py):     *)
(* owners compile recipes, bind the tasks of pinned bundles to the names of one  *)
(* driver's catalog, and run component networks over them, one component at a    *)
(* time.  A digest is the content it is the digest of.                           *)
EXTENDS Network

CONSTANTS Owners,       \* those who bind tasks, each with
          Declared,     \*   the tasks it declares,
          Specs,        \*   the loads it binds, in order,
          Trusted,      \*   the key its loads must be signed with, or None,
          Allowlist,    \*   the entries it may execute in process,
          Subprocess,   \*   whether it may execute others in a process,
          Plans,        \*   and the network documents it may run
          Trees,        \* the booted trees: component id -> entry, with the documents run over them
          Recipes,      \* the work recipes that are compiled
          Answers,      \* per task: what the code under that name may answer
          Limit,        \* step_limit
          MaxRuns, MaxFaults  \* bounds: runs started, faults injected

VARIABLES
  disk,      \* the content-addressed cache: digest -> the bytes on disk
  catalog,   \* the driver's catalog and root registry: task -> code
  binder,    \* per owner: its binder's bound tasks, and how far bind_work_tasks is
  run,       \* the network run, or None
  runs, faults
vars == <<disk, catalog, binder, run, runs, faults>>

-----------------------------------------------------------------------------
(* Recipes and their compilation *)

Hex == {"d1", "d2"}      \* what _SHA256_RE and _COMMIT_RE match
SourceOk(s) == s.url # "" /\ {s.commit, s.digest} \subseteq Hex /\ s.kind \in {"git", "directory", "binary"}
GeneratorOk(g) == g.ref # "" /\ g.digest \in Hex /\ g.prompt # "" /\ g.seed >= 0
BuildOk(b) == b.language # "" /\ b.runtime \in {"python", "process"} /\ IsInjective(b.toolchain)
VerifierOk(v) == v.ref # "" /\ v.digest \in Hex
EnvelopeOk(e) ==
  /\ e.timeout > 0 /\ e.steps > 0 /\ e.step_seconds >= 0
  /\ e.step_seconds <= e.timeout
RecipeOk(r) ==
  /\ (r.source = None) # (r.generator = None)
  /\ r.source # None => SourceOk(r.source)
  /\ r.generator # None => GeneratorOk(r.generator)
  /\ BuildOk(r.build) /\ VerifierOk(r.verifier) /\ EnvelopeOk(r.envelope)
  /\ r.id # "" /\ IsInjective(r.grants)

Origin(r) == IF r.generator # None THEN "generate" ELSE "obtain"
Provenance(r) == IF r.source = None THEN None ELSE <<r.source.url, r.source.commit, r.source.digest>>
CompileWork(r) ==
  [kind |-> "compilation", name |-> r.id, entry |-> <<r.build.runtime, r.id>>,
   origin |-> Origin(r), capabilities |-> Range(r.grants), provenance |-> Provenance(r),
   assurance |-> "A0"]

Running == run # None /\ run.status = "running"
Idle == ~Running
\* The verdict of the last run has been read.
Forget == Idle /\ run' = None

-----------------------------------------------------------------------------
(* The artifact cache *)

Get(digest) == IF digest \notin DOMAIN disk THEN None
               ELSE IF disk[digest] # digest THEN Refused ELSE disk[digest]
Materialize(r) ==
  /\ Forget
  /\ RecipeOk(r) /\ Get(CompileWork(r)) # CompileWork(r)
  /\ disk' = Overlay(disk, [d \in {CompileWork(r)} |-> d])
  /\ UNCHANGED <<catalog, binder, runs, faults>>

\* A file of the cache is removed, or overwritten with bytes that are no artifact: to every
\* reader the same, so that one of them is enough for each kind of file.
Decay(d) ==
  /\ Forget
  /\ faults < MaxFaults /\ faults' = faults + 1
  /\ disk[d] = d
  /\ disk' = IF d.kind = "bundle" THEN [disk EXCEPT ![d] = Refused] ELSE Restrict(disk, DOMAIN disk \ {d})
  /\ UNCHANGED <<catalog, binder, runs>>

-----------------------------------------------------------------------------
(* Binding *)

\* TaskLoad.from_dict and admit_task_load: a declared task, pinned, over the control channel.
AdmitUnpinned(o, s) == s.task \in Declared[o] /\ s.channel = "control" /\ ~s.edges
Admit(o, s) == /\ s.task \in Declared[o] /\ s.channel = "control" /\ ~s.edges
               /\ s.hash = s.expected

SignedFor(o, s) == Trusted[o] = None \/ s.signature = <<Trusted[o], Get(s.hash)>>

\* The bundle's manifest must name the task, and its entry be executable.
Loads(o, s) ==
  LET b == Get(s.hash)
  IN /\ b.kind = "bundle" /\ b.name = s.task
     /\ b.entry \in Allowlist[o] \/ Subprocess[o]

Bindable(o, s) == Admit(o, s) /\ Get(s.hash) \notin {None, Refused} /\ SignedFor(o, s) /\ Loads(o, s)

\* driver.register: the name now means this code, whatever it meant before.
Register(codes) == catalog' = Overlay(catalog, codes)
Code(gate, what, who) == [gate |-> gate, what |-> what, who |-> who]

Rebind(o) ==
  /\ binder[o].pc # "binding"
  /\ binder' = [binder EXCEPT ![o] = [pc |-> "binding", next |-> 1, bound |-> <<>>]]
  /\ Forget
  /\ UNCHANGED <<disk, catalog, runs, faults>>

\* One turn of bind_work_tasks: bound, or refused, or registered by a driver whose ledger then fails.
BindNext(o, how) ==
  LET b == binder[o] s == Specs[o][b.next]
      bound == Overlay(b.bound, [t \in {s.task} |-> s.hash])
  IN /\ Forget
     /\ b.pc = "binding" /\ b.next <= Len(Specs[o])
     /\ (how = "refused") = ~Bindable(o, s)
     /\ how = "ledger fails" => faults < MaxFaults
     /\ faults' = faults + (IF how = "ledger fails" THEN 1 ELSE 0)
     /\ IF how = "refused" THEN UNCHANGED catalog
        ELSE Register([t \in {s.task} |-> Code("bind", s.hash, o)])
     /\ binder' = [binder EXCEPT ![o] =
          IF how = "bound"
          THEN [pc |-> IF b.next = Len(Specs[o]) THEN "bound" ELSE "binding", next |-> b.next + 1, bound |-> bound]
          ELSE [b EXCEPT !.pc = "raised"]]
     /\ UNCHANGED <<disk, runs>>

-----------------------------------------------------------------------------
(* Running *)

Plan == [o \in Owners |-> [i \in DOMAIN Plans[o] |-> Reading(Plans[o][i], Limit)]]
TreePlan == [k \in DOMAIN Trees |-> [i \in DOMAIN Trees[k].plans |-> Reading(Trees[k].plans[i], Limit)]]

\* A document the reader refuses never reaches a run, a streaming one is module Stream's.
Start(doc, mode, by) ==
  /\ Idle /\ runs < MaxRuns /\ runs' = runs + 1
  /\ doc # Refused /\ doc.mode # "stream"
  /\ run' = NewRun(doc, mode, by)
Refuse(doc, by) == Start([doc EXCEPT !.accepted = FALSE], doc.mode, by)

Local(n) == {id \in DOMAIN n.comps : n.comps[id].child = None}
TasksOf(n, ids) == {n.comps[id].task : id \in ids}

RunUnbound(o, doc) ==
  /\ binder[o].pc = "bound" /\ doc # Refused
  /\ Start(doc, doc.mode, o)
  /\ UNCHANGED <<disk, catalog, binder, faults>>
\* run_bound_work_network, with the binder that bind_work_tasks returned.
RunBound(o, doc) ==
  /\ binder[o].pc = "bound" /\ doc # Refused
  /\ IF TasksOf(doc.net, Local(doc.net)) \subseteq DOMAIN binder[o].bound
     THEN Start(doc, doc.mode, o) ELSE Refuse(doc, o)
  /\ UNCHANGED <<disk, catalog, binder, faults>>

\* run_booted_network: components are registered up to the first that is not in the lock.
RunBooted(k, doc) ==
  LET entries == Trees[k].entries
      missing == Local(doc.net) \ DOMAIN entries
      known == {id \in Local(doc.net) : \A m \in missing : id < m}
      entryOf(task) == entries[Max({id \in known : doc.net.comps[id].task = task})]
  IN /\ Idle /\ runs < MaxRuns /\ doc # Refused
     /\ IF missing = {} THEN Start(doc, doc.mode, k) ELSE Refuse(doc, k)
     /\ Register([task \in TasksOf(doc.net, known) |-> Code("boot", entryOf(task), k)])
     /\ UNCHANGED <<disk, binder, faults>>

\* The plan a network compiles to, run by run_plan over whatever is registered.
RunPlan(o, doc) ==
  /\ doc # Refused /\ Start(doc, "plan", o)
  /\ UNCHANGED <<disk, catalog, binder, faults>>

\* driver.run of the next component: its code answers, or there is nothing to run, or it raises.
Step(v, verified) ==
  LET c == run.net.comps[Next1(run)]
      here == c.child # None \/ c.task \in DOMAIN catalog
  IN /\ Running /\ <<v, verified>> \in Answers[c.task]
     /\ verified => here
     /\ run' = IF Starved(run) THEN Fail(run, "starved")
               ELSE Answered(run, [id |-> c.id, args |-> ArgsOf(run), value |-> v, verified |-> verified])
     /\ UNCHANGED <<disk, catalog, binder, runs, faults>>
Advance == \E task \in DOMAIN Answers : \E a \in Answers[task] :
  Running /\ run.net.comps[Next1(run)].task = task /\ Step(a[1], a[2])
Raise ==
  /\ Running /\ ~Starved(run) /\ run.mode # "plan"
  /\ faults < MaxFaults /\ faults' = faults + 1
  /\ run' = Fail(Receive(run, Next1(run)), "raised")
  /\ UNCHANGED <<disk, catalog, binder, runs>>

Init ==
  /\ disk = [d \in {x \in {s.hash : s \in UNION {Range(Specs[o]) : o \in Owners}} :
                     x.kind = "bundle"} |-> d]
  /\ catalog = <<>>
  /\ binder = [o \in Owners |-> [pc |-> "new", next |-> 1, bound |-> <<>>]]
  /\ run = None /\ runs = 0 /\ faults = 0

Next ==
  \/ \E r \in Recipes : Materialize(r)
  \/ \E d \in DOMAIN disk : Decay(d)
  \/ \E o \in Owners :
       \/ Rebind(o)
       \/ \E how \in {"bound", "refused", "ledger fails"} : BindNext(o, how)
       \/ \E i \in DOMAIN Plans[o] : RunBound(o, Plan[o][i]) \/ RunPlan(o, Plan[o][i])
  \/ \E k \in DOMAIN Trees : \E i \in DOMAIN Trees[k].plans : RunBooted(k, TreePlan[k][i])
  \/ Advance \/ Raise
Spec == Init /\ [][Next]_vars /\ WF_vars(Advance)

-----------------------------------------------------------------------------
(* Properties *)

\* Between calls an owner's binder holds a prefix of its loads, and a run its results in order.
TypeOK ==
  /\ \A o \in Owners : binder[o].next \in 1..(Len(Specs[o]) + 1)
       /\ DOMAIN binder[o].bound = {Specs[o][i].task : i \in 1..(binder[o].next - 1)}
       /\ DOMAIN binder[o].bound \subseteq DOMAIN catalog
  /\ run # None => \A i \in DOMAIN run.results : run.results[i].id = run.order[i]

\* Whatever a task name means on the driver went through a gate for that name: a bundle of that
\* name, signed and pinned as its owner requires, or an entry of a lock -- also when binders and
\* boots overwrite each other's names, bindings fail half way and cache files decay.
GatedFor(task, code) ==
  IF code.gate = "boot" THEN code.what \in Range(Trees[code.who].entries)
  ELSE \E s \in Range(Specs[code.who]) :
         /\ s.task = task /\ s.task \in Declared[code.who]
         /\ code.what = s.expected /\ code.what.kind = "bundle" /\ code.what.name = task
         /\ Trusted[code.who] # None => s.signature = <<Trusted[code.who], code.what>>
OnlyGatedCode == \A t \in DOMAIN catalog : GatedFor(t, catalog[t])

\* A network over bound work runs only when each of its own tasks is bound by its binder, and a
\* verdict is about the whole network: "ok" means every component ran once after all its sources.
VerdictsAreWhole ==
  run # None =>
    /\ run.status = "ok" => /\ {run.results[i].id : i \in DOMAIN run.results} = DOMAIN run.net.comps
                            /\ Len(run.results) = Cardinality(DOMAIN run.net.comps)
                            /\ \A i \in DOMAIN run.results : run.results[i].verified
    /\ run.by \in Owners /\ run.mode # "plan" /\ run.results # <<>> /\ binder[run.by].pc = "bound" =>
         TasksOf(run.net, Local(run.net)) \subseteq DOMAIN binder[run.by].bound

\* A run of an accepted network never stops for want of a packet or of room for one.
NeverStarved == run # None => run.status \notin {"starved", "full"}

\* Each wired argument is what the source of the last edge into it answered, of the declared type.
ArgumentsArrive ==
  run # None /\ run.mode # "plan" =>
    \A i \in DOMAIN run.results : \A k \in LastInto(run, run.results[i].id) :
      LET r == run.results[i] e == run.net.edges[k] given == r.args[e.arg]
      IN /\ \E j \in 1..(i - 1) :
              /\ run.results[j].id = e.source
              /\ given = IF run.mode = "flow" THEN Extract(run.results[j].value, e.field)
                         ELSE run.results[j].value
         /\ run.mode = "flow" => Matches(given, TypeOf(run.net.comps[r.id], "in", e.arg))
==============================================================================

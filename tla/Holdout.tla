------------------------------- MODULE Holdout -------------------------------
(* The hold-out validator of cbp/holdout.py.  A validator process loads a       *)
(* private suite of scenario files, verifies it against a lock, probes every    *)
(* scenario RUNS times against pinned deployments, decides, and appends a       *)
(* record to a ledger that other validators append to.  The suite, the lock and *)
(* the deployments are files of an operator who may edit them at any moment; so *)
(* are the trust stores, which a deployment names and no digest covers.         *)
(* A digest is modelled by the content it is taken of.                          *)
EXTENDS Naturals, FiniteSets, Sequences, SequencesExt, FiniteSetsExt

CONSTANTS None,           \* no file, no value
          Bad,            \* a file that does not parse or validate
          Torn,           \* a line that does not parse
          Validators,     \* processes
          Files,          \* names of scenario files
          Contents,       \* what a file may hold: Bad or a scenario
          Descriptors,    \* what a deployment file may hold
          Deployments,    \* names of deployment files
          TrustFiles,     \* names of trust stores
          TrustContents,  \* what a trust store may hold: Bad or the algorithms of its windows
          Outcomes,       \* the outcomes a task of this name may have: [target -> SUBSET outcome]
          RUNS, SUPERMAJORITY,
          ThresholdNum, ThresholdDen,   \* --threshold, as a fraction
          MaxEdits, MaxCrashes, MaxRestarts   \* bounds

\* A scenario is high or normal, and a file holds one or is Bad.
Scenarios == Contents \ {Bad}
HoldoutConstants ==
  /\ IsFiniteSet(Files) /\ None \notin Contents
  /\ \A s \in Scenarios : s.priority \in {"high", "normal"} /\ s.probe \in {"task", "service"}
  /\ RUNS \in Nat /\ SUPERMAJORITY \in Nat
  /\ \A t \in TrustContents \ {Bad} : t # {}
  /\ ThresholdNum \in Nat /\ ThresholdDen \in Nat

VARIABLES
  suite,    \* scenario files: content or None
  private,  \* the suite directory is accessible to its owner only
  lock,     \* the holdout.lock: None or [scenarios, tcb]
  deploy,   \* deployment descriptors: content or None
  trust,    \* trust stores: content or None
  ledger,   \* the run ledger's lines: a record or Torn
  unended,  \* the last line of the ledger lacks its newline
  run,      \* per validator, the locals of _execute
  \* observation variables
  counted,  \* the decisive service run the last step made: what was run, under which trust, what for
  appended, \* records append_record returned True for
  edits, crashes, restarts
vars == <<suite, private, lock, deploy, trust, ledger, unended, run, counted, appended, edits, crashes, restarts>>
files == <<suite, private, lock, deploy, trust>>
lines == <<ledger, unended>>
Unobserved == counted' = {} /\ UNCHANGED <<appended, edits, crashes, restarts>>

-----------------------------------------------------------------------------
(* The decision *)

\* evaluate_scenario: runs that ended in ERROR never ran the scenario.  o counts the runs by
\* their outcome, whose order does not matter.
Total(o) == o.pass + o.fail + o.error
EvaluateLenient(priority, o) ==
  IF o.pass >= (IF priority = "high" THEN RUNS ELSE SUPERMAJORITY) THEN "pass" ELSE "fail"
EvaluateScenario(priority, o) ==
  IF o.pass + o.fail = 0 THEN "insufficient"
  ELSE IF o.pass > 0 /\ o.fail > 0 THEN "nondeterministic"
  ELSE IF priority = "high" THEN IF o.pass = RUNS /\ Total(o) = RUNS THEN "pass" ELSE "fail"
  ELSE IF o.fail = 0 /\ o.pass >= SUPERMAJORITY THEN "pass" ELSE "fail"

\* decide: no bad high-priority scenario, and enough of the normal ones.
Normals(scenarios) == {s \in scenarios : s.priority = "normal"}
Green(scenarios, verdict) ==
  LET normals == Normals(scenarios)
      passing == {s \in normals : verdict[s] = "pass"}
  IN /\ scenarios # {}
     /\ \A s \in scenarios \ normals : verdict[s] = "pass"
     /\ normals = {} \/ Cardinality(passing) * ThresholdDen >= ThresholdNum * Cardinality(normals)
Decide(scenarios, outcomes) ==
  LET verdict == [s \in scenarios |-> EvaluateScenario(s.priority, outcomes[s])]
  IN [green |-> Green(scenarios, verdict), verdict |-> verdict]

\* _verdict_document and _record_document: nothing in it depends on the clock.
RecordDocument(decided, lockNow, loaded, isolation) ==
  [green |-> decided.green, verdict |-> decided.verdict, lock |-> lockNow,
   suite |-> loaded, isolation |-> isolation]

-----------------------------------------------------------------------------
(* Suite, lock and deployments *)

\* parse_scenario and _validate_probe: None is no file, Bad one that is refused.
ParseScenario(content) == content \in Scenarios

\* load_suite: raises unless every file parses, ids are distinct and there is a scenario.
Loadable(dir) ==
  LET present == {f \in Files : dir[f] # None}
  IN /\ present # {} /\ \A f \in present : ParseScenario(dir[f])
     /\ \A f, g \in present : dir[f].id = dir[g].id => f = g
LoadSuite(dir) == {dir[f] : f \in {g \in Files : dir[g] # None}}

\* enforce_private_suite
EnforcePrivateSuite == private

\* build_lock: the TCB pins are those of the validator's own source.
BuildLock(scenarios) == [scenarios |-> scenarios, tcb |-> "current"]

\* verify_suite: schema and TCB pins, the same scenarios, the same digests, the same suite hash.
VerifySuite(scenarios, l) ==
  /\ l.tcb = "current"
  /\ {s.id : s \in l.scenarios} = {s.id : s \in scenarios}
  /\ l.scenarios = scenarios

\* _parse_trust: the trust of a descriptor is inline, or a trust store that is read NOW.
Algorithms(t) == IF t.kind = "inline" THEN {t.algorithm} ELSE trust[t.path]
ParseTrust(t) == t.kind = "inline" \/ (t.kind = "trust_store" /\ trust[t.path] \notin {None, Bad})

\* parse_deployment, _validate_observable: a descriptor that is malformed, names no trust or an
\* unsupported observable is Bad.
ParseDeployment(d) == d # Bad /\ ParseTrust(d.trust)

\* load_deployment: the descriptor has the digest the scenario pins, and parses.
LoadDeployment(name, digest) ==
  deploy[name] # None /\ deploy[name] = digest /\ ParseDeployment(deploy[name])

\* _verifier_from_spec and trust_verifier: each algorithm is one of three, with its key.
TrustVerifier(d) == Algorithms(d.trust) \subseteq {"offline-test", "minisign", "gpg"}

\* verify_deployment_available: lock, signature and composition are there.
VerifyDeploymentAvailable(d) == d.available /\ TrustVerifier(d)

\* _confined_child: a descriptor name that leaves the deployments root is refused.
ConfinedChild(name) == name \in Deployments

\* preflight
Preflight(scenarios, allowOfflineTest) ==
  \A s \in scenarios : s.probe = "service" =>
    /\ ConfinedChild(s.target) /\ LoadDeployment(s.target, s.digest)
    /\ VerifyDeploymentAvailable(deploy[s.target])
    /\ allowOfflineTest \/ "offline-test" \notin Algorithms(deploy[s.target].trust)

-----------------------------------------------------------------------------
(* Validators *)

NoRecord == [green |-> FALSE, verdict |-> <<>>, lock |-> None, suite |-> {}, isolation |-> None]
Idle == [pc |-> "idle", isolation |-> None, scenarios |-> {}, checked |-> <<>>, outcomes |-> <<>>,
         document |-> NoRecord, exit |-> None]

Init ==
  /\ suite \in [Files -> Contents \cup {None}] /\ Loadable(suite)
  /\ private = TRUE /\ lock = BuildLock(LoadSuite(suite))
  /\ deploy \in [Deployments -> Descriptors] /\ trust \in [TrustFiles -> TrustContents]
  /\ ledger = <<>> /\ unended = FALSE
  /\ run = [v \in Validators |-> Idle]
  /\ counted = {} /\ appended = {} /\ edits = 0 /\ crashes = 0 /\ restarts = 0

NoRuns == [pass |-> 0, fail |-> 0, error |-> 0]
OneMore(o, outcome) == [pass |-> o.pass + (IF outcome = "pass" THEN 1 ELSE 0),
                        fail |-> o.fail + (IF outcome = "fail" THEN 1 ELSE 0),
                        error |-> o.error + (IF outcome = "error" THEN 1 ELSE 0)]
At(v, pc) == run[v].pc = pc
Exit(v, code) == run' = [run EXCEPT ![v] = [Idle EXCEPT !.exit = code]]

\* run and the head of _execute: the context variable is set, and a privileged principal (root or
\* the docker group, principal_refusal) is refused unless this is a rehearsal.
Execute(v, validatorContext, privileged, rehearsal) ==
  /\ At(v, "idle") /\ run[v].exit = None
  /\ IF validatorContext /\ (~privileged \/ rehearsal)
     THEN run' = [run EXCEPT ![v] = [Idle EXCEPT !.pc = "load",
                    !.isolation = IF privileged \/ rehearsal THEN "rehearsal" ELSE "enforced"]]
     ELSE Exit(v, "refused")
  /\ UNCHANGED <<files, lines>> /\ Unobserved

\* The suite is loaded once, if its directory is private and the lock is there.
Load(v) ==
  /\ At(v, "load")
  /\ IF lock # None /\ EnforcePrivateSuite /\ Loadable(suite)
     THEN run' = [run EXCEPT ![v].pc = "verify", ![v].scenarios = LoadSuite(suite)]
     ELSE Exit(v, "refused")
  /\ UNCHANGED <<files, lines>> /\ Unobserved

\* The lock is read and the suite verified against it.
Verify(v) ==
  /\ At(v, "verify")
  /\ IF lock # None /\ VerifySuite(run[v].scenarios, lock)
     THEN run' = [run EXCEPT ![v].pc = "preflight"]
     ELSE Exit(v, "refused")
  /\ UNCHANGED <<files, lines>> /\ Unobserved

\* preflight; checked, which only a property reads, is the trust it saw.
Services(scenarios) == {s \in scenarios : s.probe = "service"}
CheckDeployments(v) ==
  /\ At(v, "preflight")
  /\ IF Preflight(run[v].scenarios, run[v].isolation = "rehearsal")
     THEN run' = [run EXCEPT ![v].pc = "probe",
                    ![v].checked = [s \in Services(run[v].scenarios) |-> Algorithms(deploy[s.target].trust)],
                    ![v].outcomes = [s \in run[v].scenarios |-> NoRuns]]
     ELSE Exit(v, "refused")
  /\ UNCHANGED <<files, lines>> /\ Unobserved

\* TaskBackend.run: a missing task is an error, any exit code decides.
TaskRun(s) == Outcomes[s.target]

\* ServiceBackend.run: the descriptor, and the trust store it names, are loaded again for every run.
\* A drifted descriptor, or a trust without a verifier, raises Refusal, which run_suite counts as
\* an error like any other exception.  The observable's value, or the refusal to boot, is compared
\* with what the scenario expects.
ServiceRun(s) ==
  IF LoadDeployment(s.target, s.digest) /\ TrustVerifier(deploy[s.target])
  THEN {"pass", "fail", "error"} ELSE {"error"}

\* run_suite: one probe run (HoldoutBackend.run).  Scenarios are taken in the order of their
\* ids, the RUNS runs of one before the next.
Probe(v) ==
  /\ At(v, "probe")
  /\ \E s \in run[v].scenarios :
       /\ Total(run[v].outcomes[s]) < RUNS
       /\ \A t \in run[v].scenarios : t.id < s.id => Total(run[v].outcomes[t]) = RUNS
       /\ \E o \in IF s.probe = "task" THEN TaskRun(s) ELSE ServiceRun(s) :
            /\ run' = [run EXCEPT ![v].outcomes[s] = OneMore(@, o)]
            /\ counted' = IF o = "error" \/ s.probe = "task" THEN {}
                          ELSE {[scenario |-> s, ran |-> deploy[s.target],
                                 under |-> Algorithms(deploy[s.target].trust),
                                 checked |-> run[v].checked[s], isolation |-> run[v].isolation]}
  /\ UNCHANGED <<files, lines, appended, edits, crashes, restarts>>

\* The verdict is decided; the record names the lock as the file is NOW.
Document(v) ==
  /\ At(v, "probe") /\ \A s \in run[v].scenarios : Total(run[v].outcomes[s]) = RUNS
  /\ IF lock = None THEN Exit(v, "raised")
     ELSE run' = [run EXCEPT ![v].pc = "append",
                    ![v].document = RecordDocument(Decide(run[v].scenarios, run[v].outcomes),
                                                   lock, run[v].scenarios, run[v].isolation)]
  /\ UNCHANGED <<files, lines>> /\ Unobserved

\* append_record: under the file lock, a record that is there is not written again; lines that
\* do not parse are skipped.  What is written after a line without a newline becomes part of it.
Written(line) == IF unended THEN [ledger EXCEPT ![Len(ledger)] = Torn] ELSE Append(ledger, line)
AppendRecord(v) ==
  /\ At(v, "append")
  /\ IF run[v].document \in Range(ledger) THEN UNCHANGED <<lines, appended>>
     ELSE /\ ledger' = Written(run[v].document) /\ unended' = FALSE
          /\ appended' = appended \cup {run[v].document}
  /\ Exit(v, IF run[v].document.green THEN "ok" ELSE "red")
  /\ counted' = {} /\ UNCHANGED <<files, edits, crashes, restarts>>

\* The write fails (disk full, power loss): nothing is written, a part of the record, all of it but
\* the newline, or the whole line whose fsync fails.
TearRecord(v) ==
  /\ At(v, "append") /\ crashes < MaxCrashes /\ crashes' = crashes + 1
  /\ run[v].document \notin Range(ledger)
  /\ \/ UNCHANGED lines
     \/ ledger' \in {Written(Torn), Written(run[v].document)} /\ unended' = TRUE
     \/ ledger' = Written(run[v].document) /\ unended' = FALSE
  /\ Exit(v, "raised")
  /\ counted' = {} /\ UNCHANGED <<files, appended, edits, restarts>>

\* The process ends and may be started again; it keeps nothing.
Restart(v) ==
  /\ run[v].exit # None /\ restarts < MaxRestarts /\ restarts' = restarts + 1
  /\ run' = [run EXCEPT ![v] = Idle]
  /\ counted' = {} /\ UNCHANGED <<files, lines, appended, edits, crashes>>

-----------------------------------------------------------------------------
(* The operator's edits *)
Edit == /\ edits < MaxEdits /\ edits' = edits + 1
        /\ counted' = {} /\ UNCHANGED <<lines, run, appended, crashes, restarts>>

EditSuite == Edit /\ (\E f \in Files, c \in Contents \cup {None} : suite' = [suite EXCEPT ![f] = c])
             /\ UNCHANGED <<private, lock, deploy, trust>>
EditDeployment ==
  Edit /\ (\E d \in Deployments, c \in Descriptors \cup {None, Bad} : deploy' = [deploy EXCEPT ![d] = c])
  /\ UNCHANGED <<suite, private, lock, trust>>
EditTrust ==
  Edit /\ (\E t \in TrustFiles, c \in TrustContents \cup {None, Bad} : trust' = [trust EXCEPT ![t] = c])
  /\ UNCHANGED <<suite, private, lock, deploy>>
Chmod == Edit /\ private' = ~private /\ UNCHANGED <<suite, lock, deploy, trust>>

\* --build-lock for the suite as it is, installed as the lock (component_entry "build-lock"); or
\* the lock is removed; or the validator's source changes under it.
EditLock ==
  /\ Edit
  /\ lock' \in {None, [scenarios |-> IF lock = None THEN {} ELSE lock.scenarios, tcb |-> "older"]}
               \cup IF EnforcePrivateSuite /\ Loadable(suite) THEN {BuildLock(LoadSuite(suite))} ELSE {}
  /\ UNCHANGED <<suite, private, deploy, trust>>

Next ==
  \/ \E v \in Validators :
       \/ \E c, p, r \in BOOLEAN : Execute(v, c, p, r)
       \/ Load(v) \/ Verify(v) \/ CheckDeployments(v) \/ Probe(v) \/ Document(v)
       \/ AppendRecord(v) \/ TearRecord(v) \/ Restart(v)
  \/ EditSuite \/ EditDeployment \/ EditTrust \/ Chmod \/ EditLock
Spec == Init /\ [][Next]_vars

-----------------------------------------------------------------------------
\* Records, lines and locals are of their types; an unended line is there.
TypeOK ==
  /\ \A i \in DOMAIN ledger : ledger[i] = Torn \/ ledger[i].green \in BOOLEAN
  /\ unended \in BOOLEAN /\ (unended => ledger # <<>>)
  /\ \A v \in Validators :
       /\ run[v].pc \in {"idle", "load", "verify", "preflight", "probe", "append"}
       /\ run[v].isolation \in {None, "enforced", "rehearsal"}
       /\ run[v].scenarios \subseteq Contents

\* Only infrastructure errors are absorbed: behind a green verdict no run of a high-priority scenario
\* failed and all of them passed; and of as large a share of the normal ones as the threshold asks
\* (all of them, by default) no run failed and enough passed (evaluate_scenario, decide).
Sound(v) ==
  {s \in run[v].scenarios :
     LET o == run[v].outcomes[s]
     IN o.fail = 0 /\ o.pass >= IF s.priority = "high" THEN RUNS ELSE SUPERMAJORITY}
Deserved(v) ==
  LET normals == Normals(run[v].scenarios)
  IN /\ run[v].scenarios # {} /\ run[v].scenarios \ normals \subseteq Sound(v)
     /\ Cardinality(normals \cap Sound(v)) * ThresholdDen >= ThresholdNum * Cardinality(normals)
NoFailureBehindGreen ==
  \A v \in Validators : At(v, "append") /\ run[v].document.green => Deserved(v)

\* However the operator edits deployments and trust stores while the probes run, a run that counted
\* ran the descriptor its scenario pins.  One of an authoritative record ran under the rehearsal-only
\* offline trust only if the pinned descriptor names a trust store that was another when preflight
\* read it: no digest covers the store, ServiceBackend.run reads it again and asks nothing of its
\* algorithms (preflight, load_deployment, _parse_trust).
CountedRunsArePinned ==
  \A c \in counted :
    /\ c.ran = c.scenario.digest
    /\ c.isolation = "enforced" => "offline-test" \notin c.checked
    /\ c.isolation = "enforced" /\ "offline-test" \in c.under =>
         c.ran.trust.kind = "trust_store" /\ c.under # c.checked

\* Two validators, retries and torn writes leave no record twice in the ledger ("two processes
\* can never both append the same content fingerprint", append_record).
RecordsAreUnique ==
  \A i, j \in DOMAIN ledger : ledger[i] = ledger[j] /\ ledger[i] # Torn => i = j

\* Of the records a validator was told are appended the ledger loses at most one per failed write:
\* the first to be written after it, on its unended line (append_record).
LostRecordsAreFew == Cardinality(appended \ Range(ledger)) <= crashes
=============================================================================

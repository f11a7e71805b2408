----------------------------- MODULE MCRecords -----------------------------
(* Files that several processes append records to: the owner's ontology store, as in MCOntology,  *)
(* and the ledger of hold-out evaluations, with a suite of at most two files -- a task scenario   *)
(* and a service one --, a deployment of rehearsal-only trust and one that names a trust store.   *)
(* The evaluations come twice, under bounds of their own: while the operator edits the files, and *)
(* over one file, where validators run again after failed writes.  A behaviour is one of these.   *)
EXTENDS MCOntology, TLC
CONSTANTS Nothing, Bad, Validators, Files, Contents, Descriptors, Deployments, Outcomes,
          TrustFiles, TrustContents,
          RUNS, SUPERMAJORITY, ThresholdNum, ThresholdDen, MaxEdits, MaxCrashes, MaxRestarts  \* Holdout
CONSTANTS VerdictCrashes, VerdictRestarts, LedgerEdits  \* bounds of one of the two
VARIABLES records,
          suite, private, lock, deploy, trust, ledger, unended, run,
          counted, appended, edits, crashes, restarts  \* Holdout
holdout == <<suite, private, lock, deploy, trust, ledger, unended, run,
             counted, appended, edits, crashes, restarts>>

Real == [trust |-> [kind |-> "trust_store", path |-> "k"], available |-> TRUE]
Offline == [trust |-> [kind |-> "inline", algorithm |-> "offline-test"], available |-> TRUE]
TaskScenario == [id |-> 1, priority |-> "high", probe |-> "task", target |-> "t", digest |-> Nothing]
ServiceScenario == [id |-> 2, priority |-> "normal", probe |-> "service", target |-> "d", digest |-> Real]
SuiteContents == {Bad, TaskScenario, ServiceScenario}
SuiteDescriptors == {Real, Offline}
StoreContents == {{"minisign"}, {"offline-test", "minisign"}}
TaskOutcomes == [t \in {"t"} |-> {"pass", "error"}]
H == INSTANCE Holdout WITH None <- Nothing
ASSUME VerdictConstants == H!HoldoutConstants
Symmetric == Permutations(Validators) \cup Permutations(Files)

OffHoldout == /\ suite = 0 /\ private = 0 /\ lock = 0 /\ deploy = 0 /\ trust = 0 /\ ledger = 0 /\ unended = 0
              /\ run = 0 /\ counted = 0 /\ appended = 0 /\ edits = 0 /\ crashes = 0 /\ restarts = 0
OffStore == Init
\* Trust stores hold real keys until the operator edits one.
RealKeys == trust = [t \in TrustFiles |-> {"minisign"}]
\* A suite of one file, and what it needs of the rest.
OneTask == /\ \A f \in Files : suite[f] \in {TaskScenario, Nothing}
           /\ deploy = [d \in Deployments |-> Real] /\ RealKeys
InitRecords ==
  \/ records = "facts" /\ Init /\ OffHoldout
  \/ records = "verdicts" /\ H!Init /\ RealKeys /\ OffStore
  \/ records = "ledger" /\ H!Init /\ OneTask /\ OffStore
NextRecords ==
  \/ records = "facts" /\ Next /\ UNCHANGED <<records, holdout>>
  \/ /\ records = "verdicts" /\ H!Next /\ UNCHANGED <<records, vars>>
     /\ crashes' <= VerdictCrashes /\ restarts' <= VerdictRestarts
  \/ /\ records = "ledger" /\ H!Next /\ UNCHANGED <<records, vars>>
     /\ edits' <= LedgerEdits
SpecRecords == InitRecords /\ [][NextRecords]_<<records, vars, holdout>>

\* See Holdout: retries, two writers and torn writes leave no record twice in the ledger and cost at
\* most one acknowledged record each; behind a green verdict no run failed; every run that counted
\* ran what its scenario pins, under the trust preflight checked unless a trust store was edited.
VerdictsHold ==
  records # "facts" => /\ H!TypeOK /\ H!RecordsAreUnique /\ H!LostRecordsAreFew
                       /\ H!NoFailureBehindGreen /\ H!CountedRunsArePinned
=============================================================================

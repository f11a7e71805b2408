---------------------------- MODULE MCComponents ----------------------------
(* What runs networks of components and what brings them up, on small instances: the streaming    *)
(* engine (Stream, over the networks of MCStream), bound work and single-shot networks (Work, over *)
(* the owners of MCWork), boots from a component lock (Supply), providers (Provider), and the      *)
(* critical path of a network (CriticalPath, over the networks of MCCriticalPath, with exact       *)
(* durations).  A behaviour is one of one part.                                                    *)
EXTENDS Stream, TLC
CONSTANTS Refused, Corrupt, o1, o2, p
VARIABLES part,
          disk, catalog, binder, run, runs, faults,            \* Work
          source, lock, cache, state, boot, answers, edits,    \* Supply
          infra, taskFile, healthy, entries, pc, job, steps, inflight, result, told,
          gap, forced, drifted, recent, reconciles, drifts, crashes,  \* Provider
          input, analysis  \* CriticalPath
work == <<disk, catalog, binder, run, runs, faults>>
supply == <<source, lock, cache, state, boot, answers, edits>>
provider == <<infra, taskFile, healthy, entries, pc, job, steps, inflight, result, told,
              gap, forced, drifted, recent, reconciles, drifts, crashes>>
cpm == <<input, analysis>>

Streams == INSTANCE MCStream
Documents == Streams!Documents

Owned == INSTANCE MCWork
W == INSTANCE Work WITH
       Dotted <- {9}, Types <- {"int", "str", "dict"}, MaxDepth <- 2, Limit <- 3, MaxRuns <- 2, MaxFaults <- 1,
       Owners <- Owned!MCOwners, Declared <- Owned!MCDeclared, Specs <- Owned!MCSpecs,
       Trusted <- Owned!MCTrusted, Allowlist <- Owned!MCAllowlist, Subprocess <- Owned!MCSubprocess,
       Plans <- Owned!MCPlans, Trees <- Owned!MCTrees, Recipes <- Owned!MCRecipes, Answers <- Owned!MCAnswers
\* Reading what to_dict wrote gives the network back.
ASSUME \A o \in DOMAIN Owned!MCPlans : \A i \in DOMAIN Owned!MCPlans[o] :
  LET n == W!FromDict(Owned!MCPlans[o][i], 0)
  IN n # Refused => W!FromDict(W!ToDict(n), 0) = [n EXCEPT !.iips = W!ToDict(n).iips]

\* A root that references two others, one of which may reference the third, or the root again.
Locked(n, refs) ==
  [name |-> n, good |-> TRUE, implements |-> {"component.v1"}, kind |-> IF refs = <<>> THEN "atomic" ELSE "composite",
   refs |-> refs, embeds |-> {}, entry |-> IF n = "c" THEN "other" ELSE "listed", state |-> n = "c",
   signature |-> TRUE, verifies |-> TRUE]
C == INSTANCE Supply WITH
       Rotten <- [Locked("b", <<>>) EXCEPT !.signature = FALSE], Booters <- {p}, Names <- {"a", "b", "c"},
       Bundles <- {Locked("a", <<"b", "c">>), Locked("b", <<"c">>), Locked("b", <<"a">>), Locked("c", <<>>),
                   [Locked("c", <<>>) EXCEPT !.verifies = FALSE], Locked("c", <<"b">>)},
       Contracts <- {"component.v1"}, Requested <- <<"a", "b", "c">>, Allowlist <- {"listed"},
       AllowSubprocess <- TRUE, MaxEdits <- 1, MaxWrites <- 2, MaxDepth <- 5

\* Two resources, of which the first is to be updated and the second is not always desired.
P == INSTANCE Provider WITH
       Names <- 1..2, Digests <- {"a", "b"}, Cloud <- FALSE,
       BoundEvents <- {"provisioned", "healed", "rolled-back", "escalated"},
       Desireds <- {(1 :> "a") @@ (2 :> "absent"), (1 :> "b") @@ (2 :> "a")},
       MaxAttempts <- 2, MaxReconciles <- 2, MaxDrift <- 1, MaxCrash <- 1, history <- entries, todo <- steps
\* What the theorems about Provider assume.
ASSUME ProviderConstants == P!ConstantsOK

Activities == INSTANCE MCCriticalPath WITH Networks <- {}, Plans <- {}, Bits <- 10
Cpm == INSTANCE CriticalPath WITH Networks <- Activities!MCNetworks, Plans <- Activities!MCPlans, Bits <- 10

OffStream == Init /\ net = Streams!Tree
OffWork == disk = 0 /\ catalog = 0 /\ binder = 0 /\ run = 0 /\ runs = 0 /\ faults = 0
OffSupply == source = 0 /\ lock = 0 /\ cache = 0 /\ state = 0 /\ boot = 0 /\ answers = 0 /\ edits = 0
OffProvider ==
  /\ infra = 0 /\ taskFile = 0 /\ healthy = 0 /\ entries = 0 /\ pc = 0 /\ job = 0 /\ steps = 0 /\ inflight = 0
  /\ result = 0 /\ told = 0 /\ gap = 0 /\ forced = 0 /\ drifted = 0 /\ recent = 0 /\ reconciles = 0
  /\ drifts = 0 /\ crashes = 0
OffCpm == input = 0 /\ analysis = 0

InitComponents ==
  \/ part = "stream" /\ Init /\ OffWork /\ OffSupply /\ OffProvider /\ OffCpm
  \/ part = "work" /\ W!Init /\ OffStream /\ OffSupply /\ OffProvider /\ OffCpm
  \/ part = "boot" /\ C!Init /\ OffStream /\ OffWork /\ OffProvider /\ OffCpm
  \/ part = "provider" /\ P!Init /\ OffStream /\ OffWork /\ OffSupply /\ OffCpm
  \/ part = "analysis" /\ Cpm!Init /\ OffStream /\ OffWork /\ OffSupply /\ OffProvider
NextComponents ==
  \/ part = "stream" /\ Next /\ UNCHANGED <<part, work, supply, provider, cpm>>
  \/ part = "work" /\ W!Next /\ UNCHANGED <<part, vars, supply, provider, cpm>>
  \/ part = "boot" /\ C!Next /\ UNCHANGED <<part, vars, work, provider, cpm>>
  \/ part = "provider" /\ P!Next /\ UNCHANGED <<part, vars, work, supply, cpm>>
  \/ part = "analysis" /\ Cpm!Next /\ UNCHANGED <<part, vars, work, supply, provider>>
FairComponents ==
  /\ WF_vars(part = "stream" /\ Next) /\ WF_work(part = "work" /\ W!Advance)
  /\ WF_supply(part = "boot" /\ C!Booting(p)) /\ WF_provider(part = "provider" /\ P!Progress)
SpecComponents ==
  InitComponents /\ [][NextComponents]_<<part, vars, work, supply, provider, cpm>> /\ FairComponents

\* See Work and Supply: what runs under a name went through a gate for that name, and a booted tree
\* is what the lock pins, its references first.
OnlyPinnedCode ==
  CASE part = "work" -> W!TypeOK /\ W!OnlyGatedCode
    [] part = "boot" -> C!TypeOK /\ C!BootedIsPinned /\ C!ReferencesFirst
    [] OTHER -> TRUE
\* See Work: a verdict is about the whole network, and no run stops for want of a packet or of room.
VerdictsWhole == part = "work" => W!VerdictsAreWhole /\ W!NeverStarved
\* See Work: the last edge into a port decides.
LastEdgeArrives == part = "work" => W!ArgumentsArrive
\* See Provider: converged means that the world is as desired, and what needs approval has it.
ConvergedIsDesired == part = "provider" => P!TypeOK /\ P!ConvergedIsDesired /\ P!UnapprovedOnlyRollsBack
\* See Supply and Provider: an answered write outlives restarts, and every change made to the world
\* is in the evidence, but for the call in flight and one per crash.
NothingForgotten ==
  CASE part = "boot" -> C!AnsweredWritesKept [] part = "provider" -> P!EvidenceLagsByOne [] OTHER -> TRUE
\* See CriticalPath: the critical path is a longest chain of the network, and a plan is analysed as
\* the network it stands for.
ChainSpansProject == part = "analysis" => Cpm!ChainSpansProject /\ Cpm!PlansAgree

\* The loop of run_stream always returns ("never a hang"), a run over bound work comes to an end, a
\* boot ends booted or failed although pinned components may reference each other in a cycle, and a
\* reconcile ends converged, escalated or raised although health checks fail and the world drifts.
Busy ==
  CASE part = "stream" -> status \in {"new", "running", "sweeping"}
    [] part = "work" -> W!Running
    [] part = "boot" -> boot[p].pc \notin {"idle", "booted", "failed"}
    [] part = "provider" -> pc # "idle"
    [] OTHER -> FALSE
EveryRunEnds == Busy ~> ~Busy
=============================================================================
